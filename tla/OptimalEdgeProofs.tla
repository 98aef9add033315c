------------------------- MODULE OptimalEdgeProofs --------------------------
(***************************************************************************)
(* Proofs about OptimalEdgeProfiling, for functions of any size, edges in  *)
(* any order and runs of any length.                                       *)
(*                                                                         *)
(* First the spanning tree (KruskalInv). Then the types: the walk over the *)
(* block list, which splits edges as it goes, gives out the counters that  *)
(* were reserved, one for each edge (Profiled, Shape). Last the weights    *)
(* (LoadInv): the way from a block to the next passes the counter of that  *)
(* edge and no other (Wiring), so a counter has what was taken, or the     *)
(* mark of an edge in the tree (Counts); what flows into a block flows out *)
(* of it (Flow); so an edge that alone is missing at a block is what the   *)
(* others leave (Rebuilt).                                                 *)
(***************************************************************************)
EXTENDS OptimalEdgeProfiling, LibraryFacts, TLAPS

-----------------------------------------------------------------------------
(* Joined nodes *)

\* More edges join more nodes.
LEMMA JoinedByMore ==
  ASSUME NEW N, NEW es, NEW fs, es \subseteq fs, NEW a, NEW b, JoinedBy(N, es, a, b)
  PROVE  JoinedBy(N, fs, a, b)
  BY DEF JoinedBy, Closed

\* A set that no edge leaves separates what is in it from what is not.
LEMMA ClosedSeparates ==
  ASSUME NEW N, NEW es, NEW X \in SUBSET N, Closed(X, es), NEW a \in X, NEW b, b \notin X
  PROVE  ~ JoinedBy(N, es, a, b)
  BY DEF JoinedBy

\* An edge between two sets that are each joined joins their union.
LEMMA UnionJoined ==
  ASSUME NEW N, NEW es, NEW e, NEW S, NEW T, e[1] \in S, e[2] \in T,
         \A a, b \in S : JoinedBy(N, es, a, b),
         \A a, b \in T : JoinedBy(N, es, a, b),
         NEW a \in S \cup T, NEW b \in S \cup T
  PROVE  JoinedBy(N, es \cup {e}, a, b)
<1> SUFFICES ASSUME NEW X \in SUBSET N, Closed(X, es \cup {e}), a \in X PROVE b \in X
  BY DEF JoinedBy
<1>1. Closed(X, es) /\ (e[1] \in X <=> e[2] \in X)
  BY DEF Closed
<1>2. \A c, d \in S : c \in X => d \in X
  BY <1>1 DEF JoinedBy
<1>3. \A c, d \in T : c \in X => d \in X
  BY <1>1 DEF JoinedBy
<1> QED
  BY <1>1, <1>2, <1>3

\* An edge d of a forest, taken out, still parts its ends when an edge e is
\* put between two of the trees S and T.
LEMMA StillApart ==
  ASSUME NEW N, NEW es, NEW e, NEW d \in es,
         NEW S \in SUBSET N, NEW T \in SUBSET N, NEW C \in SUBSET N,
         Closed(S, es), Closed(T, es), Closed(C, es),
         e[1] \in S, e[2] \in T, S \cap T = {}, d[1] \in C, d[2] \in C,
         C \cap S = {} \/ C = S, C \cap T = {} \/ C = T,
         ~ JoinedBy(N, es \ {d}, d[1], d[2])
  PROVE  ~ JoinedBy(N, (es \cup {e}) \ {d}, d[1], d[2])
<1>1. PICK X \in SUBSET N : Closed(X, es \ {d}) /\ d[1] \in X /\ d[2] \notin X
  BY DEF JoinedBy
<1>2. ASSUME NEW Y \in SUBSET N, Closed(Y, es \ {d}), e[1] \in Y <=> e[2] \in Y,
             d[1] \in Y, d[2] \notin Y
      PROVE  ~ JoinedBy(N, (es \cup {e}) \ {d}, d[1], d[2])
  <2>1. Closed(Y, (es \cup {e}) \ {d})
    BY <1>2 DEF Closed
  <2> QED
    BY <1>2, <2>1, ClosedSeparates
<1>3. CASE C = S /\ e[1] \in X
  <2> DEFINE Y == (X \cap S) \cup T
  <2>1. Closed(Y, es \ {d})
    BY <1>1 DEF Closed
  <2> QED
    BY <1>1, <1>2, <1>3, <2>1
<1>4. CASE C = T /\ e[2] \in X
  <2> DEFINE Y == (X \cap T) \cup S
  <2>1. Closed(Y, es \ {d})
    BY <1>1 DEF Closed
  <2> QED
    BY <1>1, <1>2, <1>4, <2>1
<1>5. CASE ~ (C = S /\ e[1] \in X) /\ ~ (C = T /\ e[2] \in X)
  <2> DEFINE Y == X \cap C
  <2>1. Closed(Y, es \ {d})
    BY <1>1 DEF Closed
  <2> QED
    BY <1>1, <1>2, <1>5, <2>1
<1> QED
  BY <1>3, <1>4, <1>5

-----------------------------------------------------------------------------
(* The invariant of Kruskal's loop *)

\* The sets of the forest are disjoint, and hold the ends of all edges.
ForestOK ==
  /\ \A S \in forest : S \in SUBSET Nodes
  /\ \A S, T \in forest : S \cap T = {} \/ S = T
  /\ \A e \in edges : \E S, T \in forest : e[1] \in S /\ e[2] \in T

\* The tree joins the nodes of a set, and no others.
ForestJoined ==
  /\ \A S \in forest : Closed(S, MST)
  /\ \A S \in forest : \A a, b \in S : JoinedBy(Nodes, MST, a, b)
  /\ \A e \in MST : \E S \in forest : e[1] \in S /\ e[2] \in S

Acyclic == \A e \in MST : ~ JoinedBy(Nodes, MST \ {e}, e[1], e[2])

\* An edge is still to be looked at, or its ends are joined.
Covered == \A e \in OwnEdges(function) : e \in edges \/ \E S \in forest : e[1] \in S /\ e[2] \in S

KruskalInv ==
  /\ ForestOK
  /\ ForestJoined
  /\ Acyclic
  /\ Covered
  /\ pc # "tree" => edges = {}

\* Every edge an estimate knows has its ends in the function or is outside.
LEMMA EdgesAreNodes ==
  ASSUME NEW f \in Functions, NEW es \in EstimatedEdges(f), NEW e \in es
  PROVE  /\ OwnEdges(f) \subseteq es
         /\ e[1] \in DOMAIN f \cup {0} /\ e[2] \in DOMAIN f \cup {0}
<1>1. f \in [1 .. Len(f) -> Seq(2 .. Len(f))] /\ f # <<>>
  BY FunctionsAssumption DEF WellFormed
<1>2. OwnEdges(f) \subseteq es
  BY DEF EstimatedEdges
<1>3. 1 \in DOMAIN f
  <2>1. f \in Seq(Seq(2 .. Len(f)))
    BY <1>1
  <2> QED
    BY <1>1, <2>1
<1>4. ASSUME NEW b \in DOMAIN f, NEW d \in Range(EdgesOf(f, b))
      PROVE  d[1] \in DOMAIN f \cup {0} /\ d[2] \in DOMAIN f \cup {0}
  <2>1. CASE f[b] = <<>>
    BY <1>4, <2>1 DEF EdgesOf, Range
  <2>2. CASE f[b] # <<>>
    <3>1. PICK t \in DOMAIN f[b] : d = <<b, f[b][t]>>
      BY <1>4, <2>2 DEF EdgesOf, Range
    <3>2. f[b][t] \in 2 .. Len(f) /\ DOMAIN f = 1 .. Len(f)
      BY <1>1
    <3> QED
      BY <3>1, <3>2
  <2> QED
    BY <2>1, <2>2
<1>5. ASSUME NEW d \in OwnEdges(f) PROVE d[1] \in DOMAIN f \cup {0} /\ d[2] \in DOMAIN f \cup {0}
  BY <1>3, <1>4, <1>5 DEF OwnEdges
<1>6. ASSUME NEW b \in DOMAIN f, NEW t \in SuccsOf(f, b)
      PROVE  t \in DOMAIN f
  <2>1. t \in 2 .. Len(f) /\ DOMAIN f = 1 .. Len(f)
    BY <1>1, <1>6 DEF SuccsOf, Range
  <2> QED
    BY <2>1
<1>7. \/ \E latches \in SUBSET {b \in DOMAIN f : OnCycle(f, b)} :
           e \in OwnEdges(f) \cup {<<l, 0>> : l \in latches}
      \/ e \in OwnEdges(f) \cup {<<0, b>> : b \in {d \in DOMAIN f : PredsOf(f, d) = {}}}
      \/ \E b \in DOMAIN f : \E t \in SuccsOf(f, b) : e = <<t, b>>
  BY DEF EstimatedEdges
<1> QED
  BY <1>2, <1>5, <1>6, <1>7

\* Initially every node is a set of its own.
LEMMA KruskalInit == Init => KruskalInv
<1> SUFFICES ASSUME Init PROVE KruskalInv
  OBVIOUS
<1> DEFINE Ends == UNION {{e[1], e[2]} : e \in edges}
<1>1. OwnEdges(function) \subseteq edges /\ \A e \in edges : e[1] \in Nodes /\ e[2] \in Nodes
  <2>1. function \in Functions /\ edges \in EstimatedEdges(function)
    BY DEF Init
  <2>2. OwnEdges(function) \subseteq edges
    BY <2>1 DEF EstimatedEdges
  <2>3. \A e \in edges : e[1] \in DOMAIN function \cup {0} /\ e[2] \in DOMAIN function \cup {0}
    BY <2>1, EdgesAreNodes
  <2> QED
    BY <2>2, <2>3 DEF Nodes, Blocks
<1>2. forest = {{n} : n \in Ends} /\ MST = {} /\ pc = "tree"
  BY DEF Init
<1>3. \A e \in edges : e[1] \in Ends /\ e[2] \in Ends
  OBVIOUS
<1>4. ForestOK
  <2>1. \A n \in Ends : n \in Nodes
    BY <1>1
  <2> HIDE DEF Ends
  <2>2. \A S \in forest : S \in SUBSET Nodes
    BY <1>2, <2>1
  <2>3. \A S, T \in forest : S \cap T = {} \/ S = T
    BY <1>2
  <2>4. ASSUME NEW e \in edges PROVE \E S, T \in forest : e[1] \in S /\ e[2] \in T
    <3>1. {e[1]} \in forest /\ {e[2]} \in forest
      BY <1>2, <1>3
    <3> QED
      BY <3>1
  <2> QED
    BY <2>2, <2>3, <2>4 DEF ForestOK
<1>5. ForestJoined
  BY <1>2 DEF ForestJoined, Closed, JoinedBy
<1> QED
  BY <1>1, <1>2, <1>4, <1>5 DEF KruskalInv, Acyclic, Covered

-----------------------------------------------------------------------------
(* One turn of Kruskal's loop *)

\* The leaders of the ends of an edge
LEMMA Leaders ==
  ASSUME KruskalInv, NEW e \in edges
  PROVE  /\ Leader(e[1]) \in forest /\ e[1] \in Leader(e[1])
         /\ Leader(e[2]) \in forest /\ e[2] \in Leader(e[2])
  BY DEF KruskalInv, ForestOK, Leader

LEMMA LookAtEdgeInv ==
  ASSUME KruskalInv, NEW e \in edges, LookAtEdge(e)
  PROVE  KruskalInv'
<1> DEFINE S == Leader(e[1])
           T == Leader(e[2])
<1> USE DEF KruskalInv
<1>1. /\ S \in forest /\ e[1] \in S /\ T \in forest /\ e[2] \in T
      /\ S \subseteq Nodes /\ T \subseteq Nodes
  BY Leaders DEF ForestOK
<1>2. /\ pc = "tree" /\ pc' = pc /\ function' = function /\ Nodes' = Nodes
      /\ edges' = edges \ {e}
  BY DEF LookAtEdge, Nodes, Blocks
<1>3. CASE S = T
  <2>1. forest' = forest /\ MST' = MST
    BY <1>3 DEF LookAtEdge
  <2>2. ForestOK' /\ ForestJoined' /\ Acyclic'
    BY <1>2, <2>1 DEF ForestOK, ForestJoined, Acyclic
  <2>3. Covered'
    BY <1>1, <1>2, <1>3, <2>1 DEF Covered
  <2> QED
    BY <1>2, <2>2, <2>3
<1>4. CASE S # T
  <2> DEFINE U == S \cup T
  <2>1. forest' = (forest \ {S, T}) \cup {U} /\ MST' = MST \cup {e}
    BY <1>4 DEF LookAtEdge, Unite
  <2>2. S \cap T = {}
    BY <1>1, <1>4 DEF ForestOK
  <2> HIDE DEF S, T
  <2>3. ASSUME NEW X \in forest PROVE \E Y \in forest' : X \subseteq Y
    <3>1. CASE X = S \/ X = T
      BY <2>1, <3>1
    <3>2. CASE X # S /\ X # T
      BY <2>1, <3>2
    <3> QED
      BY <3>1, <3>2
  <2>4. ForestOK'
    <3>1. \A X \in forest' : X \in SUBSET Nodes
      BY <1>1, <2>1 DEF ForestOK
    <3>2. \A X, Y \in forest' : X \cap Y = {} \/ X = Y
      <4>1. \A X \in forest \ {S, T} : X \cap U = {}
        BY <1>1 DEF ForestOK
      <4>2. \A X, Y \in forest \ {S, T} : X \cap Y = {} \/ X = Y
        BY DEF ForestOK
      <4> HIDE DEF U
      <4> QED
        BY <2>1, <4>1, <4>2
    <3>3. ASSUME NEW d \in edges' PROVE \E X, Y \in forest' : d[1] \in X /\ d[2] \in Y
      BY <1>2, <2>3, <3>3 DEF ForestOK
    <3> QED
      BY <1>2, <3>1, <3>2, <3>3 DEF ForestOK
  <2>5. ForestJoined'
    <3>1. ASSUME NEW X \in forest' PROVE Closed(X, MST')
      <4>1. CASE X = U
        BY <1>1, <2>1, <4>1 DEF ForestJoined, Closed
      <4>2. CASE X # U
        <5>1. X \in forest /\ e[1] \notin X /\ e[2] \notin X
          BY <1>1, <2>1, <3>1, <4>2 DEF ForestOK
        <5> QED
          BY <2>1, <5>1 DEF ForestJoined, Closed
      <4> QED
        BY <4>1, <4>2
    <3>2. ASSUME NEW X \in forest', NEW a \in X, NEW b \in X PROVE JoinedBy(Nodes, MST', a, b)
      <4>1. CASE X = U
        <5>1. \A c, d \in S : JoinedBy(Nodes, MST, c, d)
          BY <1>1 DEF ForestJoined
        <5>2. \A c, d \in T : JoinedBy(Nodes, MST, c, d)
          BY <1>1 DEF ForestJoined
        <5> QED
          BY <1>1, <2>1, <4>1, <5>1, <5>2, UnionJoined
      <4>2. CASE X # U
        <5>1. JoinedBy(Nodes, MST, a, b)
          BY <2>1, <4>2 DEF ForestJoined
        <5> QED
          BY <2>1, <5>1, JoinedByMore
      <4> QED
        BY <4>1, <4>2
    <3>3. ASSUME NEW d \in MST' PROVE \E X \in forest' : d[1] \in X /\ d[2] \in X
      <4>1. CASE d = e
        BY <1>1, <2>1, <4>1
      <4>2. CASE d \in MST
        BY <2>3, <4>2 DEF ForestJoined
      <4> QED
        BY <2>1, <4>1, <4>2
    <3> QED
      BY <1>2, <3>1, <3>2, <3>3 DEF ForestJoined
  <2>6. Acyclic'
    <3>1. Closed(S, MST) /\ Closed(T, MST)
      BY <1>1 DEF ForestJoined
    <3>2. ASSUME NEW d \in MST' PROVE ~ JoinedBy(Nodes, MST' \ {d}, d[1], d[2])
      <4>1. CASE d = e
        <5>1. Closed(S, MST' \ {d}) /\ d[1] \in S /\ d[2] \notin S
          BY <1>1, <2>1, <2>2, <3>1, <4>1 DEF Closed
        <5> QED
          BY <1>1, <5>1, ClosedSeparates
      <4>2. CASE d \in MST
        <5>1. PICK C \in forest : d[1] \in C /\ d[2] \in C
          BY <4>2 DEF ForestJoined
        <5>2. /\ Closed(C, MST) /\ C \in SUBSET Nodes
              /\ C \cap S = {} \/ C = S
              /\ C \cap T = {} \/ C = T
          BY <1>1, <5>1 DEF ForestJoined, ForestOK
        <5>3. ~ JoinedBy(Nodes, MST \ {d}, d[1], d[2])
          BY <4>2 DEF Acyclic
        <5> QED
          BY <1>1, <2>1, <2>2, <3>1, <4>2, <5>1, <5>2, <5>3, StillApart
      <4> QED
        BY <2>1, <4>1, <4>2
    <3> QED
      BY <1>2, <3>2 DEF Acyclic
  <2>7. Covered'
    <3> SUFFICES ASSUME NEW d \in OwnEdges(function)
                 PROVE  d \in edges' \/ \E X \in forest' : d[1] \in X /\ d[2] \in X
      BY <1>2 DEF Covered
    <3>1. CASE d = e
      BY <1>1, <2>1, <3>1
    <3>2. CASE d \in edges /\ d # e
      BY <1>2, <3>2
    <3>3. CASE d \notin edges
      BY <2>3, <3>3 DEF Covered
    <3> QED
      BY <3>1, <3>2, <3>3
  <2> QED
    BY <1>2, <2>4, <2>5, <2>6, <2>7
<1> QED
  BY <1>3, <1>4

-----------------------------------------------------------------------------
(* The theorem *)

\* No later step touches the tree.
LEMMA TreeStays ==
  ASSUME KruskalInv, UNCHANGED <<function, treeVars>>, pc # "tree" => pc' # "tree",
         pc' # "tree" => edges = {}
  PROVE  KruskalInv'
  BY DEF KruskalInv, treeVars, ForestOK, ForestJoined, Acyclic, Covered, Nodes, Blocks

\* The invariant of Kruskal's loop holds in the loop and ever after.
THEOREM KruskalInvHolds == Spec => []KruskalInv
<1>1. Init => KruskalInv
  BY KruskalInit
<1>2. KruskalInv /\ [Next]_vars => KruskalInv'
  <2> SUFFICES ASSUME KruskalInv, [Next]_vars PROVE KruskalInv'
    OBVIOUS
  <2>1. CASE \E e \in edges : LookAtEdge(e)
    BY <2>1, LookAtEdgeInv
  <2>2. CASE EndTree
    BY <2>2, TreeStays DEF EndTree, treeVars
  <2>3. CASE InstrumentEntry \/ InstrumentReturn \/ InstrumentEdge \/ NextBlock \/ FinishInstrumentation
    BY <2>3, TreeStays DEF KruskalInv, InstrumentEntry, InstrumentReturn, InstrumentEdge, NextBlock,
       FinishInstrumentation, Counting
  <2>4. CASE Execute \/ Load
    BY <2>4, TreeStays DEF KruskalInv, Execute, Call, Take, Return, Exit, Load
  <2>5. CASE Rebuild
    BY <2>5, TreeStays DEF KruskalInv, Rebuild, BeginRound, CalculateMissingEdge, EndRound, EndLoad,
       RecurseBasicBlock
  <2>6. CASE UNCHANGED vars
    BY <2>6, TreeStays DEF KruskalInv, vars
  <2> QED
    BY <2>1, <2>2, <2>3, <2>4, <2>5, <2>6 DEF Next, Instrument
<1> QED
  BY <1>1, <1>2, PTL DEF Spec

\* Whatever order the estimate puts the edges in and whatever edges it adds,
\* the edges of the function without a counter form no cycle; and if the tree
\* holds no added edge, none could be added to them.
THEOREM TreeSpans == Spec => []SpanningForest
<1>1. KruskalInv => SpanningForest
  <2> SUFFICES ASSUME KruskalInv PROVE SpanningForest
    OBVIOUS
  <2>1. ASSUME NEW e \in LeftOut PROVE ~ Connected(LeftOut \ {e}, e[1], e[2])
    <3>1. ~ JoinedBy(Nodes, MST \ {e}, e[1], e[2])
      BY <2>1 DEF KruskalInv, Acyclic, LeftOut
    <3>2. MST \ {e} = (LeftOut \ {e}) \cup (MST \ {e})
      BY DEF LeftOut
    <3> QED
      BY <3>1, <3>2, JoinedByMore DEF Connected
  <2>2. ASSUME pc # "tree", MST \subseteq OwnEdges(function), NEW e \in OwnEdges(function)
        PROVE  Connected(LeftOut, e[1], e[2])
    <3>1. JoinedBy(Nodes, MST, e[1], e[2])
      BY <2>2 DEF KruskalInv, Covered, ForestJoined
    <3>2. LeftOut = MST
      BY <2>2 DEF LeftOut
    <3> QED
      BY <3>1, <3>2 DEF Connected
  <2> QED
    BY <2>1, <2>2 DEF SpanningForest
<1> QED
  BY <1>1, KruskalInvHolds, PTL

-----------------------------------------------------------------------------
(* The counters of the function *)

\* Numbers added up from the first one on
IsTally(n, z, off) ==
  /\ n \in Nat /\ \A c \in 1 .. n : z[c] \in Nat
  /\ off[1] = 0 /\ \A c \in 1 .. n : off[c + 1] = off[c] + z[c]

LEMMA SumsOffset ==
  ASSUME NEW n, NEW z, NEW off, IsTally(n, z, off), NEW b \in 1 .. n + 1
  PROVE  SumFunctionOnSet(z, 1 .. b - 1) = off[b]
<1> USE DEF IsTally
<1> DEFINE P == {m \in Nat : m <= n => SumFunctionOnSet(z, 1 .. m) = off[m + 1]}
<1>1. 0 \in P
  <2>1. 1 .. 0 = {} /\ 0 + 1 = 1
    OBVIOUS
  <2>2. SumFunctionOnSet(z, 1 .. 0) = 0
    BY <2>1, SumEmpty
  <2> QED
    BY <2>1, <2>2
<1>2. ASSUME NEW m \in Nat, m \in P
      PROVE  m + 1 \in P
  <2> SUFFICES ASSUME m + 1 <= n PROVE SumFunctionOnSet(z, 1 .. m + 1) = off[(m + 1) + 1]
    OBVIOUS
  <2>1. PICK k, S : k = m + 1 /\ S = 1 .. m
    OBVIOUS
  <2>2. k \in 1 .. n /\ k \notin S /\ S \cup {k} = 1 .. m + 1 /\ \A y \in S \cup {k} : y \in 1 .. n
    BY <2>1
  <2>3. IsFiniteSet(S)
    BY <2>1, FS_Interval
  <2>4. \A y \in S \cup {k} : z[y] \in Nat
    BY <2>2
  <2>5. SumFunctionOnSet(z, S \cup {k}) = z[k] + SumFunctionOnSet(z, S)
    BY <2>2, <2>3, <2>4, SumAdd
  <2>6. SumFunctionOnSet(z, S) = off[k]
    BY <1>2, <2>1
  <2>7. SumFunctionOnSet(z, S) \in Nat
    BY <2>3, <2>4, SumType
  <2>8. off[k + 1] = off[k] + z[k]
    BY <2>2
  <2>9. PICK a, o : a = z[k] /\ o = off[k] /\ a \in Nat /\ o \in Nat
    BY <2>2, <2>4, <2>6, <2>7
  <2>10. a + o = o + a
    BY <2>9
  <2>11. SumFunctionOnSet(z, 1 .. m + 1) = off[k + 1]
    BY <2>2, <2>5, <2>6, <2>8, <2>9, <2>10, Zenon
  <2> QED
    BY <2>1, <2>11
<1>3. Nat \subseteq P
  <2> HIDE DEF P
  <2> QED
    BY <1>1, <1>2, NatInd
<1>4. PICK m : m = b - 1 /\ m \in Nat /\ m <= n /\ m + 1 = b
  OBVIOUS
<1> QED
  BY <1>3, <1>4

\* The values of a function added up, as FoldFunction does it
LEMMA FoldIsSum ==
  ASSUME NEW n \in Nat, NEW z, \A c \in 1 .. n : z[c] \in Nat, NEW b \in 1 .. n + 1
  PROVE  FoldFunction(+, 0, [c \in 1 .. b - 1 |-> z[c]]) = SumFunctionOnSet(z, 1 .. b - 1)
<1>1. PICK g, S : S = 1 .. b - 1 /\ g = [c \in S |-> z[c]]
  OBVIOUS
<1>2. FoldFunction(+, 0, g) = SumFunctionOnSet(g, DOMAIN g)
  BY DEF FoldFunction, SumFunctionOnSet
<1>3. DOMAIN g = S
  BY <1>1
<1>4. IsFiniteSet(S) /\ \A y \in S : z[y] \in Nat /\ g[y] = z[y]
  <2>1. IsFiniteSet(S)
    BY <1>1, FS_Interval
  <2> QED
    BY <1>1, <2>1
<1>5. SumFunctionOnSet(g, S) = SumFunctionOnSet(z, S)
  BY <1>4, SumSame
<1> QED
  BY <1>1, <1>2, <1>3, <1>5

\* The larger of 1 and a number
LEMMA MaxOne ==
  ASSUME NEW k \in Nat
  PROVE  Max({1, k}) = IF k = 0 THEN 1 ELSE k
<1>1. PICK m : m = IF k = 0 THEN 1 ELSE k
  OBVIOUS
<1>2. m \in {1, k} /\ (\A y \in {1, k} : m >= y) /\ \A x \in {1, k} : (\A y \in {1, k} : x >= y) => x = m
  BY <1>1
<1>3. (CHOOSE x \in {1, k} : \A y \in {1, k} : x >= y) = m
  BY <1>2
<1> QED
  BY <1>1, <1>3 DEF Max

\* A list that begins with e and goes on with the elements of ss, and where it
\* has them
Fronted(S, e, ss, n, off, pl, r) ==
  /\ e \in S /\ ss \in Seq(Seq(S)) /\ n = Len(ss) /\ IsOffsets(ss, off)
  /\ \A b \in 1 .. n + 1 : pl[b] = off[b] + 1
  /\ r = <<e>> \o FlattenSeq(ss)

AtPlaces(e, ss, n, pl, r) ==
  /\ DOMAIN r = 1 .. pl[n + 1] /\ r[1] = e
  /\ \A b \in 1 .. n : \A t \in 1 .. Len(ss[b]) : \A c :
       c = pl[b] + t => c \in 1 .. pl[n + 1] /\ r[c] = ss[b][t]

LEMMA FrontFlat ==
  ASSUME NEW S, NEW e, NEW ss, NEW n, NEW off, NEW pl, NEW r, Fronted(S, e, ss, n, off, pl, r)
  PROVE  AtPlaces(e, ss, n, pl, r)
<1>0. /\ e \in S /\ ss \in Seq(Seq(S)) /\ n = Len(ss) /\ IsOffsets(ss, off)
      /\ \A b \in 1 .. n + 1 : pl[b] = off[b] + 1
      /\ r = <<e>> \o FlattenSeq(ss)
  BY DEF Fronted
<1>1. PICK fl : fl = FlattenSeq(ss)
  OBVIOUS
<1>2. n \in Nat /\ off \in [1 .. n + 1 -> Nat] /\ \A b \in 1 .. n : Len(ss[b]) \in Nat
  <2>1. n \in Nat /\ \A b \in 1 .. n : ss[b] \in Seq(S)
    BY <1>0
  <2>2. off \in [1 .. n + 1 -> Nat]
    BY <1>0 DEF IsOffsets
  <2> QED
    BY <2>1, <2>2
<1>3. /\ fl \in Seq(S) /\ Len(fl) = off[n + 1]
      /\ \A b \in 1 .. n : \A x \in 1 .. Len(ss[b]) : fl[off[b] + x] = ss[b][x]
  <2>1. /\ FlattenSeq(ss) \in Seq(S) /\ Len(FlattenSeq(ss)) = off[Len(ss) + 1]
        /\ \A b \in 1 .. Len(ss) : \A x \in 1 .. Len(ss[b]) : FlattenSeq(ss)[off[b] + x] = ss[b][x]
    BY <1>0, FlattenAt
  <2> QED
    BY <1>0, <1>1, <2>1, Zenon
<1>4. /\ r \in Seq(S) /\ Len(r) = 1 + Len(fl) /\ r[1] = e
      /\ \A x \in 1 .. Len(fl) : r[1 + x] = fl[x]
  BY <1>0, <1>1, <1>3, FrontAt
<1>5. n + 1 \in 1 .. n + 1
  BY <1>2
<1>6. PICK M \in Nat : M = off[n + 1] /\ pl[n + 1] = 1 + M
  <2>1. PICK M \in Nat : M = off[n + 1] /\ pl[n + 1] = M + 1
    BY <1>0, <1>2, <1>5
  <2> QED
    BY <2>1
<1>7. DOMAIN r = 1 .. pl[n + 1]
  BY <1>3, <1>4, <1>6
<1>8. ASSUME NEW b \in 1 .. n, NEW t \in 1 .. Len(ss[b]), NEW c, c = pl[b] + t
      PROVE  c \in 1 .. pl[n + 1] /\ r[c] = ss[b][t]
  <2>1. off[b] + t \in 1 .. off[n + 1]
    BY <1>0, <1>2, OffsetInside
  <2>2. PICK x : x = off[b] + t /\ x \in 1 .. M
    BY <1>6, <2>1
  <2>3. off[b] \in Nat /\ pl[b] = off[b] + 1
    <3>1. b \in 1 .. n + 1
      BY <1>2
    <3> QED
      BY <1>0, <1>2, <3>1
  <2>4. c = 1 + x
    BY <1>2, <1>8, <2>2, <2>3
  <2>5. fl[x] = ss[b][t]
    BY <1>3, <2>2
  <2>6. r[1 + x] = fl[x]
    BY <1>3, <1>4, <1>6, <2>2
  <2>7. 1 + x \in 1 .. 1 + M
    <3>1. x \in Nat /\ M \in Nat /\ 1 <= x /\ x <= M
      BY <2>2
    <3> QED
      BY <3>1
  <2>8. r[c] = ss[b][t]
    BY <2>4, <2>5, <2>6, Zenon
  <2>9. c \in 1 .. pl[n + 1]
    BY <1>6, <2>4, <2>7, Zenon
  <2> QED
    BY <2>8, <2>9
<1> QED
  BY <1>4, <1>7, <1>8 DEF AtPlaces

\* The function f of n blocks: W[b] are the edges of block b in order, and pl[b]
\* counters come before theirs.
OneFunction(n, f, W, pl, N) ==
  /\ n \in Nat \ {0} /\ f \in [1 .. n -> Seq(2 .. n)]
  /\ \A b \in 1 .. n : f[b] = <<>> => Len(W[b]) = 1 /\ W[b][1] = <<b, 0>>
  /\ \A b \in 1 .. n : f[b] # <<>> =>
       Len(W[b]) = Len(f[b]) /\ \A t \in 1 .. Len(f[b]) : W[b][t] = <<b, f[b][t]>>
  /\ pl[1] = 1 /\ N = pl[n + 1]
  /\ \A b \in 1 .. n : pl[b] \in Nat /\ pl[b + 1] \in Nat /\ pl[b + 1] = pl[b] + Len(W[b])

\* Counter c is that of edge list[c], for slot sl[c]: a block and the place of a
\* successor, or the call.
Numbered(n, W, pl, N, sl, list) ==
  /\ N \in Nat /\ DOMAIN sl = 1 .. N /\ DOMAIN list = 1 .. N
  /\ 1 \in 1 .. N /\ sl[1] = <<0, 1>> /\ list[1] = <<0, 1>>
  /\ \A b \in 1 .. n : \A t \in 1 .. Len(W[b]) : \A c :
       c = pl[b] + t => c \in 1 .. N /\ sl[c] = <<b, t>> /\ list[c] = W[b][t]
  /\ \A c \in 1 .. N : c = 1 \/ \E b \in 1 .. n : \E t \in 1 .. Len(W[b]) : c = pl[b] + t

\* The edges of a block
LEMMA EdgesOfBlock ==
  ASSUME NEW n \in Nat, NEW f \in [1 .. n -> Seq(2 .. n)], NEW b \in 1 .. n
  PROVE  /\ EdgesOf(f, b) \in Seq((0 .. n) \X (0 .. n))
         /\ Len(EdgesOf(f, b)) = Max({1, Len(f[b])})
         /\ Len(f[b]) \in Nat /\ Len(EdgesOf(f, b)) \in Nat
         /\ f[b] = <<>> => Len(EdgesOf(f, b)) = 1 /\ EdgesOf(f, b)[1] = <<b, 0>>
         /\ f[b] # <<>> => /\ Len(EdgesOf(f, b)) = Len(f[b])
                           /\ \A t \in 1 .. Len(f[b]) : EdgesOf(f, b)[t] = <<b, f[b][t]>>
<1>1. PICK B, a, l : B = 2 .. n /\ a = f[b] /\ l = Len(a) /\ a \in Seq(B)
  OBVIOUS
<1>2. l \in Nat /\ DOMAIN a = 1 .. l /\ \A t \in 1 .. l : a[t] \in B
  BY <1>1
<1>3. CASE a = <<>>
  <2>1. l = 0
    BY <1>1, <1>3
  <2>2. Max({1, l}) = 1
    BY <1>2, <2>1, MaxOne
  <2>3. EdgesOf(f, b) = << <<b, 0>> >>
    BY <1>1, <1>3 DEF EdgesOf
  <2>4. PICK e : e = <<b, 0>> /\ e \in (0 .. n) \X (0 .. n)
    <3>1. PICK A, x : A = 0 .. n /\ x = 0 /\ x \in A /\ b \in A
      OBVIOUS
    <3>2. <<b, x>> \in A \X A
      BY <3>1
    <3> QED
      BY <3>1, <3>2
  <2>5. <<e>> \in Seq((0 .. n) \X (0 .. n)) /\ Len(<<e>>) = 1 /\ <<e>>[1] = e
    BY <2>4
  <2> QED
    BY <1>1, <1>2, <1>3, <2>1, <2>2, <2>3, <2>4, <2>5
<1>4. CASE a # <<>>
  <2>1. l # 0
    BY <1>1, <1>4, EmptySeq
  <2>2. Max({1, l}) = l
    BY <1>2, <2>1, MaxOne
  <2>3. PICK r : r = [t \in 1 .. l |-> <<b, a[t]>>]
    OBVIOUS
  <2>4. EdgesOf(f, b) = r
    BY <1>1, <1>2, <1>4, <2>3 DEF EdgesOf
  <2>5. \A t \in 1 .. l : <<b, a[t]>> \in (0 .. n) \X (0 .. n)
    <3>1. \A t \in 1 .. l : a[t] \in 0 .. n
      BY <1>1, <1>2
    <3> QED
      BY <3>1
  <2>6. r \in Seq((0 .. n) \X (0 .. n)) /\ Len(r) = l /\ \A t \in 1 .. l : r[t] = <<b, a[t]>>
    <3>1. r \in [1 .. l -> (0 .. n) \X (0 .. n)]
      BY <2>3, <2>5
    <3>2. Len(r) = l
      BY <1>2, <2>3
    <3>3. r \in Seq((0 .. n) \X (0 .. n))
      BY <1>2, <3>1
    <3> QED
      BY <2>3, <3>2, <3>3
  <2> QED
    BY <1>1, <1>2, <1>4, <2>2, <2>4, <2>6
<1> QED
  BY <1>3, <1>4

\* The edges W[b] of each block b of the function f
EdgesIn(n, f, W, S) ==
  /\ n \in Nat \ {0} /\ f \in [1 .. n -> Seq(2 .. n)] /\ <<0, 1>> \in S
  /\ W \in Seq(Seq(S)) /\ Len(W) = n
  /\ \A b \in 1 .. n :
       /\ Len(W[b]) \in Nat
       /\ f[b] = <<>> => Len(W[b]) = 1 /\ W[b][1] = <<b, 0>>
       /\ f[b] # <<>> => /\ Len(W[b]) = Len(f[b])
                         /\ \A t \in 1 .. Len(f[b]) : W[b][t] = <<b, f[b][t]>>

LEMMA EdgesInFunction ==
  ASSUME NEW n \in Nat \ {0}, NEW f \in [1 .. n -> Seq(2 .. n)]
  PROVE  EdgesIn(n, f, [b \in 1 .. n |-> EdgesOf(f, b)], (0 .. n) \X (0 .. n))
<1>1. PICK S, W : S = (0 .. n) \X (0 .. n) /\ W = [b \in 1 .. n |-> EdgesOf(f, b)]
  OBVIOUS
<1>2. <<0, 1>> \in S
  <2>1. PICK A, x, y : A = 0 .. n /\ x = 0 /\ y = 1 /\ x \in A /\ y \in A
    OBVIOUS
  <2>2. <<x, y>> \in A \X A
    BY <2>1
  <2> QED
    BY <1>1, <2>1, <2>2, Zenon
<1>3. \A b \in 1 .. n :
        /\ W[b] \in Seq(S) /\ Len(W[b]) \in Nat
        /\ f[b] = <<>> => Len(W[b]) = 1 /\ W[b][1] = <<b, 0>>
        /\ f[b] # <<>> => /\ Len(W[b]) = Len(f[b])
                          /\ \A t \in 1 .. Len(f[b]) : W[b][t] = <<b, f[b][t]>>
  BY <1>1, EdgesOfBlock
<1>4. W \in Seq(Seq(S)) /\ Len(W) = n
  <2>1. W \in [1 .. n -> Seq(S)]
    BY <1>1, <1>3
  <2> QED
    BY <2>1
<1>5. EdgesIn(n, f, W, S)
  BY <1>2, <1>3, <1>4 DEF EdgesIn
<1> QED
  BY <1>1, <1>5, Zenon

\* Every function has its edges and counters numbered like this.
LEMMA NumbersExist ==
  ASSUME NEW n, NEW f, NEW W, NEW S, EdgesIn(n, f, W, S),
         NEW list, list = << <<0, 1>> >> \o FlattenSeq(W)
  PROVE  \E pl, N, sl : OneFunction(n, f, W, pl, N) /\ Numbered(n, W, pl, N, sl, list)
<1>0. /\ n \in Nat \ {0} /\ f \in [1 .. n -> Seq(2 .. n)] /\ <<0, 1>> \in S
      /\ W \in Seq(Seq(S)) /\ Len(W) = n
  BY DEF EdgesIn
<1>1. PICK e : e = <<0, 1>> /\ e \in S
  BY <1>0
<1>2. \A b \in 1 .. n :
        /\ Len(W[b]) \in Nat
        /\ f[b] = <<>> => Len(W[b]) = 1 /\ W[b][1] = <<b, 0>>
        /\ f[b] # <<>> => /\ Len(W[b]) = Len(f[b])
                          /\ \A t \in 1 .. Len(f[b]) : W[b][t] = <<b, f[b][t]>>
  BY DEF EdgesIn
<1>3. W \in Seq(Seq(S)) /\ Len(W) = n /\ n \in Nat \ {0}
  BY <1>0
<1>4. PICK off : IsOffsets(W, off)
  BY <1>2, <1>3, OffsetsExist
<1>5. PICK pl : pl = [b \in 1 .. n + 1 |-> off[b] + 1]
  OBVIOUS
<1>6. /\ off \in [1 .. n + 1 -> Nat] /\ off[1] = 0
      /\ \A b \in 1 .. n : off[b + 1] = off[b] + Len(W[b])
  BY <1>3, <1>4, Zenon DEF IsOffsets
<1>7. \A b \in 1 .. n + 1 : pl[b] = off[b] + 1
  BY <1>5
<1>8. /\ pl[1] = 1 /\ pl[n + 1] \in Nat \ {0}
      /\ \A b \in 1 .. n : pl[b] \in Nat /\ pl[b + 1] \in Nat /\ pl[b + 1] = pl[b] + Len(W[b])
  <2>1. pl[1] = 1
    <3>1. 1 \in 1 .. n + 1 /\ 0 + 1 = 1
      BY <1>3
    <3> QED
      BY <1>6, <1>7, <3>1, Zenon
  <2>2. \A b \in 1 .. n + 1 : pl[b] \in Nat \ {0}
    <3> SUFFICES ASSUME NEW b \in 1 .. n + 1 PROVE pl[b] \in Nat \ {0}
      OBVIOUS
    <3>1. PICK x \in Nat : x = off[b]
      BY <1>6
    <3>2. x + 1 \in Nat \ {0}
      OBVIOUS
    <3> QED
      BY <1>7, <3>1, <3>2, Zenon
  <2>3. ASSUME NEW b \in 1 .. n
        PROVE  pl[b] \in Nat /\ pl[b + 1] \in Nat /\ pl[b + 1] = pl[b] + Len(W[b])
    <3>1. b \in 1 .. n + 1 /\ b + 1 \in 1 .. n + 1
      BY <1>3
    <3>2. PICK x \in Nat, y \in Nat : x = off[b] /\ y = Len(W[b])
      BY <1>2, <1>6, <3>1
    <3>3. off[b + 1] = x + y /\ (x + y) + 1 = (x + 1) + y
      BY <1>6, <3>2
    <3>4. pl[b] = x + 1 /\ pl[b + 1] = (x + y) + 1
      BY <1>7, <3>1, <3>2, <3>3
    <3> QED
      BY <2>2, <3>1, <3>2, <3>3, <3>4
  <2>4. pl[n + 1] \in Nat \ {0}
    <3>1. n + 1 \in 1 .. n + 1
      BY <1>3
    <3> QED
      BY <2>2, <3>1, Zenon
  <2> QED
    BY <2>1, <2>3, <2>4
<1>9. PICK N : N = pl[n + 1] /\ N \in Nat \ {0}
  BY <1>8
<1>10. OneFunction(n, f, W, pl, N)
  BY <1>0, <1>2, <1>8, <1>9 DEF OneFunction
<1>11. /\ DOMAIN list = 1 .. N /\ list[1] = e
       /\ \A b \in 1 .. n : \A t \in 1 .. Len(W[b]) : \A c :
            c = pl[b] + t => c \in 1 .. N /\ list[c] = W[b][t]
  <2>1. Fronted(S, e, W, n, off, pl, list)
    BY <1>1, <1>3, <1>4, <1>7 DEF Fronted
  <2>2. AtPlaces(e, W, n, pl, list)
    BY <2>1, FrontFlat
  <2> QED
    BY <1>9, <2>2, Zenon DEF AtPlaces
<1>12. PICK U : U = [b \in 1 .. n |-> [t \in 1 .. Len(W[b]) |-> <<b, t>>]]
  OBVIOUS
<1>13. \A b \in 1 .. n : U[b] \in Seq(Nat \X Nat) /\ Len(U[b]) = Len(W[b])
                         /\ \A t \in 1 .. Len(W[b]) : U[b][t] = <<b, t>>
  <2>1. ASSUME NEW b \in 1 .. n
        PROVE  U[b] \in Seq(Nat \X Nat) /\ Len(U[b]) = Len(W[b])
               /\ \A t \in 1 .. Len(W[b]) : U[b][t] = <<b, t>>
    <3>1. PICK l \in Nat : l = Len(W[b])
      BY <1>2
    <3>2. U[b] = [t \in 1 .. l |-> <<b, t>>]
      BY <1>12, <3>1
    <3>3. U[b] \in [1 .. l -> Nat \X Nat]
      BY <3>2
    <3>4. Len(U[b]) = l /\ U[b] \in Seq(Nat \X Nat)
      BY <3>2, <3>3
    <3> QED
      BY <3>1, <3>2, <3>4
  <2> QED
    BY <2>1
<1>14. U \in Seq(Seq(Nat \X Nat)) /\ Len(U) = n
  <2>1. U \in [1 .. n -> Seq(Nat \X Nat)]
    BY <1>12, <1>13
  <2> QED
    BY <1>3, <2>1
<1>15. IsOffsets(U, off)
  BY <1>6, <1>13, <1>14 DEF IsOffsets
<1>16. PICK sl : sl = <<e>> \o FlattenSeq(U)
  OBVIOUS
<1>17. e \in Nat \X Nat
  BY <1>1
<1>18. /\ DOMAIN sl = 1 .. N /\ sl[1] = e
       /\ \A b \in 1 .. n : \A t \in 1 .. Len(U[b]) : \A c :
            c = pl[b] + t => c \in 1 .. N /\ sl[c] = U[b][t]
  <2>1. Fronted(Nat \X Nat, e, U, n, off, pl, sl)
    BY <1>7, <1>14, <1>15, <1>16, <1>17 DEF Fronted
  <2>2. AtPlaces(e, U, n, pl, sl)
    BY <2>1, FrontFlat
  <2> QED
    BY <1>9, <2>2, Zenon DEF AtPlaces
<1>19. ASSUME NEW c \in 1 .. N, c # 1
       PROVE  \E b \in 1 .. n : \E t \in 1 .. Len(W[b]) : c = pl[b] + t
  <2>1. n + 1 \in 1 .. n + 1
    BY <1>3
  <2>2. PICK M \in Nat : M = off[n + 1] /\ N = M + 1
    BY <1>6, <1>7, <1>9, <2>1
  <2>3. PICK d : d = c - 1 /\ d \in 1 .. M /\ c = d + 1
    <3>1. c \in 1 .. M + 1 /\ c # 1 /\ M \in Nat
      BY <1>19, <2>2
    <3> QED
      BY <3>1
  <2>4. \E b \in 1 .. n : \E t \in 1 .. Len(W[b]) : d = off[b] + t
    <3>1. /\ Len(W) \in Nat /\ (\A m \in 1 .. Len(W) : Len(W[m]) \in Nat)
          /\ IsOffsets(W, off) /\ d \in 1 .. off[Len(W) + 1]
      BY <1>2, <1>3, <1>4, <2>2, <2>3
    <3>2. \E b \in 1 .. Len(W) : \E t \in 1 .. Len(W[b]) : d = off[b] + t
      BY <3>1, FlattenCovers
    <3> QED
      BY <1>3, <3>2
  <2>5. PICK b \in 1 .. n : \E t \in 1 .. Len(W[b]) : d = off[b] + t
    BY <2>4
  <2>6. PICK t \in 1 .. Len(W[b]) : d = off[b] + t
    BY <2>5
  <2>7. off[b] \in Nat /\ t \in Nat /\ pl[b] = off[b] + 1
    <3>1. b \in 1 .. n + 1 /\ t \in Nat
      BY <1>2, <1>3
    <3> QED
      BY <1>6, <1>7, <3>1
  <2>8. c = pl[b] + t
    <3>1. PICK x \in Nat, y \in Nat : x = off[b] /\ y = t /\ pl[b] = x + 1
      BY <2>7
    <3>2. c = (x + y) + 1
      BY <2>3, <2>6, <3>1
    <3>3. c = (x + 1) + y
      BY <3>1, <3>2
    <3> QED
      BY <3>1, <3>3, Zenon
  <2> QED
    BY <2>8
<1>20. Numbered(n, W, pl, N, sl, list)
  <2>1. \A b \in 1 .. n : \A t \in 1 .. Len(W[b]) : \A c :
          c = pl[b] + t => c \in 1 .. N /\ sl[c] = <<b, t>> /\ list[c] = W[b][t]
    <3> SUFFICES ASSUME NEW b \in 1 .. n, NEW t \in 1 .. Len(W[b]), NEW c, c = pl[b] + t
                 PROVE  c \in 1 .. N /\ sl[c] = <<b, t>> /\ list[c] = W[b][t]
      BY Zenon
    <3>1. c \in 1 .. N /\ list[c] = W[b][t]
      BY <1>11
    <3>2. t \in 1 .. Len(U[b]) /\ U[b][t] = <<b, t>>
      BY <1>13, Zenon
    <3>3. sl[c] = U[b][t]
      BY <1>18, <3>2, Zenon
    <3> QED
      BY <3>1, <3>2, <3>3, Zenon
  <2>2. 1 \in 1 .. N
    BY <1>9
  <2> QED
    BY <1>1, <1>9, <1>11, <1>18, <1>19, <2>1, <2>2 DEF Numbered
<1> QED
  BY <1>10, <1>20

\* What is fixed: the function, its edges and their counters
Fixed(n, f, W, pl, N, sl, list) ==
  OneFunction(n, f, W, pl, N) /\ Numbered(n, W, pl, N, sl, list)

\* The function that is profiled
Profiled(n, f, W, pl, N, sl, list) ==
  /\ Fixed(n, f, W, pl, N, sl, list)
  /\ function = f /\ function \in Functions /\ Blocks = 1 .. n
  /\ EdgeOf = list /\ NumEdges = N
  /\ \A b \in 1 .. n : \A t \in 1 .. Len(W[b]) : CounterOf(b, t) = pl[b] + t

\* The numbers of slots of the first blocks of a function, added up
SlotSum(f, m) == FoldFunction(+, 0, [c \in 1 .. m |-> Max({1, Len(f[c])})])

SlotWidths(n, f, W) ==
  /\ n \in Nat \ {0} /\ f \in [1 .. n -> Seq(2 .. n)]
  /\ \A b \in 1 .. n : Len(W[b]) = Max({1, Len(f[b])}) /\ Len(W[b]) \in Nat

LEMMA SlotsBefore ==
  ASSUME NEW n, NEW f, NEW W, NEW pl, NEW N, OneFunction(n, f, W, pl, N), SlotWidths(n, f, W),
         NEW b \in 1 .. n + 1, NEW m, m = b - 1
  PROVE  SlotSum(f, m) \in Nat /\ 1 + SlotSum(f, m) = pl[b]
<1>0. n \in Nat \ {0} /\ f \in [1 .. n -> Seq(2 .. n)]
  BY DEF SlotWidths
<1>1. PICK z : z = [c \in 1 .. n |-> Len(W[c])]
  OBVIOUS
<1>2. \A c \in 1 .. n : z[c] \in Nat /\ z[c] = Max({1, Len(f[c])})
  BY <1>1 DEF SlotWidths
<1>3. \A c \in 1 .. n : pl[c] \in Nat /\ pl[c + 1] \in Nat /\ pl[c + 1] = pl[c] + z[c]
  BY <1>1 DEF OneFunction
<1>4. pl[1] = 1
  BY DEF OneFunction
<1>5. PICK off : off = [c \in 1 .. n + 1 |-> pl[c] - 1]
  OBVIOUS
<1>6. off[1] = 0
  <2>1. 1 \in 1 .. n + 1 /\ 1 - 1 = 0
    BY <1>0
  <2> QED
    BY <1>4, <1>5, <2>1, Zenon
<1>7. \A c \in 1 .. n : off[c + 1] = off[c] + z[c]
  <2> SUFFICES ASSUME NEW c \in 1 .. n PROVE off[c + 1] = off[c] + z[c]
    OBVIOUS
  <2>1. c \in 1 .. n + 1 /\ c + 1 \in 1 .. n + 1
    BY <1>0
  <2>2. PICK x \in Nat, y \in Nat : x = pl[c] /\ y = z[c] /\ pl[c + 1] = x + y
    BY <1>2, <1>3
  <2>3. off[c] = pl[c] - 1 /\ off[c + 1] = pl[c + 1] - 1
    BY <1>5, <2>1
  <2>4. (x + y) - 1 = (x - 1) + y
    BY <2>2
  <2> QED
    BY <2>2, <2>3, <2>4, Zenon
<1>8. SumFunctionOnSet(z, 1 .. b - 1) = off[b]
  <2>1. IsTally(n, z, off)
    BY <1>0, <1>2, <1>6, <1>7 DEF IsTally
  <2> QED
    BY <2>1, SumsOffset
<1>9. FoldFunction(+, 0, [c \in 1 .. b - 1 |-> z[c]]) = off[b]
  BY <1>0, <1>2, <1>8, FoldIsSum
<1>10. [c \in 1 .. b - 1 |-> z[c]] = [c \in 1 .. b - 1 |-> Max({1, Len(f[c])})]
  <2>1. \A c \in 1 .. b - 1 : c \in 1 .. n
    BY <1>0
  <2> QED
    BY <1>2, <2>1
<1>11. pl[b] \in Nat
  <2>1. CASE b = 1
    BY <1>4, <2>1
  <2>2. CASE b # 1
    <3>1. b - 1 \in 1 .. n /\ (b - 1) + 1 = b
      BY <1>0, <2>2
    <3>2. PICK c : c = b - 1 /\ c \in 1 .. n /\ c + 1 = b
      BY <3>1
    <3> QED
      BY <1>3, <3>2, Zenon
  <2> QED
    BY <2>1, <2>2
<1>12. PICK x \in Nat : x = pl[b] /\ off[b] = x - 1
  BY <1>5, <1>11
<1>13. 1 + (x - 1) = x
  OBVIOUS
<1>14. SlotSum(f, m) = off[b]
  BY <1>9, <1>10, Zenon DEF SlotSum
<1>15. off[b] \in Nat
  <2>1. IsFiniteSet(1 .. b - 1)
    BY <1>0, FS_Interval
  <2>2. \A c \in 1 .. b - 1 : c \in 1 .. n
    BY <1>0
  <2>3. \A c \in 1 .. b - 1 : z[c] \in Nat
    BY <1>2, <2>2
  <2>4. SumFunctionOnSet(z, 1 .. b - 1) \in Nat
    BY <2>1, <2>3, SumType
  <2> QED
    BY <1>8, <2>4, Zenon
<1> QED
  BY <1>12, <1>13, <1>14, <1>15, Zenon

LEMMA ProfiledExists ==
  ASSUME function \in Functions
  PROVE  \E n, f, W, pl, N, sl, list : Profiled(n, f, W, pl, N, sl, list)
<1>1. PICK n, f : n = Len(function) /\ f = function
  OBVIOUS
<1>2. n \in Nat \ {0} /\ f \in [1 .. n -> Seq(2 .. n)] /\ Blocks = 1 .. n
  <2>1. f \in [1 .. n -> Seq(2 .. n)] /\ f # <<>>
    BY <1>1, FunctionsAssumption DEF WellFormed
  <2>2. f \in Seq(Seq(2 .. n))
    <3>1. f \in [1 .. Len(f) -> Seq(2 .. Len(f))]
      BY <1>1, <2>1
    <3>2. f \in Seq(Seq(2 .. Len(f)))
      BY <3>1
    <3> QED
      BY <1>1, <3>2
  <2>3. n \in Nat
    BY <1>1, <2>2
  <2>4. n # 0
    BY <1>1, <2>1, <2>2, EmptySeq
  <2> QED
    BY <1>1, <2>1, <2>3, <2>4 DEF Blocks
<1>3. PICK W, S : W = [b \in 1 .. n |-> EdgesOf(f, b)] /\ S = (0 .. n) \X (0 .. n)
  OBVIOUS
<1>4. EdgesIn(n, f, W, S)
  BY <1>2, <1>3, EdgesInFunction
<1>5. PICK list : list = << <<0, 1>> >> \o FlattenSeq(W)
  OBVIOUS
<1>6. \E pl, N, sl : OneFunction(n, f, W, pl, N) /\ Numbered(n, W, pl, N, sl, list)
  BY <1>4, <1>5, NumbersExist
<1>7. PICK pl, N, sl : OneFunction(n, f, W, pl, N) /\ Numbered(n, W, pl, N, sl, list)
  BY <1>6
<1>8. EdgeOf = list
  BY <1>1, <1>2, <1>3, <1>5, Zenon DEF EdgeOf
<1>9. \A b \in 1 .. n : Len(W[b]) = Max({1, Len(f[b])}) /\ Len(W[b]) \in Nat
  BY <1>2, <1>3, EdgesOfBlock
<1>10. ASSUME NEW b \in 1 .. n + 1, NEW m, m = b - 1
       PROVE  SlotSum(f, m) \in Nat /\ 1 + SlotSum(f, m) = pl[b]
  <2>1. SlotWidths(n, f, W)
    BY <1>2, <1>9 DEF SlotWidths
  <2> QED
    BY <1>7, <1>10, <2>1, SlotsBefore
<1>11. NumEdges = N
  <2>1. n + 1 \in 1 .. n + 1 /\ n = (n + 1) - 1
    BY <1>2
  <2>2. 1 + SlotSum(f, n) = pl[n + 1]
    BY <1>10, <2>1
  <2>3. N = pl[n + 1]
    BY <1>7 DEF OneFunction
  <2> QED
    BY <1>1, <1>2, <2>2, <2>3, Zenon DEF NumEdges, SlotSum
<1>12. ASSUME NEW b \in 1 .. n, NEW t \in 1 .. Len(W[b])
       PROVE  CounterOf(b, t) = pl[b] + t
  <2>1. b \in 1 .. n + 1 /\ t \in Nat
    BY <1>2, <1>9
  <2>2. PICK x : x = SlotSum(f, b - 1)
    OBVIOUS
  <2>3. 1 + x = pl[b] /\ x \in Nat
    BY <1>10, <2>1, <2>2
  <2>4. CounterOf(b, t) = 1 + t + x
    BY <1>1, <2>2, Zenon DEF CounterOf, SlotSum
  <2>5. 1 + t + x = (1 + x) + t
    BY <2>1, <2>3
  <2> QED
    BY <2>3, <2>4, <2>5, Zenon
<1> QED
  BY <1>1, <1>2, <1>7, <1>8, <1>11, <1>12 DEF Profiled, Fixed

-----------------------------------------------------------------------------
(* The invariant of the pass and the run *)

\* The block list before instrumentation
Ids(n) == [k \in 1 .. n |-> k]

\* An old block has as many successors as it had, and each leads to where it
\* did, or to a new block that leads there; edges that the pass has not come to
\* are as they were. Each new block is on one edge of an old one.
Graph(n, f, pl) ==
  /\ \E m \in Nat : n <= m /\ Len(succ) = m /\ DOMAIN succ = 1 .. m
  /\ DOMAIN head = DOMAIN succ
  /\ succ \in Seq(Seq(DOMAIN succ)) /\ \A b \in DOMAIN succ : succ[b] \in Seq(DOMAIN succ)
  /\ \A b \in 1 .. n : Len(succ[b]) = Len(f[b])
  /\ \A b \in 1 .. n : \A t \in 1 .. Len(f[b]) :
       /\ succ[b][t] \in 1 .. n => succ[b][t] = f[b][t]
       /\ succ[b][t] \notin 1 .. n => succ[succ[b][t]] = <<f[b][t]>>
       /\ ~(pl[b] + t < i) => succ[b][t] = f[b][t]
  /\ \A x \in DOMAIN succ \ (1 .. n) : \E b \in 1 .. n : \E t \in 1 .. Len(f[b]) : succ[b][t] = x
  /\ \A b, c \in 1 .. n : \A t \in 1 .. Len(f[b]) : \A u \in 1 .. Len(f[c]) :
       succ[b][t] = succ[c][u] /\ succ[b][t] \notin 1 .. n => b = c /\ t = u

\* Every block is in the list.
Layout ==
  /\ layout \in Seq(DOMAIN succ)
  /\ \A b \in DOMAIN succ : \E k \in 1 .. Len(layout) : layout[k] = b

Walk(n, W, pl, N) ==
  /\ pc \in {"tree", "count", "run", "rebuild", "round", "done", "stuck"}
  /\ bi \in Nat /\ (pc = "tree" => bi = 0)
  /\ i \in 1 .. N + 1
  /\ pc \in {"tree", "count"} /\ bi = 0 => i = 1 /\ s = 1 /\ layout = Ids(n)
  /\ pc = "count" /\ bi # 0 => Here(layout, n, Ids(n), W, pl, bi, s, i)
  /\ pc \notin {"tree", "count"} => i = N + 1

RunTypes(N) ==
  /\ taken \in [1 .. N -> Nat] /\ counters \in [1 .. N -> 0 .. Uncounted] /\ lost \in BOOLEAN
  /\ at \in DOMAIN succ \cup {Idle} /\ (pc # "run" => at = Idle)

Shape(n, f, W, pl, N) ==
  Graph(n, f, pl) /\ Layout /\ Walk(n, W, pl, N) /\ RunTypes(N)

ShapeInv ==
  \E n, f, W, pl, N, sl, list : Profiled(n, f, W, pl, N, sl, list) /\ Shape(n, f, W, pl, N)

-----------------------------------------------------------------------------
(* The steps of the pass *)

\* What is known of the function and its slots
LEMMA FunctionFacts ==
  ASSUME NEW n, NEW f, NEW W, NEW pl, NEW N, NEW sl, NEW list, Fixed(n, f, W, pl, N, sl, list)
  PROVE  /\ n \in Nat \ {0} /\ N \in Nat \ {0} /\ DOMAIN f = 1 .. n
         /\ pl[1] = 1 /\ pl[n + 1] = N
         /\ \A b \in 1 .. n : Len(f[b]) \in Nat /\ DOMAIN f[b] = 1 .. Len(f[b])
                              /\ Len(W[b]) \in Nat /\ pl[b] \in Nat
         /\ \A b \in 1 .. n : f[b] = <<>> => Len(f[b]) = 0 /\ Len(W[b]) = 1 /\ W[b][1] = <<b, 0>>
         /\ \A b \in 1 .. n : f[b] # <<>> => Len(f[b]) # 0 /\ Len(W[b]) = Len(f[b])
         /\ \A b \in 1 .. n : \A t \in 1 .. Len(f[b]) :
              f[b][t] \in 2 .. n /\ f[b] # <<>> /\ t \in 1 .. Len(W[b]) /\ W[b][t] = <<b, f[b][t]>>
<1>1. /\ n \in Nat \ {0} /\ f \in [1 .. n -> Seq(2 .. n)]
      /\ \A b \in 1 .. n : f[b] = <<>> => Len(W[b]) = 1 /\ W[b][1] = <<b, 0>>
      /\ \A b \in 1 .. n : f[b] # <<>> =>
           Len(W[b]) = Len(f[b]) /\ \A t \in 1 .. Len(f[b]) : W[b][t] = <<b, f[b][t]>>
      /\ pl[1] = 1 /\ pl[n + 1] = N
      /\ \A b \in 1 .. n : pl[b] \in Nat
      /\ N \in Nat /\ 1 \in 1 .. N
  BY DEF Fixed, OneFunction, Numbered
<1>2. N \in Nat \ {0} /\ DOMAIN f = 1 .. n
  BY <1>1
<1>3. ASSUME NEW b \in 1 .. n
      PROVE  /\ Len(f[b]) \in Nat /\ DOMAIN f[b] = 1 .. Len(f[b])
             /\ f[b] = <<>> => Len(f[b]) = 0
             /\ f[b] # <<>> => Len(f[b]) # 0
             /\ \A t \in 1 .. Len(f[b]) : f[b][t] \in 2 .. n /\ f[b] # <<>>
  <2>1. PICK B, a : B = 2 .. n /\ a = f[b] /\ a \in Seq(B)
    BY <1>1
  <2>2. Len(a) \in Nat /\ DOMAIN a = 1 .. Len(a) /\ (a = <<>> => Len(a) = 0)
    BY <2>1
  <2>3. a # <<>> => Len(a) # 0
    BY <2>1, EmptySeq
  <2>4. \A t \in 1 .. Len(a) : a[t] \in B
    BY <2>1, ElementOfSeq
  <2>5. ASSUME NEW t \in 1 .. Len(a), a = <<>>
        PROVE  FALSE
    <3>1. Len(a) = 0
      BY <2>2, <2>5
    <3>2. t \in 1 .. 0
      BY <3>1
    <3> QED
      BY <3>2
  <2> QED
    BY <2>1, <2>2, <2>3, <2>4, <2>5
<1>4. ASSUME NEW b \in 1 .. n
      PROVE  Len(W[b]) \in Nat
  BY <1>1, <1>3
<1>5. ASSUME NEW b \in 1 .. n, NEW t \in 1 .. Len(f[b])
      PROVE  t \in 1 .. Len(W[b]) /\ W[b][t] = <<b, f[b][t]>>
  <2>1. f[b] # <<>>
    BY <1>3
  <2>2. Len(W[b]) = Len(f[b]) /\ W[b][t] = <<b, f[b][t]>>
    BY <1>1, <2>1
  <2> QED
    BY <2>2
<1> QED
  BY <1>1, <1>2, <1>3, <1>4, <1>5

\* What the walk relies on
LEMMA FunctionWalk ==
  ASSUME NEW n, NEW f, NEW W, NEW pl, NEW N, NEW sl, NEW list, Fixed(n, f, W, pl, N, sl, list)
  PROVE  /\ Function(n, Ids(n), W, pl, n)
         /\ Len(Ids(n)) = n /\ \A k \in 1 .. n : Ids(n)[k] = k
<1>1. n \in Nat \ {0} /\ \A b \in 1 .. n : Len(W[b]) \in Nat
  BY FunctionFacts
<1>2. Len(Ids(n)) = n /\ \A k \in 1 .. n : Ids(n)[k] = k
  BY <1>1 DEF Ids
<1>3. \A b \in 1 .. n : pl[b] \in Nat /\ pl[b + 1] \in Nat /\ pl[b + 1] = pl[b] + Len(W[b])
  BY DEF Fixed, OneFunction
<1>4. \A k \in 1 .. n : W[Ids(n)[k]] = W[k] /\ Ids(n)[k] \in 1 .. n
  BY <1>2
<1>5. n \in Nat
  BY <1>1
<1> HIDE DEF Ids
<1> QED
  BY <1>1, <1>2, <1>3, <1>4, <1>5 DEF Function

\* The counter of a slot
LEMMA SlotCounter ==
  ASSUME NEW n, NEW f, NEW W, NEW pl, NEW N, NEW sl, NEW list, Fixed(n, f, W, pl, N, sl, list),
         NEW b \in 1 .. n, NEW t \in 1 .. Len(W[b]), NEW c, c = pl[b] + t
  PROVE  c \in 1 .. N /\ c # 1 /\ sl[c] = <<b, t>> /\ list[c] = W[b][t]
<1>1. c \in 1 .. N /\ sl[c] = <<b, t>> /\ list[c] = W[b][t]
  BY DEF Fixed, Numbered
<1>2. sl[1] = <<0, 1>>
  BY DEF Fixed, Numbered
<1>3. b # 0
  OBVIOUS
<1> QED
  BY <1>1, <1>2, <1>3

\* The counters that the pass has not come to
LEMMA GraphSame ==
  ASSUME NEW n, NEW f, NEW pl, Graph(n, f, pl), succ' = succ, DOMAIN head' = DOMAIN succ,
         \A b \in 1 .. n : \A t \in 1 .. Len(f[b]) : ~(pl[b] + t < i') => succ[b][t] = f[b][t]
  PROVE  Graph(n, f, pl)'
<1>1. /\ \E m \in Nat : n <= m /\ Len(succ') = m /\ DOMAIN succ' = 1 .. m
      /\ succ' \in Seq(Seq(DOMAIN succ')) /\ \A b \in DOMAIN succ' : succ'[b] \in Seq(DOMAIN succ')
      /\ \A b \in 1 .. n : Len(succ'[b]) = Len(f[b])
  <2>1. /\ \E m \in Nat : n <= m /\ Len(succ) = m /\ DOMAIN succ = 1 .. m
        /\ succ \in Seq(Seq(DOMAIN succ)) /\ \A b \in DOMAIN succ : succ[b] \in Seq(DOMAIN succ)
        /\ \A b \in 1 .. n : Len(succ[b]) = Len(f[b])
    BY Zenon DEF Graph
  <2> QED
    BY <2>1, Zenon
<1>2. \A b \in 1 .. n : \A t \in 1 .. Len(f[b]) :
        /\ succ'[b][t] \in 1 .. n => succ'[b][t] = f[b][t]
        /\ succ'[b][t] \notin 1 .. n => succ'[succ'[b][t]] = <<f[b][t]>>
        /\ ~(pl[b] + t < i') => succ'[b][t] = f[b][t]
  <2>1. \A b \in 1 .. n : \A t \in 1 .. Len(f[b]) :
          /\ succ[b][t] \in 1 .. n => succ[b][t] = f[b][t]
          /\ succ[b][t] \notin 1 .. n => succ[succ[b][t]] = <<f[b][t]>>
          /\ ~(pl[b] + t < i) => succ[b][t] = f[b][t]
    BY Zenon DEF Graph
  <2> QED
    BY <2>1
<1>3. \A x \in DOMAIN succ' \ (1 .. n) : \E b \in 1 .. n : \E t \in 1 .. Len(f[b]) : succ'[b][t] = x
  <2>1. \A x \in DOMAIN succ \ (1 .. n) : \E b \in 1 .. n : \E t \in 1 .. Len(f[b]) : succ[b][t] = x
    BY DEF Graph
  <2> QED
    BY <2>1
<1>4. \A b, c \in 1 .. n : \A t \in 1 .. Len(f[b]) : \A u \in 1 .. Len(f[c]) :
        succ'[b][t] = succ'[c][u] /\ succ'[b][t] \notin 1 .. n => b = c /\ t = u
  <2>1. \A b, c \in 1 .. n : \A t \in 1 .. Len(f[b]) : \A u \in 1 .. Len(f[c]) :
          succ[b][t] = succ[c][u] /\ succ[b][t] \notin 1 .. n => b = c /\ t = u
    BY DEF Graph
  <2> QED
    BY <2>1
<1>5. DOMAIN head' = DOMAIN succ'
  OBVIOUS
<1> QED
  BY <1>1, <1>2, <1>3, <1>4, <1>5 DEF Graph

LEMMA GraphStays ==
  ASSUME NEW n, NEW f, NEW pl, Graph(n, f, pl), UNCHANGED <<succ, i>>, DOMAIN head' = DOMAIN succ
  PROVE  Graph(n, f, pl)'
<1>1. \A b \in 1 .. n : \A t \in 1 .. Len(f[b]) : ~(pl[b] + t < i) => succ[b][t] = f[b][t]
  BY DEF Graph
<1>2. succ' = succ /\ i' = i
  OBVIOUS
<1>3. \A b \in 1 .. n : \A t \in 1 .. Len(f[b]) : ~(pl[b] + t < i') => succ[b][t] = f[b][t]
  BY <1>1, <1>2
<1> QED
  BY <1>2, <1>3, GraphSame

LEMMA LayoutStays ==
  ASSUME Layout, UNCHANGED <<layout, succ>>
  PROVE  Layout'
BY DEF Layout

LEMMA RunTypesStay ==
  ASSUME NEW N, RunTypes(N), DOMAIN succ \subseteq DOMAIN succ', counters' \in [1 .. N -> 0 .. Uncounted],
         UNCHANGED <<at, taken, lost>>, at = Idle \/ UNCHANGED pc
  PROVE  RunTypes(N)'
BY DEF RunTypes

\* The next counter
LEMMA GraphCounted ==
  ASSUME NEW n, NEW f, NEW W, NEW pl, NEW N, NEW sl, NEW list, Fixed(n, f, W, pl, N, sl, list),
         Graph(n, f, pl), i \in 1 .. N, succ' = succ, i' = i + 1, DOMAIN head' = DOMAIN succ
  PROVE  Graph(n, f, pl)'
<1>1. ASSUME NEW b \in 1 .. n, NEW t \in 1 .. Len(f[b]), ~(pl[b] + t < i')
      PROVE  ~(pl[b] + t < i)
  <2>1. N \in Nat /\ t \in 1 .. Len(W[b])
    BY FunctionFacts
  <2>2. PICK c : c = pl[b] + t
    OBVIOUS
  <2>3. c \in 1 .. N
    BY <2>1, <2>2, SlotCounter
  <2>4. ~(c < i)
    BY <1>1, <2>1, <2>2, <2>3
  <2> QED
    BY <2>2, <2>4
<1>2. \A b \in 1 .. n : \A t \in 1 .. Len(f[b]) : ~(pl[b] + t < i') => succ[b][t] = f[b][t]
  <2>1. \A b \in 1 .. n : \A t \in 1 .. Len(f[b]) : ~(pl[b] + t < i) => succ[b][t] = f[b][t]
    BY DEF Graph
  <2> QED
    BY <1>1, <2>1
<1> QED
  BY <1>2, GraphSame

\* The shape that the function has before the pass
LEMMA InitShape ==
  ASSUME Init
  PROVE  ShapeInv
<1>0. function \in Functions
  BY DEF Init
<1>1. PICK n, f, W, pl, N, sl, list : Profiled(n, f, W, pl, N, sl, list)
  BY <1>0, ProfiledExists
<1>2. /\ Fixed(n, f, W, pl, N, sl, list) /\ function = f /\ Blocks = 1 .. n /\ NumEdges = N
  BY <1>1 DEF Profiled
<1>3. /\ n \in Nat \ {0} /\ N \in Nat \ {0} /\ DOMAIN f = 1 .. n
      /\ \A b \in 1 .. n : \A t \in 1 .. Len(f[b]) : f[b][t] \in 2 .. n
  BY <1>2, FunctionFacts
<1>4. /\ pc = "tree" /\ succ = f /\ layout = Ids(n) /\ head = [b \in 1 .. n |-> {}]
      /\ bi = 0 /\ s = 1 /\ i = 1 /\ counters = [c \in 1 .. N |-> 0] /\ at = Idle
      /\ taken = [c \in 1 .. N |-> 0] /\ lost = FALSE
  BY <1>2 DEF Init, Ids
<1>5. f \in [1 .. n -> Seq(1 .. n)] /\ Len(f) = n
  <2>1. f \in [1 .. n -> Seq(2 .. n)]
    BY <1>2 DEF Fixed, OneFunction
  <2>2. ASSUME NEW b \in 1 .. n
        PROVE  f[b] \in Seq(1 .. n)
    <3>1. PICK a, B, C : a = f[b] /\ B = 2 .. n /\ C = 1 .. n /\ a \in Seq(B)
      BY <2>1
    <3>2. B \subseteq C
      BY <3>1
    <3> QED
      BY <3>1, <3>2, WiderSeq
  <2>3. Len(f) = n
    BY <1>3, <2>1
  <2> QED
    BY <2>1, <2>2, <2>3
<1>6. Graph(n, f, pl)
  <2>1. n \in Nat /\ n <= n /\ Len(succ) = n /\ DOMAIN succ = 1 .. n
    BY <1>3, <1>4, <1>5
  <2>2. DOMAIN head = DOMAIN succ
    BY <1>4, <2>1
  <2>3. \A b \in 1 .. n : \A t \in 1 .. Len(f[b]) : f[b][t] \in 1 .. n
    <3>1. \A y \in 2 .. n : y \in 1 .. n
      OBVIOUS
    <3> QED
      BY <1>3, <3>1
  <2>4. \A b \in 1 .. n : succ[b] \in Seq(1 .. n)
    BY <1>4, <1>5
  <2>5. DOMAIN succ \ (1 .. n) = {}
    BY <2>1
  <2>6. succ \in Seq(Seq(1 .. n))
    BY <1>3, <1>4, <1>5
  <2> QED
    BY <1>4, <2>1, <2>2, <2>3, <2>4, <2>5, <2>6 DEF Graph
<1>7. Layout
  <2>1. DOMAIN succ = 1 .. n
    BY <1>3, <1>4
  <2>2. Ids(n) \in Seq(1 .. n) /\ Len(Ids(n)) = n /\ \A k \in 1 .. n : Ids(n)[k] = k
    BY <1>3 DEF Ids
  <2> QED
    BY <1>4, <2>1, <2>2 DEF Layout
<1>8. Walk(n, W, pl, N)
  BY <1>3, <1>4 DEF Walk
<1>9. RunTypes(N)
  <2>1. 0 \in 0 .. Uncounted
    BY BoundsAssumption
  <2> QED
    BY <1>3, <1>4, <2>1 DEF RunTypes
<1> QED
  BY <1>1, <1>6, <1>7, <1>8, <1>9 DEF Shape, ShapeInv

\* The counter of an edge starts with a value of its width.
LEMMA InitCounterTypes ==
  ASSUME NEW N, counters \in [1 .. N -> 0 .. Uncounted], NEW e, InitCounter(e)
  PROVE  counters' \in [1 .. N -> 0 .. Uncounted]
<1>1. Uncounted \in 0 .. Uncounted /\ 0 \in 0 .. Uncounted
  BY BoundsAssumption
<1>2. PICK x : x \in 0 .. Uncounted /\ counters' = [counters EXCEPT ![i] = x]
  BY <1>1 DEF InitCounter
<1> QED
  BY <1>2

\* The counter of the call
LEMMA EntryShape ==
  ASSUME NEW n, NEW f, NEW W, NEW pl, NEW N, NEW sl, NEW list,
         Profiled(n, f, W, pl, N, sl, list), Shape(n, f, W, pl, N), InstrumentEntry
  PROVE  Shape(n, f, W, pl, N)'
<1>1. /\ Fixed(n, f, W, pl, N, sl, list)
      /\ Graph(n, f, pl) /\ Layout /\ Walk(n, W, pl, N) /\ RunTypes(N)
  BY DEF Profiled, Shape
<1>2. /\ pc = "count" /\ bi = 0 /\ InitCounter(<<0, 1>>) /\ DOMAIN head' = DOMAIN succ'
      /\ succ' = succ /\ i' = i + 1 /\ bi' = 1 /\ pc' = pc /\ layout' = layout /\ s' = s
      /\ at' = at /\ taken' = taken /\ lost' = lost
  BY DEF InstrumentEntry, InstrumentAt
<1>3. i = 1 /\ s = 1 /\ layout = Ids(n)
  BY <1>1, <1>2 DEF Walk
<1>4. n \in Nat \ {0} /\ N \in Nat \ {0} /\ pl[1] = 1
  BY <1>1, FunctionFacts
<1>5. Graph(n, f, pl)'
  <2>1. i \in 1 .. N
    BY <1>3, <1>4
  <2> QED
    BY <1>1, <1>2, <2>1, GraphCounted
<1>6. Layout'
  BY <1>1, <1>2, LayoutStays
<1>7. Walk(n, W, pl, N)'
  <2>1. PICK c : c = i'
    OBVIOUS
  <2>2. c = pl[1] + 1 /\ c \in 1 .. N + 1
    BY <1>2, <1>3, <1>4, <2>1
  <2>3. Function(n, Ids(n), W, pl, n)
    BY <1>1, FunctionWalk
  <2>4. Here(Ids(n), n, Ids(n), W, pl, 1, 1, c)
    BY <2>2, <2>3, HereStart
  <2>5. Here(layout', n, Ids(n), W, pl, bi', s', i')
    BY <1>2, <1>3, <2>1, <2>4
  <2>6. bi' \in Nat /\ bi' # 0 /\ pc' = "count"
    BY <1>2
  <2> QED
    BY <2>1, <2>2, <2>5, <2>6 DEF Walk
<1>8. RunTypes(N)'
  <2>1. counters' \in [1 .. N -> 0 .. Uncounted]
    BY <1>1, <1>2, InitCounterTypes DEF RunTypes
  <2>2. DOMAIN succ \subseteq DOMAIN succ'
    BY <1>2
  <2> QED
    BY <1>1, <1>2, <2>1, <2>2, RunTypesStay
<1> QED
  BY <1>5, <1>6, <1>7, <1>8 DEF Shape

\* What holds at any place of the list
LEMMA BlockFacts ==
  ASSUME NEW n, NEW f, NEW W, NEW pl, NEW N, NEW sl, NEW list,
         Profiled(n, f, W, pl, N, sl, list), Shape(n, f, W, pl, N), Counting
  PROVE  /\ pc = "count" /\ bi \in Nat \ {0} /\ bi \in 1 .. Len(layout) /\ Len(layout) \in Nat
         /\ Here(layout, n, Ids(n), W, pl, bi, s, i) /\ Function(n, Ids(n), W, pl, n)
         /\ at = Idle /\ function = f /\ Blocks = 1 .. n
<1>1. /\ Fixed(n, f, W, pl, N, sl, list) /\ Layout /\ Walk(n, W, pl, N) /\ RunTypes(N)
      /\ function = f /\ Blocks = 1 .. n
  BY DEF Profiled, Shape
<1>2. pc = "count" /\ bi \in DOMAIN layout
  BY DEF Counting
<1>3. PICK D : layout \in Seq(D)
  BY <1>1 DEF Layout
<1>4. Len(layout) \in Nat /\ bi \in 1 .. Len(layout) /\ bi # 0
  BY <1>2, <1>3
<1>5. bi \in Nat
  BY <1>1 DEF Walk
<1>6. Here(layout, n, Ids(n), W, pl, bi, s, i)
  BY <1>1, <1>2, <1>4 DEF Walk
<1>7. at = Idle
  BY <1>1, <1>2 DEF RunTypes
<1> QED
  BY <1>1, <1>2, <1>4, <1>5, <1>6, <1>7, FunctionWalk

\* The slot that the walk is at, which has the next counter
OnSlot(n, W, pl, N, sl, list, b, t) ==
  /\ b = BB /\ t = s /\ b \in 1 .. n /\ t \in 1 .. Len(W[b])
  /\ i = pl[b] + t /\ i \in 1 .. N /\ i # 1 /\ sl[i] = <<b, t>> /\ list[i] = W[b][t]
  /\ \E m \in Nat : AtOld(layout, n, Ids(n), W, pl, b, m, bi, t, i)

LEMMA SlotThere ==
  ASSUME NEW n, NEW f, NEW W, NEW pl, NEW N, NEW sl, NEW list,
         Profiled(n, f, W, pl, N, sl, list), Shape(n, f, W, pl, N), Counting, BB \in Blocks,
         NEW t, t = s, NEW b, b = BB, t <= Len(W[b])
  PROVE  OnSlot(n, W, pl, N, sl, list, b, t)
<1>1. /\ bi \in 1 .. Len(layout) /\ Here(layout, n, Ids(n), W, pl, bi, s, i)
      /\ Function(n, Ids(n), W, pl, n) /\ Blocks = 1 .. n
  BY BlockFacts
<1>2. Fixed(n, f, W, pl, N, sl, list)
  BY DEF Profiled
<1>3. b = layout[bi] /\ b \in 1 .. n
  BY <1>1 DEF BB
<1>4. PICK k \in 1 .. n, m \in Nat : AtOld(layout, n, Ids(n), W, pl, k, m, bi, t, i)
  <2>1. layout[bi] \in 1 .. n /\ Here(layout, n, Ids(n), W, pl, bi, t, i)
    BY <1>1, <1>3
  <2> QED
    BY <1>1, <2>1, HereOld
<1>5. /\ layout[bi] = Ids(n)[k] /\ t \in 1 .. Len(W[Ids(n)[k]]) + 1 /\ i = pl[k] + t
  BY <1>4 DEF AtOld
<1>6. k = b
  <2>1. Ids(n)[k] = k
    BY <1>2, FunctionWalk
  <2> QED
    BY <1>3, <1>5, <2>1
<1>7. t \in 1 .. Len(W[b])
  <2>1. Ids(n)[k] = k
    BY <1>2, FunctionWalk
  <2>2. PICK L \in Nat : L = Len(W[b])
    BY <1>2, <1>3, FunctionFacts
  <2>3. t \in 1 .. L + 1 /\ t <= L
    BY <1>5, <1>6, <2>1, <2>2
  <2>4. t \in 1 .. L
    BY <2>3
  <2> QED
    BY <2>2, <2>4
<1>8. PICK c : c = i
  OBVIOUS
<1>9. c = pl[b] + t
  BY <1>5, <1>6, <1>8
<1>10. c \in 1 .. N /\ c # 1 /\ sl[c] = <<b, t>> /\ list[c] = W[b][t]
  <2>1. Fixed(n, f, W, pl, N, sl, list) /\ b \in 1 .. n /\ t \in 1 .. Len(W[b]) /\ c = pl[b] + t
    BY <1>2, <1>3, <1>7, <1>9
  <2>2. c \in 1 .. N
    BY <2>1, SlotCounter
  <2>3. c # 1
    BY <2>1, SlotCounter
  <2>4. sl[c] = <<b, t>>
    BY <2>1 DEF Fixed, Numbered
  <2>5. list[c] = W[b][t]
    BY <2>1, SlotCounter
  <2> QED
    BY <2>2, <2>3, <2>4, <2>5
<1>11. AtOld(layout, n, Ids(n), W, pl, b, m, bi, t, i)
  BY <1>4, <1>6
<1> QED
  BY <1>3, <1>7, <1>8, <1>9, <1>10, <1>11 DEF OnSlot

\* The counter of a return, or of an edge that is not split
LEMMA CountedShape ==
  ASSUME NEW n, NEW f, NEW W, NEW pl, NEW N, NEW sl, NEW list,
         Profiled(n, f, W, pl, N, sl, list), Shape(n, f, W, pl, N),
         Counting, BB \in Blocks, s <= Len(W[BB]),
         NEW e, InitCounter(e), DOMAIN head' = DOMAIN succ',
         succ' = succ, i' = i + 1, bi' = bi, pc' = pc, layout' = layout, s' = s + 1,
         at' = at, taken' = taken, lost' = lost
  PROVE  Shape(n, f, W, pl, N)'
<1>1. /\ Fixed(n, f, W, pl, N, sl, list)
      /\ Graph(n, f, pl) /\ Layout /\ Walk(n, W, pl, N) /\ RunTypes(N)
  BY DEF Profiled, Shape
<1>2. PICK b, t : b = BB /\ t = s
  OBVIOUS
<1>3. OnSlot(n, W, pl, N, sl, list, b, t)
  <2>1. t <= Len(W[b])
    BY <1>2
  <2> QED
    BY <1>2, <2>1, SlotThere
<1>4. i \in 1 .. N /\ b \in 1 .. n /\ t \in 1 .. Len(W[b])
  BY <1>3 DEF OnSlot
<1>5. PICK m \in Nat : AtOld(layout, n, Ids(n), W, pl, b, m, bi, t, i)
  BY <1>3 DEF OnSlot
<1>6. Function(n, Ids(n), W, pl, n) /\ pc = "count" /\ bi \in Nat \ {0}
  BY BlockFacts
<1>7. Here(layout, n, Ids(n), W, pl, bi, t + 1, i + 1)
  <2>1. Ids(n)[b] = b
    BY <1>1, <1>4, FunctionWalk
  <2>2. t <= Len(W[Ids(n)[b]])
    BY <1>2, <2>1
  <2> QED
    BY <1>4, <1>5, <1>6, <2>2, HereEdge
<1>8. Graph(n, f, pl)'
  BY <1>1, <1>4, GraphCounted
<1>9. Layout'
  BY <1>1, LayoutStays
<1>10. Walk(n, W, pl, N)'
  <2>1. i' \in 1 .. N + 1
    <3>1. N \in Nat
      BY <1>1, FunctionFacts
    <3> QED
      BY <1>4, <3>1
  <2>2. Here(layout', n, Ids(n), W, pl, bi', s', i')
    BY <1>2, <1>7
  <2>3. bi' \in Nat /\ bi' # 0 /\ pc' = "count"
    BY <1>6
  <2> QED
    BY <2>1, <2>2, <2>3 DEF Walk
<1>11. RunTypes(N)'
  <2>1. counters' \in [1 .. N -> 0 .. Uncounted]
    BY <1>1, InitCounterTypes DEF RunTypes
  <2> QED
    BY <1>1, <2>1, RunTypesStay
<1> QED
  BY <1>8, <1>9, <1>10, <1>11 DEF Shape

LEMMA ReturnShape ==
  ASSUME NEW n, NEW f, NEW W, NEW pl, NEW N, NEW sl, NEW list,
         Profiled(n, f, W, pl, N, sl, list), Shape(n, f, W, pl, N), InstrumentReturn
  PROVE  Shape(n, f, W, pl, N)'
<1>1. /\ Counting /\ BB \in Blocks /\ function[BB] = <<>> /\ s = 1
      /\ InitCounter(<<BB, 0>>) /\ DOMAIN head' = DOMAIN succ' /\ succ' = succ /\ i' = i + 1
      /\ bi' = bi /\ pc' = pc /\ layout' = layout /\ s' = s + 1
      /\ at' = at /\ taken' = taken /\ lost' = lost
  BY DEF InstrumentReturn, InstrumentAt
<1>2. s <= Len(W[BB])
  <2>1. Fixed(n, f, W, pl, N, sl, list) /\ BB \in 1 .. n /\ f[BB] = <<>>
    BY <1>1 DEF Profiled
  <2>2. Len(W[BB]) = 1
    BY <2>1, FunctionFacts
  <2> QED
    BY <1>1, <2>2
<1> QED
  BY <1>1, <1>2, CountedShape

\* The edge that the pass is at, and where it leads
LEMMA EdgeFacts ==
  ASSUME NEW n, NEW f, NEW W, NEW pl, NEW N, NEW sl, NEW list,
         Profiled(n, f, W, pl, N, sl, list), Shape(n, f, W, pl, N), InstrumentEdge,
         NEW b, b = BB, NEW t, t = s
  PROVE  /\ OnSlot(n, W, pl, N, sl, list, b, t)
         /\ b \in 1 .. n /\ t \in 1 .. Len(f[b]) /\ Len(succ[b]) = Len(f[b]) /\ t <= Len(W[b])
         /\ succ[b][t] = f[b][t] /\ f[b][t] \in 2 .. n /\ list[i] = <<b, f[b][t]>>
<1>1. Fixed(n, f, W, pl, N, sl, list) /\ Graph(n, f, pl) /\ function = f /\ Blocks = 1 .. n
  BY DEF Profiled, Shape
<1>2. Counting /\ BB \in Blocks /\ s \in DOMAIN function[BB]
  BY DEF InstrumentEdge
<1>3. b \in 1 .. n /\ t \in 1 .. Len(f[b])
  <2>1. b \in 1 .. n
    BY <1>1, <1>2
  <2>2. DOMAIN f[b] = 1 .. Len(f[b])
    BY <1>1, <2>1, FunctionFacts
  <2> QED
    BY <1>1, <1>2, <2>1, <2>2
<1>4. f[b][t] \in 2 .. n /\ t \in 1 .. Len(W[b]) /\ W[b][t] = <<b, f[b][t]>>
  BY <1>1, <1>3, FunctionFacts
<1>5. t <= Len(W[b])
  <2>1. PICK L \in Nat : L = Len(W[b])
    BY <1>1, <1>3, FunctionFacts
  <2>2. t \in 1 .. L
    BY <1>4, <2>1
  <2>3. t <= L
    BY <2>2
  <2> QED
    BY <2>1, <2>3
<1>6. OnSlot(n, W, pl, N, sl, list, b, t)
  BY <1>2, <1>5, SlotThere
<1>7. i = pl[b] + t /\ i \in 1 .. N /\ list[i] = W[b][t]
  BY <1>6 DEF OnSlot
<1>8. Len(succ[b]) = Len(f[b])
  BY <1>1, <1>3 DEF Graph
<1>9. succ[b][t] = f[b][t]
  <2>1. N \in Nat
    BY <1>1, FunctionFacts
  <2>2. ~(i < i)
    BY <1>7, <2>1
  <2>3. ~(pl[b] + t < i)
    BY <1>7, <2>2
  <2> QED
    BY <1>1, <1>3, <2>3 DEF Graph
<1> QED
  BY <1>3, <1>4, <1>5, <1>6, <1>7, <1>8, <1>9

\* The edge that InstrumentEdge is at is split.
Splits == <<BB, function[BB][s]>> \notin MST /\ IsCriticalEdge(BB, s)

LEMMA EdgeShape ==
  ASSUME NEW n, NEW f, NEW W, NEW pl, NEW N, NEW sl, NEW list,
         Profiled(n, f, W, pl, N, sl, list), Shape(n, f, W, pl, N), InstrumentEdge, ~Splits
  PROVE  Shape(n, f, W, pl, N)'
<1>1. PICK e : e = <<BB, function[BB][s]>>
  OBVIOUS
<1>2. /\ Counting /\ BB \in Blocks /\ InitCounter(e) /\ DOMAIN head' = DOMAIN succ'
      /\ succ' = succ /\ i' = i + 1 /\ bi' = bi /\ pc' = pc /\ layout' = layout /\ s' = s + 1
      /\ at' = at /\ taken' = taken /\ lost' = lost
  BY <1>1 DEF InstrumentEdge, InstrumentAt, Splits
<1>3. s <= Len(W[BB])
  BY EdgeFacts
<1> QED
  BY <1>2, <1>3, CountedShape

\* The next block
LEMMA NextBlockShape ==
  ASSUME NEW n, NEW f, NEW W, NEW pl, NEW N, NEW sl, NEW list,
         Profiled(n, f, W, pl, N, sl, list), Shape(n, f, W, pl, N), NextBlock
  PROVE  Shape(n, f, W, pl, N)'
<1>1. /\ Fixed(n, f, W, pl, N, sl, list)
      /\ Graph(n, f, pl) /\ Layout /\ Walk(n, W, pl, N) /\ RunTypes(N)
  BY DEF Profiled, Shape
<1>2. /\ Counting /\ (BB \in Blocks => s > Max({1, Len(function[BB])})) /\ bi' = bi + 1 /\ s' = 1
      /\ succ' = succ /\ head' = head /\ i' = i /\ pc' = pc /\ layout' = layout
      /\ counters' = counters /\ at' = at /\ taken' = taken /\ lost' = lost
  BY DEF NextBlock, runVars
<1>3. /\ pc = "count" /\ bi \in Nat \ {0} /\ bi \in 1 .. Len(layout) /\ Len(layout) \in Nat
      /\ Here(layout, n, Ids(n), W, pl, bi, s, i) /\ Function(n, Ids(n), W, pl, n)
      /\ function = f /\ Blocks = 1 .. n
  BY <1>2, BlockFacts
<1>4. layout[bi] \in 1 .. n => s > Len(W[layout[bi]])
  <2> SUFFICES ASSUME layout[bi] \in 1 .. n PROVE s > Len(W[layout[bi]])
    OBVIOUS
  <2>1. PICK b : b = layout[bi] /\ b = BB /\ b \in 1 .. n
    BY DEF BB
  <2>2. s > Max({1, Len(f[b])})
    BY <1>2, <1>3, <2>1
  <2>3. PICK l \in Nat : l = Len(f[b])
    BY <1>1, <2>1, FunctionFacts
  <2>4. Max({1, l}) = IF l = 0 THEN 1 ELSE l
    BY MaxOne
  <2>5. f[b] = <<>> => l = 0 /\ Len(W[b]) = 1
    BY <1>1, <2>1, <2>3, FunctionFacts
  <2>6. f[b] # <<>> => l # 0 /\ Len(W[b]) = l
    BY <1>1, <2>1, <2>3, FunctionFacts
  <2> QED
    BY <2>1, <2>2, <2>3, <2>4, <2>5, <2>6
<1>5. Here(layout, n, Ids(n), W, pl, bi + 1, 1, i)
  <2>1. bi <= Len(layout)
    BY <1>3
  <2> QED
    BY <1>3, <1>4, <2>1, HereNext
<1>6. Graph(n, f, pl)'
  BY <1>1, <1>2, GraphStays DEF Graph
<1>7. Layout'
  BY <1>1, <1>2, LayoutStays
<1>8. Walk(n, W, pl, N)'
  <2>1. i \in 1 .. N + 1
    BY <1>1 DEF Walk
  <2>2. Here(layout', n, Ids(n), W, pl, bi', s', i')
    BY <1>2, <1>5
  <2>3. bi' \in Nat /\ bi' # 0 /\ pc' = "count"
    BY <1>2, <1>3
  <2> QED
    BY <1>2, <2>1, <2>2, <2>3 DEF Walk
<1>9. RunTypes(N)'
  <2>1. counters' \in [1 .. N -> 0 .. Uncounted]
    BY <1>1, <1>2 DEF RunTypes
  <2> QED
    BY <1>1, <1>2, <2>1, RunTypesStay
<1> QED
  BY <1>6, <1>7, <1>8, <1>9 DEF Shape

\* The end of the list: every counter was given to an edge.
LEMMA FinishShape ==
  ASSUME NEW n, NEW f, NEW W, NEW pl, NEW N, NEW sl, NEW list,
         Profiled(n, f, W, pl, N, sl, list), Shape(n, f, W, pl, N), FinishInstrumentation
  PROVE  Shape(n, f, W, pl, N)'
<1>1. /\ Fixed(n, f, W, pl, N, sl, list)
      /\ Graph(n, f, pl) /\ Layout /\ Walk(n, W, pl, N) /\ RunTypes(N)
  BY DEF Profiled, Shape
<1>2. /\ pc = "count" /\ bi > Len(layout) /\ pc' = "run"
      /\ succ' = succ /\ head' = head /\ i' = i /\ layout' = layout /\ bi' = bi /\ s' = s
      /\ counters' = counters /\ at' = at /\ taken' = taken /\ lost' = lost
  BY DEF FinishInstrumentation, countVars, runVars
<1>3. Len(layout) \in Nat /\ bi \in Nat /\ bi # 0
  <2>1. PICK D : layout \in Seq(D)
    BY <1>1 DEF Layout
  <2>2. Len(layout) \in Nat
    BY <2>1
  <2>3. bi \in Nat
    BY <1>1 DEF Walk
  <2> QED
    BY <1>2, <2>2, <2>3
<1>4. Function(n, Ids(n), W, pl, n) /\ Here(layout, n, Ids(n), W, pl, bi, s, i)
  BY <1>1, <1>2, <1>3, FunctionWalk DEF Walk
<1>5. i = pl[n + 1] + 1
  BY <1>2, <1>3, <1>4, HereEnd
<1>6. i = N + 1
  BY <1>1, <1>5, FunctionFacts
<1>7. Graph(n, f, pl)'
  <2>1. DOMAIN head' = DOMAIN succ /\ UNCHANGED <<succ, i>>
    BY <1>1, <1>2 DEF Graph
  <2> QED
    BY <1>1, <2>1, GraphStays
<1>8. Layout'
  BY <1>1, <1>2, LayoutStays
<1>9. Walk(n, W, pl, N)'
  BY <1>1, <1>2, <1>3, <1>6 DEF Walk
<1>10. RunTypes(N)'
  BY <1>1, <1>2 DEF RunTypes
<1> QED
  BY <1>7, <1>8, <1>9, <1>10 DEF Shape

-----------------------------------------------------------------------------
(* A new block in an edge *)

\* new is old, with m blocks, with block m + 1 put into successor t of b.
IsSplit(new, old, m, b, t) ==
  /\ new \in Seq(Seq(1 .. m + 1)) /\ Len(new) = m + 1 /\ DOMAIN new = 1 .. m + 1
  /\ new[m + 1] = <<old[b][t]>>
  /\ \A c \in 1 .. m : c # b => new[c] = old[c]
  /\ new[b][t] = m + 1 /\ Len(new[b]) = Len(old[b])
  /\ \A u \in 1 .. Len(old[b]) : u # t => new[b][u] = old[b][u]
  /\ \A c \in 1 .. m + 1 : new[c] \in Seq(1 .. m + 1)

\* A graph of m blocks
IsGraph(g, m) == m \in Nat /\ Len(g) = m /\ DOMAIN g = 1 .. m /\ \A c \in 1 .. m : g[c] \in Seq(1 .. m)

LEMMA AppendSplits ==
  ASSUME NEW m, NEW old, old \in Seq(Seq(1 .. m)), IsGraph(old, m),
         NEW b \in 1 .. m, NEW t \in 1 .. Len(old[b]), NEW x, x = m + 1
  PROVE  IsSplit(Append([old EXCEPT ![b][t] = x], <<old[b][t]>>), old, m, b, t)
<1>1. PICK B, a, l, d : B = 1 .. m + 1 /\ a = old[b] /\ l = Len(a) /\ d = a[t]
  OBVIOUS
<1>2. m \in Nat /\ Len(old) = m /\ DOMAIN old = 1 .. m /\ \A c \in 1 .. m : old[c] \in Seq(1 .. m)
  BY DEF IsGraph
<1>3. (1 .. m) \subseteq B /\ x \in B /\ x \notin 1 .. m
  BY <1>1, <1>2
<1>4. a \in Seq(1 .. m) /\ l \in Nat /\ t \in 1 .. l /\ DOMAIN a = 1 .. l
  <2>1. a \in Seq(1 .. m)
    BY <1>1, <1>2
  <2> QED
    BY <1>1, <2>1
<1>5. d \in 1 .. m
  BY <1>1, <1>4, ElementOfSeq
<1>6. a \in Seq(B)
  BY <1>3, <1>4, WiderSeq
<1>7. PICK r : r = [a EXCEPT ![t] = x]
  OBVIOUS
<1>8. r \in Seq(B) /\ Len(r) = l /\ r[t] = x /\ \A u \in 1 .. l : u # t => r[u] = a[u]
  BY <1>1, <1>3, <1>4, <1>6, <1>7
<1>9. PICK z, g, h : z = [old EXCEPT ![b] = r] /\ g = <<d>> /\ h = Append(z, g)
  OBVIOUS
<1>10. g \in Seq(B) /\ g = <<old[b][t]>>
  <2>1. d \in B
    BY <1>3, <1>5
  <2> QED
    BY <1>1, <1>9, <2>1
<1>11. \A c \in 1 .. m : old[c] \in Seq(B)
  <2> SUFFICES ASSUME NEW c \in 1 .. m PROVE old[c] \in Seq(B)
    OBVIOUS
  <2>1. PICK y, A : y = old[c] /\ A = 1 .. m /\ y \in Seq(A) /\ A \subseteq B
    BY <1>2, <1>3
  <2> QED
    BY <2>1, WiderSeq
<1>12. old \in [1 .. m -> Seq(B)]
  <2>1. old = [c \in 1 .. m |-> old[c]]
    BY <1>2
  <2> QED
    BY <1>11, <2>1
<1>13. z \in [1 .. m -> Seq(B)] /\ z[b] = r /\ \A c \in 1 .. m : c # b => z[c] = old[c]
  BY <1>8, <1>9, <1>12
<1>14. z \in Seq(Seq(B)) /\ Len(z) = m
  BY <1>2, <1>13
<1>15. /\ h \in Seq(Seq(B)) /\ Len(h) = m + 1 /\ h[m + 1] = g
       /\ \A c \in 1 .. m : h[c] = z[c]
  <2>1. PICK Q : Q = Seq(B) /\ z \in Seq(Q) /\ g \in Q
    BY <1>10, <1>14
  <2>2. /\ h \in Seq(Q) /\ Len(h) = m + 1 /\ h[m + 1] = g
        /\ \A c \in 1 .. m : h[c] = z[c]
    <3>1. z \in Seq(Q) /\ Len(z) = m /\ m \in Nat /\ g \in Q /\ h = Append(z, g)
      BY <1>2, <1>9, <1>14, <2>1
    <3>2. h \in Seq(Q)
      BY <3>1
    <3>6. Len(Append(z, g)) = Len(z) + 1 /\ Append(z, g)[Len(z) + 1] = g
      BY <3>1, AppendProperties
    <3>3. Len(h) = m + 1
      BY <3>1, <3>6
    <3>4. h[m + 1] = g
      BY <3>1, <3>6
    <3>5. \A c \in 1 .. m : h[c] = z[c]
      BY <3>1
    <3> QED
      BY <3>2, <3>3, <3>4, <3>5
  <2> QED
    BY <2>1, <2>2
<1>16. DOMAIN h = B /\ \A c \in B : h[c] \in Seq(B)
  <2>1. DOMAIN h = 1 .. m + 1
    BY <1>15
  <2>2. \A c \in 1 .. Len(h) : h[c] \in Seq(B)
    BY <1>15, ElementOfSeq
  <2> QED
    BY <1>1, <1>15, <2>1, <2>2
<1>17. h[b] = r /\ \A c \in 1 .. m : c # b => h[c] = old[c]
  BY <1>13, <1>15
<1>18. IsSplit(h, old, m, b, t)
  BY <1>1, <1>3, <1>8, <1>10, <1>15, <1>16, <1>17 DEF IsSplit
<1>19. h = Append([old EXCEPT ![b][t] = x], <<old[b][t]>>)
  <2>1. [old EXCEPT ![b][t] = x] = z
    BY <1>1, <1>7, <1>9
  <2> QED
    BY <1>9, <1>10, <2>1
<1> QED
  BY <1>18, <1>19

\* A split keeps what the invariant says of the blocks.
LEMMA GraphSplit ==
  ASSUME NEW n, NEW f, NEW W, NEW pl, NEW N, NEW sl, NEW list, Fixed(n, f, W, pl, N, sl, list),
         Graph(n, f, pl), NEW b \in 1 .. n, NEW t \in 1 .. Len(f[b]), i = pl[b] + t, succ[b][t] = f[b][t],
         NEW m, IsGraph(succ, m), IsSplit(succ', succ, m, b, t), i' = i + 1, DOMAIN head' = DOMAIN succ'
  PROVE  Graph(n, f, pl)'
<1>1. /\ N \in Nat /\ n \in Nat /\ m \in Nat /\ Len(succ) = m /\ DOMAIN succ = 1 .. m
      /\ \A c \in 1 .. m : succ[c] \in Seq(1 .. m)
  BY FunctionFacts DEF IsGraph
<1>2. n <= m /\ (\A c \in 1 .. n : Len(succ[c]) = Len(f[c])) /\ \A c \in 1 .. n : c \in 1 .. m
  <2>1. PICK k \in Nat : n <= k /\ Len(succ) = k
    BY DEF Graph
  <2>2. n <= m
    BY <1>1, <2>1
  <2> QED
    BY <1>1, <2>2 DEF Graph
<1>3. /\ succ' \in Seq(Seq(1 .. m + 1)) /\ Len(succ') = m + 1 /\ DOMAIN succ' = 1 .. m + 1
      /\ succ'[m + 1] = <<succ[b][t]>>
      /\ \A c \in 1 .. m : c # b => succ'[c] = succ[c]
      /\ succ'[b][t] = m + 1 /\ Len(succ'[b]) = Len(succ[b])
      /\ \A u \in 1 .. Len(succ[b]) : u # t => succ'[b][u] = succ[b][u]
      /\ \A c \in 1 .. m + 1 : succ'[c] \in Seq(1 .. m + 1)
  BY DEF IsSplit
<1>4. ASSUME NEW c \in 1 .. n, NEW u \in 1 .. Len(f[c])
      PROVE  succ[c][u] \in 1 .. m
  <2>1. PICK a, A : a = succ[c] /\ A = 1 .. m /\ a \in Seq(A) /\ u \in 1 .. Len(a)
    BY <1>1, <1>2
  <2>2. a[u] \in A
    BY <2>1, ElementOfSeq
  <2> QED
    BY <2>1, <2>2
<1>5. ASSUME NEW c \in 1 .. n, NEW u \in 1 .. Len(f[c])
      PROVE  \/ c = b /\ u = t
             \/ succ'[c][u] = succ[c][u] /\ (c # b \/ u # t)
  <2>1. c \in 1 .. m /\ u \in 1 .. Len(succ[c])
    BY <1>2
  <2> QED
    BY <1>3, <2>1
<1>6. ASSUME NEW c \in 1 .. n, NEW u \in 1 .. Len(f[c])
      PROVE  /\ succ'[c][u] \in 1 .. n => succ'[c][u] = f[c][u]
             /\ succ'[c][u] \notin 1 .. n => succ'[succ'[c][u]] = <<f[c][u]>>
             /\ ~(pl[c] + u < i') => succ'[c][u] = f[c][u]
  <2>0. PICK d : d = pl[c] + u /\ d \in 1 .. N /\ sl[d] = <<c, u>>
    <3>1. u \in 1 .. Len(W[c])
      BY FunctionFacts
    <3>2. PICK d : d = pl[c] + u
      OBVIOUS
    <3>3. d \in 1 .. N
      BY <3>1, <3>2, SlotCounter
    <3>4. sl[d] = <<c, u>>
      BY <3>1, <3>2 DEF Fixed, Numbered
    <3> QED
      BY <3>2, <3>3, <3>4
  <2>1. CASE c = b /\ u = t
    <3>1. succ'[c][u] = m + 1 /\ m + 1 \notin 1 .. n
      BY <1>1, <1>2, <1>3, <2>1
    <3>2. succ'[m + 1] = <<f[c][u]>>
      BY <1>3, <2>1
    <3>3. d = i
      BY <2>0, <2>1
    <3>4. d < i'
      BY <1>1, <2>0, <3>3
    <3> QED
      BY <2>0, <3>1, <3>2, <3>4
  <2>2. CASE succ'[c][u] = succ[c][u] /\ (c # b \/ u # t)
    <3>1. /\ succ[c][u] \in 1 .. n => succ[c][u] = f[c][u]
          /\ succ[c][u] \notin 1 .. n => succ[succ[c][u]] = <<f[c][u]>>
          /\ ~(d < i) => succ[c][u] = f[c][u]
      <4>1. /\ succ[c][u] \in 1 .. n => succ[c][u] = f[c][u]
            /\ succ[c][u] \notin 1 .. n => succ[succ[c][u]] = <<f[c][u]>>
            /\ ~(pl[c] + u < i) => succ[c][u] = f[c][u]
        BY DEF Graph
      <4> QED
        BY <2>0, <4>1
    <3>2. i \in Nat
      <4>1. t \in 1 .. Len(W[b])
        BY FunctionFacts
      <4>2. PICK e : e = i /\ e = pl[b] + t
        OBVIOUS
      <4>3. e \in 1 .. N
        BY <4>1, <4>2, SlotCounter
      <4> QED
        BY <1>1, <4>2, <4>3
    <3>3. ~(d < i') => ~(d < i)
      BY <1>1, <2>0, <3>2
    <3>4. PICK y : y = succ[c][u] /\ y \in 1 .. m
      BY <1>4
    <3>5. y \notin 1 .. n => succ'[y] = succ[y]
      BY <1>3, <3>4
    <3> QED
      BY <2>0, <2>2, <3>1, <3>3, <3>4, <3>5
  <2> QED
    BY <1>5, <2>1, <2>2
<1>7. \A c \in 1 .. n : Len(succ'[c]) = Len(f[c])
  BY <1>2, <1>3
<1>8. ASSUME NEW x \in (1 .. m + 1) \ (1 .. n)
      PROVE  \E c \in 1 .. n : \E u \in 1 .. Len(f[c]) : succ'[c][u] = x
  <2>1. CASE x = m + 1
    BY <1>3, <2>1
  <2>2. CASE x # m + 1
    <3>1. x \in DOMAIN succ \ (1 .. n)
      <4>1. x \in 1 .. m + 1 /\ x # m + 1 /\ m \in Nat
        BY <1>1, <2>2
      <4>2. x \in 1 .. m
        BY <4>1
      <4> QED
        BY <1>1, <4>2
    <3>2. PICK c \in 1 .. n : \E u \in 1 .. Len(f[c]) : succ[c][u] = x
      BY <3>1 DEF Graph
    <3>3. PICK u \in 1 .. Len(f[c]) : succ[c][u] = x
      BY <3>2
    <3>4. c # b \/ u # t
      <4>1. f[b][t] \in 2 .. n
        BY FunctionFacts
      <4>2. \A y \in 2 .. n : y \in 1 .. n
        OBVIOUS
      <4> QED
        BY <3>1, <3>3, <4>1, <4>2
    <3> QED
      BY <1>5, <3>3, <3>4
  <2> QED
    BY <2>1, <2>2
<1>9. ASSUME NEW c \in 1 .. n, NEW d \in 1 .. n, NEW u \in 1 .. Len(f[c]), NEW v \in 1 .. Len(f[d]),
             succ'[c][u] = succ'[d][v], succ'[c][u] \notin 1 .. n
      PROVE  c = d /\ u = v
  <2>0. \A y \in 1 .. m : y # m + 1
    BY <1>1
  <2>1. \/ c = b /\ u = t /\ succ'[c][u] = m + 1
        \/ succ'[c][u] = succ[c][u] /\ succ'[c][u] # m + 1
    <3>1. succ[c][u] # m + 1
      BY <1>4, <2>0
    <3> QED
      BY <1>3, <1>5, <3>1
  <2>2. \/ d = b /\ v = t /\ succ'[d][v] = m + 1
        \/ succ'[d][v] = succ[d][v] /\ succ'[d][v] # m + 1
    <3>1. succ[d][v] # m + 1
      BY <1>4, <2>0
    <3> QED
      BY <1>3, <1>5, <3>1
  <2>3. CASE succ'[c][u] = succ[c][u] /\ succ'[d][v] = succ[d][v]
    <3>1. succ[c][u] = succ[d][v] /\ succ[c][u] \notin 1 .. n
      BY <1>9, <2>3
    <3>2. \A x, y \in 1 .. n : \A k \in 1 .. Len(f[x]) : \A l \in 1 .. Len(f[y]) :
            succ[x][k] = succ[y][l] /\ succ[x][k] \notin 1 .. n => x = y /\ k = l
      BY DEF Graph
    <3> QED
      BY <3>1, <3>2
  <2> QED
    BY <1>9, <2>1, <2>2, <2>3
<1>10. n <= m + 1 /\ m + 1 \in Nat
  BY <1>1, <1>2
<1>11. \E k \in Nat : n <= k /\ Len(succ') = k /\ DOMAIN succ' = 1 .. k
  BY <1>3, <1>10
<1>12. succ' \in Seq(Seq(DOMAIN succ')) /\ \A c \in DOMAIN succ' : succ'[c] \in Seq(DOMAIN succ')
  BY <1>3
<1>13. \A x \in DOMAIN succ' \ (1 .. n) : \E c \in 1 .. n : \E u \in 1 .. Len(f[c]) : succ'[c][u] = x
  BY <1>3, <1>8
<1>14. \A c \in 1 .. n : \A u \in 1 .. Len(f[c]) :
         /\ succ'[c][u] \in 1 .. n => succ'[c][u] = f[c][u]
         /\ succ'[c][u] \notin 1 .. n => succ'[succ'[c][u]] = <<f[c][u]>>
         /\ ~(pl[c] + u < i') => succ'[c][u] = f[c][u]
  BY <1>6
<1>15. \A c, d \in 1 .. n : \A u \in 1 .. Len(f[c]) : \A v \in 1 .. Len(f[d]) :
         succ'[c][u] = succ'[d][v] /\ succ'[c][u] \notin 1 .. n => c = d /\ u = v
  BY <1>9
<1> QED
  BY <1>7, <1>11, <1>12, <1>13, <1>14, <1>15 DEF Graph

\* The list with a new block in it
LEMMA LayoutSplit ==
  ASSUME Layout, NEW m \in Nat, DOMAIN succ = 1 .. m, DOMAIN succ' = 1 .. m + 1,
         NEW p \in 1 .. Len(layout) + 1, NEW x, x = m + 1, layout' = InsertAt(layout, p, x)
  PROVE  Layout'
<1>1. PICK B, l, L, r : B = 1 .. m + 1 /\ l = layout /\ L = Len(l) /\ r = InsertAt(l, p, x)
  OBVIOUS
<1>2. l \in Seq(B) /\ x \in B /\ L \in Nat /\ Len(l) = L /\ p \in 1 .. L + 1
  <2>1. PICK A : A = 1 .. m /\ l \in Seq(A)
    BY <1>1 DEF Layout
  <2>2. A \subseteq B
    BY <1>1, <2>1
  <2> QED
    BY <1>1, <2>1, <2>2, WiderSeq
<1>4. r \in Seq(B) /\ Inserted(r, l, L, p, x)
  BY <1>1, <1>2, InsertAtFacts
<1>5. /\ Len(r) = L + 1
      /\ \A j \in 1 .. p - 1 : r[j] = l[j]
      /\ r[p] = x
      /\ \A j \in p .. L : r[j + 1] = l[j]
  BY <1>4 DEF Inserted
<1>6. layout' = r
  BY <1>1
<1>7. ASSUME NEW c \in B
      PROVE  \E k \in 1 .. Len(r) : r[k] = c
  <2>1. CASE c = x
    <3>1. p \in 1 .. Len(r)
      BY <1>2, <1>5
    <3> QED
      BY <1>5, <2>1, <3>1
  <2>2. CASE c # x
    <3>1. c \in DOMAIN succ
      BY <1>1, <2>2
    <3>2. PICK k \in 1 .. L : l[k] = c
      BY <1>1, <3>1 DEF Layout
    <3>3. CASE k < p
      <4>1. k \in 1 .. p - 1 /\ k \in 1 .. L + 1
        BY <1>2, <3>3
      <4> QED
        BY <1>5, <3>2, <4>1
    <3>4. CASE ~(k < p)
      <4>1. k \in p .. L /\ k + 1 \in 1 .. L + 1
        BY <1>2, <3>4
      <4> QED
        BY <1>5, <3>2, <4>1
    <3> QED
      BY <3>3, <3>4
  <2> QED
    BY <2>1, <2>2
<1> QED
  BY <1>1, <1>4, <1>6, <1>7 DEF Layout

\* What a split does
SplitBlock(b, t, m, x) ==
  /\ IsGraph(succ, m) /\ x = m + 1 /\ NewBlock = x
  /\ IsSplit(succ', succ, m, b, t) /\ layout' = InsertAt(layout, bi + 1, x)

LEMMA SplitStep ==
  ASSUME NEW n, NEW f, NEW W, NEW pl, NEW N, NEW sl, NEW list,
         Profiled(n, f, W, pl, N, sl, list), Shape(n, f, W, pl, N), InstrumentEdge, Splits,
         NEW b, b = BB, NEW t, t = s
  PROVE  \E m, x : SplitBlock(b, t, m, x)
<1>1. Graph(n, f, pl) /\ n \in Nat
  BY FunctionFacts DEF Profiled, Shape
<1>2. PICK m \in Nat : n <= m /\ Len(succ) = m /\ DOMAIN succ = 1 .. m
  BY <1>1 DEF Graph
<1>3. PICK x : x = m + 1 /\ NewBlock = x
  BY <1>2 DEF NewBlock
<1>4. /\ succ' = Append([succ EXCEPT ![b][t] = x], <<succ[b][t]>>)
      /\ layout' = InsertAt(layout, bi + 1, x)
  BY <1>3 DEF InstrumentEdge, Splits
<1>5. IsGraph(succ, m)
  BY <1>1, <1>2 DEF Graph, IsGraph
<1>6. succ \in Seq(Seq(1 .. m))
  BY <1>1, <1>2 DEF Graph
<1>7. b \in 1 .. m /\ t \in 1 .. Len(succ[b])
  <2>1. b \in 1 .. n /\ t \in 1 .. Len(f[b]) /\ Len(succ[b]) = Len(f[b])
    BY EdgeFacts
  <2> QED
    BY <1>1, <1>2, <2>1
<1>8. IsSplit(succ', succ, m, b, t)
  BY <1>3, <1>4, <1>5, <1>6, <1>7, AppendSplits
<1> QED
  BY <1>3, <1>4, <1>5, <1>8 DEF SplitBlock

LEMMA SplitShape ==
  ASSUME NEW n, NEW f, NEW W, NEW pl, NEW N, NEW sl, NEW list,
         Profiled(n, f, W, pl, N, sl, list), Shape(n, f, W, pl, N), InstrumentEdge, Splits
  PROVE  Shape(n, f, W, pl, N)'
<1>1. /\ Fixed(n, f, W, pl, N, sl, list)
      /\ Graph(n, f, pl) /\ Layout /\ Walk(n, W, pl, N) /\ RunTypes(N)
  BY DEF Profiled, Shape
<1>2. PICK b, t, e : b = BB /\ t = s /\ e = <<BB, function[BB][s]>>
  OBVIOUS
<1>3. /\ Counting /\ InitCounter(e) /\ DOMAIN head' = DOMAIN succ' /\ i' = i + 1 /\ s' = s + 1
      /\ bi' = bi /\ pc' = pc /\ at' = at /\ taken' = taken /\ lost' = lost
  BY <1>2 DEF InstrumentEdge, InstrumentAt
<1>4. /\ OnSlot(n, W, pl, N, sl, list, b, t)
      /\ b \in 1 .. n /\ t \in 1 .. Len(f[b]) /\ t <= Len(W[b]) /\ succ[b][t] = f[b][t]
  BY <1>2, EdgeFacts
<1>5. i = pl[b] + t /\ i \in 1 .. N /\ \E k \in Nat : AtOld(layout, n, Ids(n), W, pl, b, k, bi, t, i)
  BY <1>4 DEF OnSlot
<1>6. PICK k \in Nat : AtOld(layout, n, Ids(n), W, pl, b, k, bi, t, i)
  BY <1>5
<1>7. /\ pc = "count" /\ bi \in Nat \ {0} /\ bi \in 1 .. Len(layout) /\ Len(layout) \in Nat
      /\ Function(n, Ids(n), W, pl, n)
  BY <1>3, BlockFacts
<1>8. PICK m, x : SplitBlock(b, t, m, x)
  BY <1>2, SplitStep
<1>9. /\ IsGraph(succ, m) /\ x = m + 1
      /\ IsSplit(succ', succ, m, b, t) /\ layout' = InsertAt(layout, bi + 1, x)
  BY <1>8 DEF SplitBlock
<1>10. /\ m \in Nat /\ n \in Nat /\ N \in Nat /\ DOMAIN succ = 1 .. m /\ DOMAIN succ' = 1 .. m + 1
       /\ DOMAIN succ' = 1 .. x
  BY <1>1, <1>9, FunctionFacts DEF IsGraph, IsSplit
<1>11. n <= m
  <2>1. PICK g \in Nat : n <= g /\ Len(succ) = g
    BY <1>1 DEF Graph
  <2> QED
    BY <1>9, <2>1 DEF IsGraph
<1>12. Graph(n, f, pl)'
  BY <1>1, <1>3, <1>4, <1>5, <1>9, GraphSplit
<1>13. Layout'
  <2>1. PICK p : p = bi + 1
    OBVIOUS
  <2>2. p \in 1 .. Len(layout) + 1
    BY <1>7, <2>1
  <2>3. layout' = InsertAt(layout, p, x)
    BY <1>9, <2>1
  <2> QED
    BY <1>1, <1>9, <1>10, <2>2, <2>3, LayoutSplit
<1>14. layout \in Seq(1 .. x) /\ x \in 1 .. x /\ x \notin 1 .. n
  <2>1. PICK A : A = 1 .. m /\ layout \in Seq(A)
    BY <1>1, <1>10 DEF Layout
  <2>2. A \subseteq 1 .. x
    BY <1>9, <1>10, <2>1
  <2> QED
    BY <1>9, <1>10, <1>11, <2>1, <2>2, WiderSeq
<1>15. Here(InsertAt(layout, bi + 1, x), n, Ids(n), W, pl, bi, t + 1, i + 1)
  <2>1. Ids(n)[b] = b
    BY <1>1, <1>4, FunctionWalk
  <2>2. t <= Len(W[Ids(n)[b]])
    BY <1>4, <2>1
  <2>3. \A S, y : layout \in Seq(S) /\ y \in S /\ y \notin 1 .. n =>
              Here(InsertAt(layout, bi + 1, y), n, Ids(n), W, pl, bi, t + 1, i + 1)
    BY <1>4, <1>6, <1>7, <2>2, HereEdge
  <2> QED
    BY <1>14, <2>3, Zenon
<1>16. Walk(n, W, pl, N)'
  <2>1. i' \in 1 .. N + 1
    BY <1>3, <1>5, <1>10
  <2>2. Here(layout', n, Ids(n), W, pl, bi', s', i')
    BY <1>2, <1>3, <1>9, <1>15
  <2>3. bi' \in Nat /\ bi' # 0 /\ pc' = "count"
    BY <1>3, <1>7
  <2> QED
    BY <2>1, <2>2, <2>3 DEF Walk
<1>17. RunTypes(N)'
  <2>1. counters' \in [1 .. N -> 0 .. Uncounted]
    BY <1>1, <1>3, InitCounterTypes DEF RunTypes
  <2>2. DOMAIN succ \subseteq DOMAIN succ'
    BY <1>10
  <2> QED
    BY <1>1, <1>3, <2>1, <2>2, RunTypesStay
<1> QED
  BY <1>12, <1>13, <1>16, <1>17 DEF Shape

-----------------------------------------------------------------------------
(* The steps before and after the instrumentation *)

LEMMA TreeShape ==
  ASSUME NEW n, NEW f, NEW W, NEW pl, NEW N, Shape(n, f, W, pl, N), UNCHANGED <<countVars, runVars>>,
         \/ UNCHANGED pc
         \/ pc = "tree" /\ pc' = "count"
         \/ pc \notin {"tree", "count"} /\ at = Idle /\ pc' \in {"rebuild", "round", "done", "stuck"}
  PROVE  Shape(n, f, W, pl, N)'
<1>1. Graph(n, f, pl) /\ Layout /\ Walk(n, W, pl, N) /\ RunTypes(N)
  BY DEF Shape
<1>2. /\ succ' = succ /\ head' = head /\ i' = i /\ layout' = layout /\ bi' = bi /\ s' = s
      /\ counters' = counters /\ at' = at /\ taken' = taken /\ lost' = lost
  BY DEF countVars, runVars
<1>3. Graph(n, f, pl)'
  <2>1. DOMAIN head' = DOMAIN succ /\ UNCHANGED <<succ, i>>
    BY <1>1, <1>2 DEF Graph
  <2> QED
    BY <1>1, <2>1, GraphStays
<1>4. Layout'
  BY <1>1, <1>2, LayoutStays
<1>5. Walk(n, W, pl, N)'
  BY <1>1, <1>2 DEF Walk
<1>6. RunTypes(N)'
  BY <1>1, <1>2 DEF RunTypes
<1> QED
  BY <1>3, <1>4, <1>5, <1>6 DEF Shape

\* Counters wrap and keep their width.
LEMMA BumpTypes ==
  ASSUME NEW N, counters \in [1 .. N -> 0 .. Uncounted], NEW set, Bump(set)
  PROVE  counters' \in [1 .. N -> 0 .. Uncounted]
<1>1. ASSUME NEW v \in 0 .. Uncounted
      PROVE  (v + 1) % (Uncounted + 1) \in 0 .. Uncounted
  BY BoundsAssumption
<1>2. DOMAIN counters = 1 .. N /\ \A c \in 1 .. N : counters[c] \in 0 .. Uncounted
  OBVIOUS
<1>3. \A c \in 1 .. N : (counters[c] + 1) % (Uncounted + 1) \in 0 .. Uncounted
  BY <1>1, <1>2
<1> QED
  BY <1>2, <1>3 DEF Bump

\* A step of the program
LEMMA RunShape ==
  ASSUME NEW n, NEW f, NEW W, NEW pl, NEW N, Shape(n, f, W, pl, N), UNCHANGED countVars, UNCHANGED pc,
         pc = "run", taken' \in [1 .. N -> Nat], counters' \in [1 .. N -> 0 .. Uncounted],
         lost' \in BOOLEAN, at' \in DOMAIN succ \cup {Idle}
  PROVE  Shape(n, f, W, pl, N)'
<1>1. Graph(n, f, pl) /\ Layout /\ Walk(n, W, pl, N) /\ RunTypes(N)
  BY DEF Shape
<1>2. succ' = succ /\ head' = head /\ i' = i /\ layout' = layout /\ bi' = bi /\ s' = s
  BY DEF countVars
<1>3. Graph(n, f, pl)'
  <2>1. DOMAIN head' = DOMAIN succ /\ UNCHANGED <<succ, i>>
    BY <1>1, <1>2 DEF Graph
  <2> QED
    BY <1>1, <2>1, GraphStays
<1>4. Layout'
  BY <1>1, <1>2, LayoutStays
<1>5. Walk(n, W, pl, N)'
  BY <1>1, <1>2 DEF Walk
<1>6. RunTypes(N)'
  BY <1>1, <1>2 DEF RunTypes
<1> QED
  BY <1>3, <1>4, <1>5, <1>6 DEF Shape

LEMMA TakenTypes ==
  ASSUME NEW N, taken \in [1 .. N -> Nat], NEW c
  PROVE  [taken EXCEPT ![c] = @ + 1] \in [1 .. N -> Nat]
<1>1. PICK g : g = [taken EXCEPT ![c] = @ + 1]
  OBVIOUS
<1>2. \A d \in 1 .. N : taken[d] \in Nat
  OBVIOUS
<1>3. DOMAIN g = 1 .. N /\ \A d \in 1 .. N : g[d] = (IF d = c THEN taken[d] + 1 ELSE taken[d])
  BY <1>1
<1>4. \A d \in 1 .. N : g[d] \in Nat
  BY <1>2, <1>3
<1>5. g = [d \in 1 .. N |-> g[d]]
  BY <1>1
<1> QED
  BY <1>1, <1>4, <1>5

LEMMA CallShape ==
  ASSUME NEW n, NEW f, NEW W, NEW pl, NEW N, NEW sl, NEW list,
         Profiled(n, f, W, pl, N, sl, list), Shape(n, f, W, pl, N), Call
  PROVE  Shape(n, f, W, pl, N)'
<1>1. RunTypes(N) /\ Graph(n, f, pl) /\ n \in Nat \ {0}
  BY FunctionFacts DEF Profiled, Shape
<1>2. /\ UNCHANGED countVars /\ UNCHANGED pc /\ pc = "run" /\ at' = 1 /\ lost' = lost
      /\ Bump(head[1]) /\ taken' = [taken EXCEPT ![1] = @ + 1]
  BY DEF Call
<1>3. counters' \in [1 .. N -> 0 .. Uncounted] /\ taken' \in [1 .. N -> Nat] /\ lost' \in BOOLEAN
  BY <1>1, <1>2, BumpTypes, TakenTypes DEF RunTypes
<1>4. 1 \in DOMAIN succ
  BY <1>1 DEF Graph
<1> QED
  BY <1>2, <1>3, <1>4, RunShape

LEMMA TakeShape ==
  ASSUME NEW n, NEW f, NEW W, NEW pl, NEW N, NEW sl, NEW list,
         Profiled(n, f, W, pl, N, sl, list), Shape(n, f, W, pl, N), NEW t, Take(t)
  PROVE  Shape(n, f, W, pl, N)'
<1>1. RunTypes(N) /\ Graph(n, f, pl)
  BY DEF Profiled, Shape
<1>2. /\ UNCHANGED countVars /\ UNCHANGED pc /\ pc = "run" /\ lost' = lost
      /\ at # Idle /\ t \in DOMAIN succ[at] /\ at' = succ[at][t]
      /\ Bump(head[at'])
      /\ taken' = IF at \in Blocks THEN [taken EXCEPT ![CounterOf(at, t)] = @ + 1] ELSE taken
  BY DEF Take
<1>3. counters' \in [1 .. N -> 0 .. Uncounted] /\ taken' \in [1 .. N -> Nat] /\ lost' \in BOOLEAN
  BY <1>1, <1>2, BumpTypes, TakenTypes DEF RunTypes
<1>4. at' \in DOMAIN succ
  <2>1. PICK a, D : a = succ[at] /\ D = DOMAIN succ
    OBVIOUS
  <2>2. a \in Seq(D)
    BY <1>1, <1>2, <2>1 DEF Graph, RunTypes
  <2>3. t \in 1 .. Len(a)
    BY <1>2, <2>1, <2>2
  <2>4. a[t] \in D
    BY <2>2, <2>3, ElementOfSeq
  <2> QED
    BY <1>2, <2>1, <2>4
<1> QED
  BY <1>2, <1>3, <1>4, RunShape

LEMMA EndCallShape ==
  ASSUME NEW n, NEW f, NEW W, NEW pl, NEW N, Shape(n, f, W, pl, N), Return \/ Exit
  PROVE  Shape(n, f, W, pl, N)'
<1>1. RunTypes(N)
  BY DEF Shape
<1>2. UNCHANGED countVars /\ UNCHANGED pc /\ pc = "run" /\ at' = Idle /\ counters' = counters
  BY DEF Return, Exit
<1>3. counters' \in [1 .. N -> 0 .. Uncounted]
  BY <1>1, <1>2 DEF RunTypes
<1>4. taken' \in [1 .. N -> Nat] /\ lost' \in BOOLEAN
  <2>1. CASE Return
    BY <1>1, <2>1, TakenTypes DEF Return, RunTypes
  <2>2. CASE Exit
    BY <1>1, <2>2 DEF Exit, RunTypes
  <2> QED
    BY <2>1, <2>2
<1> QED
  BY <1>2, <1>3, <1>4, RunShape

\* What is computed from the function only
CounterIn(f, b, t) ==
  1 + t + FoldFunction(+, 0, [c \in 1 .. b - 1 |-> Max({1, Len(f[c])})])
NumEdgesIn(f) == 1 + FoldFunction(+, 0, [b \in DOMAIN f |-> Max({1, Len(f[b])})])
EdgeOfIn(f) == << <<0, 1>> >> \o FlattenSeq([b \in DOMAIN f |-> EdgesOf(f, b)])
OfFunction ==
  /\ NumEdges = NumEdgesIn(function) /\ EdgeOf = EdgeOfIn(function)
  /\ \A b, t : CounterOf(b, t) = CounterIn(function, b, t)

LEMMA AlwaysOfFunction == []OfFunction
<1>1. OfFunction
  <2>1. NumEdges = NumEdgesIn(function) /\ EdgeOf = EdgeOfIn(function)
    BY DEF NumEdges, NumEdgesIn, EdgeOf, EdgeOfIn, Blocks
  <2>2. \A b, t : CounterOf(b, t) = CounterIn(function, b, t)
    BY DEF CounterOf, CounterIn
  <2> QED
    BY <2>1, <2>2 DEF OfFunction
<1> QED
  BY <1>1, PTL

LEMMA ProfiledStays ==
  ASSUME NEW n, NEW f, NEW W, NEW pl, NEW N, NEW sl, NEW list,
         Profiled(n, f, W, pl, N, sl, list), UNCHANGED function
  PROVE  Profiled(n, f, W, pl, N, sl, list)'
<1>1. OfFunction /\ OfFunction'
  BY AlwaysOfFunction, PTL
<1>2. /\ Fixed(n, f, W, pl, N, sl, list)
      /\ function = f /\ function \in Functions /\ Blocks = 1 .. n
      /\ EdgeOf = list /\ NumEdges = N
      /\ \A b \in 1 .. n : \A t \in 1 .. Len(W[b]) : CounterOf(b, t) = pl[b] + t
  BY DEF Profiled
<1>3. NumEdges' = NumEdgesIn(function') /\ EdgeOf' = EdgeOfIn(function')
  BY <1>1 DEF OfFunction
<1>4. NumEdges = NumEdgesIn(function) /\ EdgeOf = EdgeOfIn(function)
  BY <1>1 DEF OfFunction
<1>5. \A b \in 1 .. n : \A t \in 1 .. Len(W[b]) : CounterOf(b, t)' = pl[b] + t
  BY <1>1, <1>2 DEF OfFunction
<1>6. Blocks' = Blocks /\ NumEdges' = N /\ EdgeOf' = list
  BY <1>2, <1>3, <1>4 DEF Blocks
<1> QED
  BY <1>2, <1>5, <1>6 DEF Profiled

\* Every step keeps the shape.
LEMMA ShapeStep ==
  ASSUME NEW n, NEW f, NEW W, NEW pl, NEW N, NEW sl, NEW list,
         Profiled(n, f, W, pl, N, sl, list), Shape(n, f, W, pl, N), [Next]_vars
  PROVE  Profiled(n, f, W, pl, N, sl, list)' /\ Shape(n, f, W, pl, N)'
<1>1. Profiled(n, f, W, pl, N, sl, list)'
  <2>1. UNCHANGED function
    BY DEF Next, Instrument, Execute, Rebuild, LookAtEdge, EndTree, InstrumentEntry, InstrumentReturn,
           InstrumentEdge, NextBlock, FinishInstrumentation, Call, Take, Return, Exit, Load, BeginRound,
           CalculateMissingEdge, EndRound, EndLoad, RecurseBasicBlock, vars
  <2> QED
    BY <2>1, ProfiledStays
<1> SUFFICES Shape(n, f, W, pl, N)'
  BY <1>1
<1>2. Walk(n, W, pl, N) /\ RunTypes(N)
  BY DEF Shape
<1>3. CASE Instrument
  <2>1. ASSUME NEW e \in edges, LookAtEdge(e) PROVE Shape(n, f, W, pl, N)'
    BY <2>1, TreeShape DEF LookAtEdge
  <2>2. CASE EndTree
    BY <2>2, TreeShape DEF EndTree
  <2>3. CASE InstrumentEntry
    BY <2>3, EntryShape
  <2>4. CASE InstrumentReturn
    BY <2>4, ReturnShape
  <2>5. CASE InstrumentEdge
    BY <2>5, EdgeShape, SplitShape
  <2>6. CASE NextBlock
    BY <2>6, NextBlockShape
  <2>7. CASE FinishInstrumentation
    BY <2>7, FinishShape
  <2> QED
    BY <1>3, <2>1, <2>2, <2>3, <2>4, <2>5, <2>6, <2>7 DEF Instrument
<1>4. CASE Execute
  BY <1>4, CallShape, TakeShape, EndCallShape DEF Execute
<1>5. CASE Load
  <2>1. UNCHANGED <<countVars, runVars>> /\ pc = "run" /\ at = Idle /\ pc' = "rebuild"
    BY <1>5 DEF Load
  <2> QED
    BY <2>1, TreeShape
<1>6. CASE Rebuild
  <2>1. /\ UNCHANGED <<countVars, runVars>> /\ pc \in {"rebuild", "round"}
        /\ UNCHANGED pc \/ pc' \in {"rebuild", "round", "done", "stuck"}
    BY <1>6 DEF Rebuild, BeginRound, CalculateMissingEdge, EndRound, EndLoad, RecurseBasicBlock
  <2>2. at = Idle
    BY <1>2, <2>1 DEF RunTypes
  <2> QED
    BY <2>1, <2>2, TreeShape
<1>7. CASE UNCHANGED vars
  <2>1. UNCHANGED <<countVars, runVars>> /\ UNCHANGED pc
    BY <1>7 DEF vars
  <2> QED
    BY <2>1, TreeShape
<1> QED
  BY <1>3, <1>4, <1>5, <1>6, <1>7 DEF Next

-----------------------------------------------------------------------------
(* The edges that the loader knows *)

\* The counter of the call, of a return, or of an edge between blocks
OfReturn(n, f, pl, sl, list, c, b) ==
  b \in 1 .. n /\ f[b] = <<>> /\ c = pl[b] + 1 /\ sl[c] = <<b, 1>> /\ list[c] = <<b, 0>>
OfEdge(n, f, pl, sl, list, c, b, t) ==
  /\ b \in 1 .. n /\ t \in 1 .. Len(f[b]) /\ f[b][t] \in 2 .. n
  /\ c = pl[b] + t /\ sl[c] = <<b, t>> /\ list[c] = <<b, f[b][t]>>

LEMMA CounterKinds ==
  ASSUME NEW n, NEW f, NEW W, NEW pl, NEW N, NEW sl, NEW list, Fixed(n, f, W, pl, N, sl, list),
         NEW c \in 1 .. N
  PROVE  \/ c = 1
         \/ \E b \in 1 .. n : OfReturn(n, f, pl, sl, list, c, b)
         \/ \E b \in 1 .. n : \E t \in 1 .. Len(f[b]) : OfEdge(n, f, pl, sl, list, c, b, t)
<1> SUFFICES ASSUME c # 1
             PROVE  \/ \E b \in 1 .. n : OfReturn(n, f, pl, sl, list, c, b)
                    \/ \E b \in 1 .. n : \E t \in 1 .. Len(f[b]) : OfEdge(n, f, pl, sl, list, c, b, t)
  OBVIOUS
<1>1. PICK b \in 1 .. n : \E t \in 1 .. Len(W[b]) : c = pl[b] + t
  BY DEF Fixed, Numbered
<1>2. PICK t \in 1 .. Len(W[b]) : c = pl[b] + t
  BY <1>1
<1>3. sl[c] = <<b, t>>
  BY <1>2 DEF Fixed, Numbered
<1>4. list[c] = W[b][t]
  BY <1>2 DEF Fixed, Numbered
<1>5. CASE f[b] = <<>>
  <2>1. Len(W[b]) = 1 /\ W[b][1] = <<b, 0>>
    BY <1>5, FunctionFacts
  <2>2. t = 1
    BY <2>1
  <2>3. OfReturn(n, f, pl, sl, list, c, b)
    BY <1>2, <1>3, <1>4, <1>5, <2>1, <2>2 DEF OfReturn
  <2> QED
    BY <2>3
<1>6. CASE f[b] # <<>>
  <2>1. t \in 1 .. Len(f[b])
    BY <1>6, FunctionFacts
  <2>2. f[b][t] \in 2 .. n /\ W[b][t] = <<b, f[b][t]>>
    BY <2>1, FunctionFacts
  <2>3. OfEdge(n, f, pl, sl, list, c, b, t)
    BY <1>2, <1>3, <1>4, <2>1, <2>2 DEF OfEdge
  <2> QED
    BY <2>1, <2>3
<1> QED
  BY <1>5, <1>6

\* Every counter is that of an edge between nodes.
LEMMA ListedAreNodes ==
  ASSUME NEW n, NEW f, NEW W, NEW pl, NEW N, NEW sl, NEW list, Profiled(n, f, W, pl, N, sl, list)
  PROVE  \A c \in DOMAIN EdgeOf : EdgeOf[c] \in Nodes \X Nodes
<1>0. Fixed(n, f, W, pl, N, sl, list) /\ EdgeOf = list /\ Blocks = 1 .. n
  BY DEF Profiled
<1>1. /\ Fixed(n, f, W, pl, N, sl, list) /\ EdgeOf = list /\ Blocks = 1 .. n
      /\ DOMAIN list = 1 .. N /\ list[1] = <<0, 1>> /\ n \in Nat \ {0}
  <2>1. DOMAIN list = 1 .. N /\ list[1] = <<0, 1>>
    BY <1>0 DEF Fixed, Numbered
  <2>2. n \in Nat \ {0}
    BY <1>0, FunctionFacts
  <2> QED
    BY <1>0, <2>1, <2>2
<1>2. PICK M : M = Nodes /\ 0 \in M /\ 1 \in M /\ (\A b \in 1 .. n : b \in M) /\ \A b \in 2 .. n : b \in M
  <2>1. 0 \in Nodes /\ 1 \in Nodes /\ \A b \in 1 .. n : b \in Nodes
    BY <1>1 DEF Nodes
  <2>2. \A b \in 2 .. n : b \in 1 .. n
    OBVIOUS
  <2> QED
    BY <2>1, <2>2
<1>3. ASSUME NEW c \in 1 .. N
      PROVE  list[c] \in M \X M
  <2>1. CASE c = 1
    <3>1. PICK z, o : z = 0 /\ o = 1 /\ z \in M /\ o \in M
      BY <1>2
    <3>2. list[c] = <<z, o>>
      BY <1>1, <2>1, <3>1
    <3> QED
      BY <3>1, <3>2
  <2>2. CASE \E b \in 1 .. n : OfReturn(n, f, pl, sl, list, c, b)
    <3>1. PICK b \in 1 .. n : OfReturn(n, f, pl, sl, list, c, b)
      BY <2>2
    <3>2. PICK z : z = 0 /\ z \in M
      BY <1>2
    <3>3. list[c] = <<b, z>>
      BY <3>1, <3>2 DEF OfReturn
    <3> QED
      BY <1>2, <3>2, <3>3
  <2>3. CASE \E b \in 1 .. n : \E t \in 1 .. Len(f[b]) : OfEdge(n, f, pl, sl, list, c, b, t)
    <3>1. PICK b \in 1 .. n : \E t \in 1 .. Len(f[b]) : OfEdge(n, f, pl, sl, list, c, b, t)
      BY <2>3
    <3>2. PICK t \in 1 .. Len(f[b]) : OfEdge(n, f, pl, sl, list, c, b, t)
      BY <3>1
    <3>3. PICK d : d = f[b][t] /\ d \in M
      BY <1>2, <3>2 DEF OfEdge
    <3>4. list[c] = <<b, d>>
      BY <3>2, <3>3 DEF OfEdge
    <3> QED
      BY <1>2, <3>3, <3>4
  <2> QED
    BY <1>1, <2>1, <2>2, <2>3, CounterKinds
<1> QED
  BY <1>1, <1>2, <1>3

\* So is every edge that an estimate knows.
LEMMA EstimatedAreNodes ==
  ASSUME function \in Functions, NEW es \in EstimatedEdges(function)
  PROVE  es \subseteq Nodes \X Nodes
<1>1. PICK f, D, M : f = function /\ D = DOMAIN f /\ M = D \cup {0}
  OBVIOUS
<1>2. Nodes = M
  BY <1>1 DEF Nodes, Blocks
<1>3. f \in [1 .. Len(f) -> Seq(2 .. Len(f))] /\ f # <<>> /\ D = 1 .. Len(f)
  BY <1>1, FunctionsAssumption DEF WellFormed
<1>4. 0 \in M /\ 1 \in M
  <2>1. f \in Seq(Seq(2 .. Len(f)))
    BY <1>3
  <2>2. 1 \in D
    BY <1>1, <1>3, <2>1
  <2> QED
    BY <1>1, <2>2
<1>5. ASSUME NEW b \in D, NEW d \in Range(EdgesOf(f, b))
      PROVE  d \in M \X M
  <2>1. CASE f[b] = <<>>
    <3>1. PICK z : z = 0 /\ z \in M
      BY <1>4
    <3>2. d = <<b, z>>
      BY <1>5, <2>1, <3>1 DEF EdgesOf, Range
    <3> QED
      BY <1>1, <3>1, <3>2
  <2>2. CASE f[b] # <<>>
    <3>1. PICK t \in DOMAIN f[b] : d = <<b, f[b][t]>>
      BY <1>5, <2>2 DEF EdgesOf, Range
    <3>2. PICK a, B : a = f[b] /\ B = 2 .. Len(f) /\ a \in Seq(B)
      BY <1>3
    <3>3. a[t] \in B
      <4>1. t \in 1 .. Len(a)
        BY <3>1, <3>2
      <4> QED
        BY <3>2, <4>1, ElementOfSeq
    <3>4. PICK x : x = f[b][t] /\ x \in M
      <4>1. \A x \in 2 .. Len(f) : x \in 1 .. Len(f)
        OBVIOUS
      <4> QED
        BY <1>1, <1>3, <3>2, <3>3, <4>1
    <3> QED
      BY <1>1, <3>1, <3>4
  <2> QED
    BY <2>1, <2>2
<1>6. <<0, 1>> \in M \X M
  <2>1. PICK z, o : z = 0 /\ o = 1 /\ z \in M /\ o \in M
    BY <1>4
  <2>2. <<z, o>> \in M \X M
    BY <2>1
  <2> QED
    BY <2>1, <2>2
<1>7. OwnEdges(f) \subseteq M \X M
  <2>1. OwnEdges(f) = {<<0, 1>>} \cup UNION {Range(EdgesOf(f, b)) : b \in D}
    BY <1>1 DEF OwnEdges
  <2>2. UNION {Range(EdgesOf(f, b)) : b \in D} \subseteq M \X M
    BY <1>5
  <2> QED
    BY <1>6, <2>1, <2>2
<1>8. ASSUME NEW z, z = 0, NEW b \in D
      PROVE  <<b, z>> \in M \X M /\ <<z, b>> \in M \X M
  BY <1>1, <1>4, <1>8
<1>9. ASSUME NEW e \in es
      PROVE  e \in M \X M
  <2>1. \/ \E latches \in SUBSET {b \in D : OnCycle(f, b)} :
             e \in OwnEdges(f) \cup {<<l, 0>> : l \in latches}
        \/ e \in OwnEdges(f) \cup {<<0, b>> : b \in {d \in D : PredsOf(f, d) = {}}}
        \/ \E b \in D : \E t \in SuccsOf(f, b) : e = <<t, b>>
    BY <1>1 DEF EstimatedEdges
  <2>2. PICK z : z = 0
    OBVIOUS
  <2>3. \/ e \in OwnEdges(f) \/ (\E b \in D : e = <<b, z>>) \/ (\E b \in D : e = <<z, b>>)
        \/ \E b \in D : \E t \in SuccsOf(f, b) : e = <<t, b>>
    BY <2>1, <2>2
  <2>4. ASSUME NEW b \in D, NEW t \in SuccsOf(f, b)
        PROVE  <<t, b>> \in M \X M
    <3>1. PICK a, B : a = f[b] /\ B = 2 .. Len(f) /\ a \in Seq(B)
      BY <1>3
    <3>2. PICK k \in 1 .. Len(a) : t = a[k]
      BY <2>4, <3>1 DEF SuccsOf, Range
    <3>3. t \in B
      BY <3>1, <3>2, ElementOfSeq
    <3>4. \A x \in 2 .. Len(f) : x \in 1 .. Len(f)
      OBVIOUS
    <3>5. t \in D
      BY <1>3, <3>1, <3>3, <3>4
    <3>6. t \in M /\ b \in M
      BY <1>1, <3>5
    <3> QED
      BY <3>6
  <2>5. CASE e \in OwnEdges(f)
    BY <1>7, <2>5
  <2>6. CASE \E b \in D : e = <<b, z>> \/ e = <<z, b>>
    <3>1. PICK b \in D : e = <<b, z>> \/ e = <<z, b>>
      BY <2>6
    <3>2. <<b, z>> \in M \X M /\ <<z, b>> \in M \X M
      BY <1>8, <2>2
    <3> QED
      BY <3>1, <3>2
  <2>7. CASE \E b \in D : \E t \in SuccsOf(f, b) : e = <<t, b>>
    <3>1. PICK b \in D : \E t \in SuccsOf(f, b) : e = <<t, b>>
      BY <2>7
    <3>2. PICK t \in SuccsOf(f, b) : e = <<t, b>>
      BY <3>1
    <3> QED
      BY <2>4, <3>2
  <2> QED
    BY <2>3, <2>5, <2>6, <2>7
<1> QED
  BY <1>2, <1>9

\* The edges of the passes and of the loader, and the blocks of its walk
EdgesTyped ==
  /\ MST \cup edges \subseteq Nodes \X Nodes
  /\ SpanningTree \cup DOMAIN weight \subseteq Nodes \X Nodes
  /\ stack \in Seq(Blocks) /\ BBisUnvisited \subseteq Nodes

LEMMA InitEdges == Init => EdgesTyped
<1> SUFFICES ASSUME Init PROVE EdgesTyped
  OBVIOUS
<1>1. /\ function \in Functions /\ edges \in EstimatedEdges(function)
      /\ MST = {} /\ SpanningTree = {} /\ weight = <<>> /\ stack = <<>> /\ BBisUnvisited = {}
  BY DEF Init
<1>2. edges \subseteq Nodes \X Nodes
  BY <1>1, EstimatedAreNodes
<1>3. DOMAIN weight = {}
  BY <1>1
<1>4. stack \in Seq(Blocks)
  BY <1>1
<1> QED
  BY <1>1, <1>2, <1>3, <1>4 DEF EdgesTyped

\* The edges into a block and out of it
LEMMA EndsAreNodes ==
  ASSUME function \in Functions, NEW b \in Blocks
  PROVE  InEdges(b) \cup OutEdges(b) \subseteq Nodes \X Nodes
<1>1. PICK z, D, M : z = 0 /\ D = Blocks /\ M = Nodes /\ M = D \cup {z}
  BY DEF Nodes
<1>2. ASSUME NEW p \in (IF PredsOf(function, b) = {} THEN {0} ELSE PredsOf(function, b))
      PROVE  <<p, b>> \in M \X M
  <2>1. p \in M
    BY <1>1, <1>2 DEF PredsOf, Blocks
  <2> QED
    BY <1>1, <2>1
<1>3. ASSUME NEW t \in (IF function[b] = <<>> THEN {0} ELSE SuccsOf(function, b))
      PROVE  <<b, t>> \in M \X M
  <2>1. CASE function[b] = <<>>
    <3>1. t = z
      BY <1>1, <1>3, <2>1
    <3> QED
      BY <1>1, <3>1
  <2>2. CASE function[b] # <<>>
    <3>1. PICK B, a : B = 2 .. Len(function) /\ a = function[b] /\ a \in Seq(B) /\ D = 1 .. Len(function)
      BY <1>1, FunctionsAssumption DEF WellFormed, Blocks
    <3>2. PICK u \in DOMAIN a : t = a[u]
      BY <1>3, <2>2, <3>1 DEF SuccsOf, Range
    <3>3. t \in B
      <4>1. u \in 1 .. Len(a)
        BY <3>1, <3>2
      <4> QED
        BY <3>1, <3>2, <4>1, ElementOfSeq
    <3>4. t \in D
      BY <3>1, <3>3
    <3> QED
      BY <1>1, <3>4
  <2> QED
    BY <2>1, <2>2
<1> QED
  BY <1>1, <1>2, <1>3 DEF InEdges, OutEdges

LEMMA EdgesStep ==
  ASSUME ShapeInv, EdgesTyped, [Next]_vars
  PROVE  EdgesTyped'
<1>1. function' = function
  BY DEF Next, Instrument, Execute, Rebuild, LookAtEdge, EndTree, InstrumentEntry, InstrumentReturn,
         InstrumentEdge, NextBlock, FinishInstrumentation, Call, Take, Return, Exit, Load, BeginRound,
         CalculateMissingEdge, EndRound, EndLoad, RecurseBasicBlock, vars
<1>2. Nodes' = Nodes /\ Blocks' = Blocks
  BY <1>1 DEF Nodes, Blocks
<1>3. function \in Functions /\ \A c \in DOMAIN EdgeOf : EdgeOf[c] \in Nodes \X Nodes
  BY ListedAreNodes DEF ShapeInv, Profiled
<1>4. CASE UNCHANGED <<treeVars, rebuildVars>>
  BY <1>2, <1>4 DEF EdgesTyped, treeVars, rebuildVars
<1>5. ASSUME NEW e \in edges, LookAtEdge(e) PROVE EdgesTyped'
  <2>1. edges' = edges \ {e} /\ MST' \subseteq MST \cup {e} /\ UNCHANGED rebuildVars
    BY <1>5 DEF LookAtEdge
  <2> QED
    BY <1>2, <2>1 DEF EdgesTyped, rebuildVars
<1>6. CASE Load
  <2>1. /\ MST' = MST /\ edges' = edges /\ stack' = stack /\ BBisUnvisited' = BBisUnvisited
        /\ DOMAIN weight' \subseteq {EdgeOf[c] : c \in DOMAIN EdgeOf}
        /\ SpanningTree' \subseteq {EdgeOf[c] : c \in DOMAIN EdgeOf}
    BY <1>6 DEF Load, treeVars
  <2> QED
    BY <1>2, <1>3, <2>1 DEF EdgesTyped
<1>7. CASE BeginRound
  <2>1. /\ MST' = MST /\ edges' = edges /\ stack' = stack /\ weight' = weight /\ SpanningTree' = SpanningTree
        /\ BBisUnvisited' = UNION {{e[1], e[2]} : e \in SpanningTree}
    BY <1>7 DEF BeginRound, treeVars
  <2>2. \A e \in SpanningTree : e[1] \in Nodes /\ e[2] \in Nodes
    BY DEF EdgesTyped
  <2> QED
    BY <1>2, <2>1, <2>2 DEF EdgesTyped
<1>8. CASE CalculateMissingEdge
  <2>1. /\ MST' = MST /\ edges' = edges /\ BBisUnvisited' = BBisUnvisited
        /\ stack # <<>> /\ stack' = Tail(stack) /\ SpanningTree' \subseteq SpanningTree
        /\ DOMAIN weight' \subseteq DOMAIN weight \cup InEdges(Head(stack)) \cup OutEdges(Head(stack))
    BY <1>8 DEF CalculateMissingEdge, treeVars
  <2>2. PICK B : B = Blocks /\ stack \in Seq(B)
    BY DEF EdgesTyped
  <2>3. Head(stack) \in B /\ Tail(stack) \in Seq(B)
    BY <2>1, <2>2
  <2>4. InEdges(Head(stack)) \cup OutEdges(Head(stack)) \subseteq Nodes \X Nodes
    BY <1>3, <2>2, <2>3, EndsAreNodes
  <2> QED
    BY <1>2, <2>1, <2>2, <2>3, <2>4 DEF EdgesTyped
<1>9. ASSUME NEW b \in BBisUnvisited, RecurseBasicBlock(b) PROVE EdgesTyped'
  <2>1. /\ MST' = MST /\ edges' = edges /\ weight' = weight /\ SpanningTree' = SpanningTree
        /\ BBisUnvisited' = BBisUnvisited \ {b}
        /\ stack' = IF b = 0 THEN stack ELSE <<b>> \o stack
    BY <1>9 DEF RecurseBasicBlock, Enter, treeVars
  <2>2. PICK B : B = Blocks /\ stack \in Seq(B)
    BY DEF EdgesTyped
  <2>3. stack' \in Seq(B)
    <3>1. CASE b = 0
      BY <2>1, <2>2, <3>1
    <3>2. CASE b # 0
      <4>1. b \in B
        BY <2>2, <3>2 DEF EdgesTyped, Nodes
      <4>2. <<b>> \o stack \in Seq(B)
        BY <2>2, <4>1
      <4> QED
        BY <2>1, <3>2, <4>2
    <3> QED
      BY <3>1, <3>2
  <2> QED
    BY <1>2, <2>1, <2>2, <2>3 DEF EdgesTyped
<1>10. CASE Instrument
  <2>1. (\E e \in edges : LookAtEdge(e)) \/ UNCHANGED <<treeVars, rebuildVars>>
    BY <1>10 DEF Instrument, EndTree, InstrumentEntry, InstrumentReturn, InstrumentEdge, NextBlock,
       FinishInstrumentation
  <2> QED
    BY <1>4, <1>5, <2>1
<1>11. CASE Execute
  <2>1. UNCHANGED <<treeVars, rebuildVars>>
    BY <1>11 DEF Execute, Call, Take, Return, Exit
  <2> QED
    BY <1>4, <2>1
<1>12. CASE Rebuild
  <2>1. EndRound \/ EndLoad => UNCHANGED <<treeVars, rebuildVars>>
    BY DEF EndRound, EndLoad
  <2> QED
    BY <1>4, <1>7, <1>8, <1>9, <1>12, <2>1 DEF Rebuild
<1>13. CASE UNCHANGED vars
  <2>1. UNCHANGED <<treeVars, rebuildVars>>
    BY <1>13 DEF vars
  <2> QED
    BY <1>4, <2>1
<1> QED
  BY <1>6, <1>10, <1>11, <1>12, <1>13 DEF Next

\* What the invariants say of the types
LEMMA ShapeTypes ==
  ASSUME ShapeInv, EdgesTyped
  PROVE  TypeOK
<1>1. PICK n, f, W, pl, N, sl, list : Profiled(n, f, W, pl, N, sl, list) /\ Shape(n, f, W, pl, N)
  BY DEF ShapeInv
<1>2. /\ Graph(n, f, pl) /\ Layout /\ Walk(n, W, pl, N) /\ RunTypes(N)
      /\ function \in Functions /\ NumEdges = N
  BY <1>1 DEF Shape, Profiled
<1>3. Range(layout) = DOMAIN succ
  <2>1. PICK D : D = DOMAIN succ /\ layout \in Seq(D)
    BY <1>2 DEF Layout
  <2>2. Range(layout) = {layout[k] : k \in 1 .. Len(layout)} /\ \A k \in 1 .. Len(layout) : layout[k] \in D
    BY <2>1, ElementOfSeq DEF Range
  <2>3. \A b \in D : \E k \in 1 .. Len(layout) : layout[k] = b
    BY <1>2, <2>1 DEF Layout
  <2> QED
    BY <2>1, <2>2, <2>3
<1>4. DOMAIN head = DOMAIN succ
  BY <1>2 DEF Graph
<1>5. counters \in [1 .. N -> 0 .. Uncounted] /\ at \in DOMAIN succ \cup {Idle}
  BY <1>2 DEF RunTypes
<1>6. /\ pc \in {"tree", "count", "run", "rebuild", "round", "done", "stuck"}
      /\ i \in 1 .. N + 1 /\ (pc \notin {"tree", "count"} => i = N + 1)
  BY <1>2 DEF Walk
<1> QED
  BY <1>2, <1>3, <1>4, <1>5, <1>6 DEF TypeOK, EdgesTyped

ShapeAlways == ShapeInv /\ EdgesTyped

THEOREM ShapeHolds == Spec => []ShapeAlways
<1>1. Init => ShapeAlways
  BY InitShape, InitEdges DEF ShapeAlways
<1>2. ShapeAlways /\ [Next]_vars => ShapeAlways'
  <2> SUFFICES ASSUME ShapeInv, EdgesTyped, [Next]_vars PROVE ShapeAlways'
    BY DEF ShapeAlways
  <2>1. PICK n, f, W, pl, N, sl, list : Profiled(n, f, W, pl, N, sl, list) /\ Shape(n, f, W, pl, N)
    BY DEF ShapeInv
  <2>2. Profiled(n, f, W, pl, N, sl, list)' /\ Shape(n, f, W, pl, N)'
    BY <2>1, ShapeStep
  <2>3. ShapeInv'
    BY <2>2 DEF ShapeInv
  <2> QED
    BY <2>3, EdgesStep DEF ShapeAlways
<1> QED
  BY <1>1, <1>2, PTL DEF Spec

\* The types hold in every state of the profiler, the program and the loader, and
\* every counter that was reserved is given to an edge, for every function and in
\* whatever order edges are split.
THEOREM TypeCorrect == Spec => []TypeOK
<1>1. ShapeAlways => TypeOK
  BY ShapeTypes DEF ShapeAlways
<1> QED
  BY <1>1, ShapeHolds, PTL

-----------------------------------------------------------------------------
(* Where the counters are *)

\* The block at whose start the counter of slot p is, in the blocks sc
Spot(f, sc, p) ==
  IF p[1] = 0 THEN 1 ELSE IF Len(f[p[1]]) > 1 THEN sc[p[1]][p[2]] ELSE p[1]

\* Nothing else leads where successor t of b does.
Sole(sc, b, t) ==
  \A c \in DOMAIN sc : \A u \in 1 .. Len(sc[c]) : sc[c][u] = sc[b][t] => c = b /\ u = t

\* The counters that were given to an edge outside of the tree are where they
\* belong, and there are no others.
Heads(f, N, sl, list) ==
  \A x \in DOMAIN head : \A c :
    c \in head[x] <=> c \in 1 .. N /\ c < i /\ list[c] \notin MST /\ Spot(f, succ, sl[c]) = x

\* A block with the counter of an edge is entered by that edge only.
Alone(n, f, pl) ==
  \A b \in 1 .. n : \A t \in 1 .. Len(f[b]) :
    Len(f[b]) > 1 /\ pl[b] + t < i /\ <<b, f[b][t]>> \notin MST => Sole(succ, b, t)

LEMMA WiredStays ==
  ASSUME NEW n, NEW f, NEW pl, NEW N, NEW sl, NEW list, Heads(f, N, sl, list), Alone(n, f, pl),
         UNCHANGED <<succ, head, i, MST>>
  PROVE  Heads(f, N, sl, list)' /\ Alone(n, f, pl)'
<1>1. Heads(f, N, sl, list)'
  BY DEF Heads
<1>2. Alone(n, f, pl)'
  BY DEF Alone
<1> QED
  BY <1>1, <1>2

\* Before the first counter
LEMMA WiredFirst ==
  ASSUME NEW n, NEW f, NEW W, NEW pl, NEW N, NEW sl, NEW list, Fixed(n, f, W, pl, N, sl, list),
         i = 1, \A x \in DOMAIN head : head[x] = {}
  PROVE  Heads(f, N, sl, list) /\ Alone(n, f, pl)
<1>1. N \in Nat
  BY FunctionFacts
<1>2. Heads(f, N, sl, list)
  BY <1>1 DEF Heads
<1>3. ASSUME NEW b \in 1 .. n, NEW t \in 1 .. Len(f[b]), pl[b] + t < i
      PROVE  FALSE
  <2>1. t \in 1 .. Len(W[b])
    BY FunctionFacts
  <2>2. PICK c : c = pl[b] + t
    OBVIOUS
  <2>3. c \in 1 .. N
    BY <2>1, <2>2, SlotCounter
  <2> QED
    BY <1>1, <1>3, <2>2, <2>3
<1> QED
  BY <1>2, <1>3 DEF Alone

\* The place of a counter is a block.
LEMMA SpotThere ==
  ASSUME NEW n, NEW f, NEW W, NEW pl, NEW N, NEW sl, NEW list, Fixed(n, f, W, pl, N, sl, list),
         Graph(n, f, pl), NEW c \in 1 .. N
  PROVE  Spot(f, succ, sl[c]) \in DOMAIN succ
<1>1. /\ n \in Nat \ {0} /\ \A b \in 1 .. n : b \in DOMAIN succ
  <2>1. n \in Nat \ {0}
    BY FunctionFacts
  <2>2. PICK m \in Nat : n <= m /\ DOMAIN succ = 1 .. m
    BY DEF Graph
  <2>3. \A b \in 1 .. n : b \in 1 .. m
    BY <2>1, <2>2
  <2> QED
    BY <2>1, <2>2, <2>3
<1>2. CASE c = 1
  <2>1. sl[c] = <<0, 1>>
    BY <1>2 DEF Fixed, Numbered
  <2>2. Spot(f, succ, sl[c]) = 1
    BY <2>1 DEF Spot
  <2> QED
    BY <1>1, <2>2
<1>3. CASE \E b \in 1 .. n : OfReturn(n, f, pl, sl, list, c, b)
  <2>1. PICK b \in 1 .. n : OfReturn(n, f, pl, sl, list, c, b)
    BY <1>3
  <2>2. sl[c] = <<b, 1>> /\ Len(f[b]) = 0 /\ b # 0
    BY <2>1, FunctionFacts DEF OfReturn
  <2>3. Spot(f, succ, sl[c]) = b
    BY <2>2 DEF Spot
  <2> QED
    BY <1>1, <2>3
<1>4. CASE \E b \in 1 .. n : \E t \in 1 .. Len(f[b]) : OfEdge(n, f, pl, sl, list, c, b, t)
  <2>1. PICK b \in 1 .. n : \E t \in 1 .. Len(f[b]) : OfEdge(n, f, pl, sl, list, c, b, t)
    BY <1>4
  <2>2. PICK t \in 1 .. Len(f[b]) : OfEdge(n, f, pl, sl, list, c, b, t)
    BY <2>1
  <2>3. sl[c] = <<b, t>> /\ b # 0
    BY <2>2 DEF OfEdge
  <2>4. Spot(f, succ, sl[c]) = IF Len(f[b]) > 1 THEN succ[b][t] ELSE b
    BY <2>3 DEF Spot
  <2>5. succ[b][t] \in DOMAIN succ
    <3>1. PICK a, D : a = succ[b] /\ D = DOMAIN succ /\ a \in Seq(D) /\ Len(a) = Len(f[b])
      BY <1>1 DEF Graph
    <3>2. t \in 1 .. Len(a)
      BY <3>1
    <3>3. a[t] \in D
      BY <3>1, <3>2, ElementOfSeq
    <3> QED
      BY <3>1, <3>3
  <2> QED
    BY <1>1, <2>4, <2>5
<1> QED
  BY <1>2, <1>3, <1>4, CounterKinds

\* The next counter gets to its place, and the others stay.
LEMMA HeadsCounted ==
  ASSUME NEW n, NEW f, NEW W, NEW pl, NEW N, NEW sl, NEW list, Fixed(n, f, W, pl, N, sl, list),
         Graph(n, f, pl), Heads(f, N, sl, list), i \in 1 .. N, i' = i + 1, MST' = MST,
         NEW e, e = list[i], NEW p, p = Spot(f, succ', sl[i]), InstrumentAt(e, p),
         \A c \in 1 .. N : c < i => Spot(f, succ', sl[c]) = Spot(f, succ, sl[c])
  PROVE  Heads(f, N, sl, list)'
<1>1. N \in Nat /\ DOMAIN head = DOMAIN succ
  BY FunctionFacts DEF Graph
<1>2. /\ DOMAIN head' = DOMAIN succ'
      /\ \A x \in DOMAIN head' :
           head'[x] = (IF x \in DOMAIN head THEN head[x] ELSE {})
                        \cup (IF x = p /\ e \notin MST THEN {i} ELSE {})
  BY DEF InstrumentAt
<1>3. \A x \in DOMAIN head : \A c :
        c \in head[x] <=> c \in 1 .. N /\ c < i /\ list[c] \notin MST /\ Spot(f, succ, sl[c]) = x
  BY DEF Heads
<1>4. \A c \in 1 .. N : Spot(f, succ, sl[c]) \in DOMAIN head
  BY <1>1, SpotThere
<1>5. \A c \in 1 .. N : c < i' <=> c < i \/ c = i
  BY <1>1
<1>6. ASSUME NEW x \in DOMAIN head', NEW c
      PROVE  c \in head'[x] <=> c \in 1 .. N /\ c < i' /\ list[c] \notin MST /\ Spot(f, succ', sl[c]) = x
  <2>1. CASE c \in 1 .. N /\ c < i
    <3>1. c # i
      BY <1>1, <2>1
    <3>2. c \in head'[x] <=> x \in DOMAIN head /\ c \in head[x]
      BY <1>2, <3>1
    <3>3. Spot(f, succ', sl[c]) = Spot(f, succ, sl[c]) /\ Spot(f, succ, sl[c]) \in DOMAIN head
      BY <1>4, <2>1
    <3>4. x \in DOMAIN head /\ c \in head[x] <=> list[c] \notin MST /\ Spot(f, succ, sl[c]) = x
      BY <1>3, <2>1, <3>3
    <3> QED
      BY <1>5, <2>1, <3>2, <3>3, <3>4
  <2>2. CASE c = i
    <3>1. x \in DOMAIN head => c \notin head[x]
      <4>1. ~(c < i)
        BY <1>1, <2>2
      <4> QED
        BY <1>3, <4>1
    <3>2. c \in head'[x] <=> x = p /\ e \notin MST
      BY <1>2, <2>2, <3>1
    <3> QED
      BY <1>5, <2>2, <3>2
  <2>3. CASE ~(c \in 1 .. N /\ c < i) /\ c # i
    <3>1. x \in DOMAIN head => c \notin head[x]
      BY <1>3, <2>3
    <3>2. c \notin head'[x]
      BY <1>2, <2>3, <3>1
    <3>3. ~(c \in 1 .. N /\ c < i')
      BY <1>5, <2>3
    <3> QED
      BY <3>2, <3>3
  <2> QED
    BY <2>1, <2>2, <2>3
<1> QED
  BY <1>6 DEF Heads

\* A set that is not larger than one element
LEMMA OnlyOne ==
  ASSUME NEW E, IsFiniteSet(E), ~(Cardinality(E) > 1), NEW y \in E, NEW z \in E
  PROVE  y = z
<1> SUFFICES ASSUME y # z PROVE FALSE
  OBVIOUS
<1>1. Cardinality(E) \in Nat
  BY FS_CardinalityType
<1>2. /\ IsFiniteSet(E \ {y}) /\ Cardinality(E \ {y}) = Cardinality(E) - 1
      /\ z \in E \ {y}
  BY FS_RemoveElement
<1>3. Cardinality(E \ {y}) = 0
  <2>1. Cardinality(E \ {y}) \in Nat
    BY <1>2, FS_CardinalityType
  <2> QED
    BY <1>1, <1>2, <2>1
<1> QED
  BY <1>2, <1>3, FS_EmptySet

\* An edge that is not critical, of a block with several
LEMMA NotCriticalSole ==
  ASSUME NEW n, NEW f, NEW pl, Graph(n, f, pl), NEW b \in DOMAIN succ, NEW t \in 1 .. Len(succ[b]),
         Len(succ[b]) > 1, ~IsCriticalEdge(b, t)
  PROVE  Sole(succ, b, t)
<1> SUFFICES ASSUME NEW c \in DOMAIN succ, NEW u \in 1 .. Len(succ[c]), succ[c][u] = succ[b][t]
             PROVE  c = b /\ u = t
  BY DEF Sole
<1>1. PICK m \in Nat : DOMAIN succ = 1 .. m
  BY DEF Graph
<1>2. PICK d, E : d = succ[b][t] /\ E = PredEdges(d)
  OBVIOUS
<1>3. ASSUME NEW a \in 1 .. m
      PROVE  Len(succ[a]) \in Nat /\ DOMAIN succ[a] = 1 .. Len(succ[a])
  <2>1. PICK B : succ[a] \in Seq(B)
    BY <1>1 DEF Graph
  <2> QED
    BY <2>1
<1>4. \A e : e \in E <=> \E a \in 1 .. m : \E x \in 1 .. Len(succ[a]) : succ[a][x] = d /\ e = <<a, x>>
  <2>1. E = UNION {{<<a, x>> : x \in {y \in DOMAIN succ[a] : succ[a][y] = d}} : a \in 1 .. m}
    BY <1>1, <1>2 DEF PredEdges
  <2>2. \A e : e \in E <=> \E a \in 1 .. m : e \in {<<a, x>> : x \in {y \in DOMAIN succ[a] : succ[a][y] = d}}
    BY <2>1
  <2>3. ASSUME NEW e \in E
        PROVE  \E a \in 1 .. m : \E x \in 1 .. Len(succ[a]) : succ[a][x] = d /\ e = <<a, x>>
    <3>1. PICK a \in 1 .. m : e \in {<<a, x>> : x \in {y \in DOMAIN succ[a] : succ[a][y] = d}}
      BY <2>2
    <3>2. PICK x \in 1 .. Len(succ[a]) : succ[a][x] = d /\ e = <<a, x>>
      BY <1>3, <3>1
    <3> QED
      BY <3>2
  <2>4. ASSUME NEW e, NEW a \in 1 .. m, NEW x \in 1 .. Len(succ[a]), succ[a][x] = d, e = <<a, x>>
        PROVE  e \in E
    <3>1. e \in {<<a, y>> : y \in {z \in DOMAIN succ[a] : succ[a][z] = d}}
      BY <1>3, <2>4
    <3> QED
      BY <2>2, <3>1
  <2> QED
    BY <2>3, <2>4
<1>5. <<b, t>> \in E /\ <<c, u>> \in E
  BY <1>1, <1>2, <1>4
<1>6. IsFiniteSet(E)
  <2>1. PICK L : L = [a \in 1 .. m |-> Len(succ[a])]
    OBVIOUS
  <2>2. \A a \in 1 .. m : L[a] \in Nat /\ DOMAIN succ[a] = 1 .. L[a]
    BY <1>3, <2>1
  <2>3. \A e \in E : \E a \in 1 .. m : \E x \in 1 .. L[a] : e = <<a, x>>
    BY <1>4, <2>1
  <2> QED
    BY <2>2, <2>3, PairsFinite
<1>7. ~(Cardinality(E) > 1)
  BY <1>2 DEF IsCriticalEdge
<1>8. <<b, t>> = <<c, u>>
  BY <1>5, <1>6, <1>7, OnlyOne
<1> QED
  BY <1>8

\* What is known before an edge gets its counter
Wiring(n, f, W, pl, N, sl, list) ==
  /\ Profiled(n, f, W, pl, N, sl, list) /\ Shape(n, f, W, pl, N)
  /\ Heads(f, N, sl, list) /\ Alone(n, f, pl)

\* The edges that have a counter already, when the next is that of no edge between blocks
LEMMA AloneCounted ==
  ASSUME NEW n, NEW f, NEW W, NEW pl, NEW N, NEW sl, NEW list, Fixed(n, f, W, pl, N, sl, list),
         Alone(n, f, pl), i \in 1 .. N, i' = i + 1, MST' = MST, succ' = succ,
         NEW b, NEW t, sl[i] = <<b, t>>,
         b \in 1 .. n /\ t \in 1 .. Len(f[b]) /\ Len(f[b]) > 1 /\ <<b, f[b][t]>> \notin MST => Sole(succ, b, t)
  PROVE  Alone(n, f, pl)'
<1>1. ASSUME NEW c \in 1 .. n, NEW u \in 1 .. Len(f[c]), Len(f[c]) > 1, pl[c] + u < i',
             <<c, f[c][u]>> \notin MST
      PROVE  Sole(succ, c, u)
  <2>1. N \in Nat /\ u \in 1 .. Len(W[c])
    BY FunctionFacts
  <2>2. PICK d : d = pl[c] + u
    OBVIOUS
  <2>3. d \in 1 .. N
    BY <2>1, <2>2, SlotCounter
  <2>4. sl[d] = <<c, u>>
    BY <2>1, <2>2 DEF Fixed, Numbered
  <2>5. d < i \/ d = i
    BY <1>1, <2>1, <2>2, <2>3
  <2>6. CASE d < i
    BY <1>1, <2>2, <2>6 DEF Alone
  <2>7. CASE d = i
    <3>1. c = b /\ u = t
      BY <2>4, <2>7
    <3> QED
      BY <1>1, <3>1
  <2> QED
    BY <2>5, <2>6, <2>7
<1> QED
  BY <1>1 DEF Alone

LEMMA EntryWired ==
  ASSUME NEW n, NEW f, NEW W, NEW pl, NEW N, NEW sl, NEW list,
         Wiring(n, f, W, pl, N, sl, list), InstrumentEntry
  PROVE  Heads(f, N, sl, list)' /\ Alone(n, f, pl)'
<1>1. /\ Fixed(n, f, W, pl, N, sl, list) /\ Graph(n, f, pl) /\ Walk(n, W, pl, N)
      /\ Heads(f, N, sl, list) /\ Alone(n, f, pl)
  BY DEF Wiring, Profiled, Shape
<1>2. PICK e : e = <<0, 1>>
  OBVIOUS
<1>3. pc = "count" /\ bi = 0 /\ InstrumentAt(e, 1) /\ succ' = succ /\ i' = i + 1 /\ MST' = MST
  BY <1>2 DEF InstrumentEntry, treeVars
<1>4. i = 1 /\ N \in Nat \ {0} /\ i \in 1 .. N
  <2>1. i = 1
    BY <1>1, <1>3 DEF Walk
  <2>2. N \in Nat \ {0}
    BY <1>1, FunctionFacts
  <2> QED
    BY <2>1, <2>2
<1>5. sl[i] = <<0, 1>> /\ list[i] = e
  BY <1>1, <1>2, <1>4 DEF Fixed, Numbered
<1>6. Spot(f, succ', sl[i]) = 1
  BY <1>5 DEF Spot
<1>7. Heads(f, N, sl, list)'
  <2>1. PICK p : p = 1
    OBVIOUS
  <2>2. p = Spot(f, succ', sl[i]) /\ e = list[i] /\ InstrumentAt(e, p)
    BY <1>3, <1>5, <1>6, <2>1
  <2>3. \A c \in 1 .. N : Spot(f, succ', sl[c]) = Spot(f, succ, sl[c])
    BY <1>3
  <2> QED
    BY <1>1, <1>3, <1>4, <2>2, <2>3, HeadsCounted
<1>8. Alone(n, f, pl)'
  <2>1. PICK z, o : z = 0 /\ o = 1 /\ sl[i] = <<z, o>> /\ z \notin 1 .. n
    BY <1>5
  <2> QED
    BY <1>1, <1>3, <1>4, <2>1, AloneCounted
<1> QED
  BY <1>7, <1>8

LEMMA ReturnWired ==
  ASSUME NEW n, NEW f, NEW W, NEW pl, NEW N, NEW sl, NEW list,
         Wiring(n, f, W, pl, N, sl, list), InstrumentReturn
  PROVE  Heads(f, N, sl, list)' /\ Alone(n, f, pl)'
<1>1. /\ Fixed(n, f, W, pl, N, sl, list) /\ Graph(n, f, pl) /\ function = f /\ Blocks = 1 .. n
      /\ Profiled(n, f, W, pl, N, sl, list) /\ Shape(n, f, W, pl, N)
      /\ Heads(f, N, sl, list) /\ Alone(n, f, pl)
  BY DEF Wiring, Profiled, Shape
<1>2. PICK e, b, t : b = BB /\ e = <<BB, 0>> /\ t = s
  OBVIOUS
<1>3. /\ Counting /\ BB \in Blocks /\ function[BB] = <<>> /\ s = 1
      /\ InstrumentAt(e, b) /\ succ' = succ /\ i' = i + 1 /\ MST' = MST
  BY <1>2 DEF InstrumentReturn, treeVars
<1>4. b \in 1 .. n /\ f[b] = <<>> /\ Len(f[b]) = 0 /\ Len(W[b]) = 1 /\ W[b][1] = <<b, 0>> /\ b # 0
  <2>1. b \in 1 .. n /\ f[b] = <<>>
    BY <1>1, <1>2, <1>3
  <2>2. Len(f[b]) = 0 /\ Len(W[b]) = 1 /\ W[b][1] = <<b, 0>>
    BY <1>1, <2>1, FunctionFacts
  <2> QED
    BY <2>1, <2>2
<1>5. OnSlot(n, W, pl, N, sl, list, b, t)
  <2>1. t <= Len(W[b])
    BY <1>2, <1>3, <1>4
  <2> QED
    BY <1>1, <1>2, <1>3, <2>1, SlotThere
<1>6. i \in 1 .. N /\ sl[i] = <<b, t>> /\ list[i] = e
  BY <1>2, <1>3, <1>4, <1>5 DEF OnSlot
<1>7. Spot(f, succ', sl[i]) = b
  BY <1>4, <1>6 DEF Spot
<1>8. Heads(f, N, sl, list)'
  <2>1. \A c \in 1 .. N : Spot(f, succ', sl[c]) = Spot(f, succ, sl[c])
    BY <1>3
  <2> QED
    BY <1>1, <1>3, <1>6, <1>7, <2>1, HeadsCounted
<1>9. Alone(n, f, pl)'
  <2>1. ~(Len(f[b]) > 1)
    BY <1>4
  <2> QED
    BY <1>1, <1>3, <1>6, <2>1, AloneCounted
<1> QED
  BY <1>8, <1>9

\* What an edge brings, split or not
LEMMA EdgeSlot ==
  ASSUME NEW n, NEW f, NEW W, NEW pl, NEW N, NEW sl, NEW list,
         Wiring(n, f, W, pl, N, sl, list), InstrumentEdge,
         NEW b, b = BB, NEW t, t = s, NEW e, e = <<BB, function[BB][s]>>,
         Len(succ'[b]) = Len(succ[b])
  PROVE  /\ b \in 1 .. n /\ b # 0 /\ t \in 1 .. Len(f[b]) /\ Len(succ[b]) = Len(f[b])
         /\ i \in 1 .. N /\ sl[i] = <<b, t>> /\ i = pl[b] + t /\ list[i] = e /\ e = <<b, f[b][t]>>
         /\ succ[b][t] = f[b][t] /\ f[b][t] \in 2 .. n
         /\ InstrumentAt(e, Spot(f, succ', sl[i])) /\ i' = i + 1 /\ MST' = MST
<1>1. Profiled(n, f, W, pl, N, sl, list) /\ Shape(n, f, W, pl, N) /\ function = f
  BY DEF Wiring, Profiled
<1>2. /\ OnSlot(n, W, pl, N, sl, list, b, t)
      /\ b \in 1 .. n /\ t \in 1 .. Len(f[b]) /\ Len(succ[b]) = Len(f[b])
      /\ succ[b][t] = f[b][t] /\ f[b][t] \in 2 .. n /\ list[i] = <<b, f[b][t]>>
  BY <1>1, EdgeFacts
<1>3. i \in 1 .. N /\ sl[i] = <<b, t>> /\ i = pl[b] + t
  BY <1>2 DEF OnSlot
<1>4. e = <<b, f[b][t]>>
  BY <1>1
<1>5. InstrumentAt(e, CounterPlace(b, t)) /\ i' = i + 1 /\ MST' = MST
  BY DEF InstrumentEdge, treeVars
<1>6. CounterPlace(b, t) = Spot(f, succ', sl[i])
  <2>1. PICK l : l = Len(f[b])
    OBVIOUS
  <2>2. l \in Nat /\ l # 0
    <3>1. l \in Nat
      BY <1>1, <1>2, <2>1, FunctionFacts DEF Profiled
    <3>2. t \in 1 .. l
      BY <1>2, <2>1
    <3> QED
      BY <3>1, <3>2
  <2>3. CounterPlace(b, t) = IF l = 1 THEN b ELSE succ'[b][t]
    BY <1>2, <2>1 DEF CounterPlace
  <2>4. Spot(f, succ', sl[i]) = IF l > 1 THEN succ'[b][t] ELSE b
    BY <1>2, <1>3, <2>1 DEF Spot
  <2> QED
    BY <2>2, <2>3, <2>4
<1> QED
  BY <1>2, <1>3, <1>4, <1>5, <1>6

LEMMA EdgeWired ==
  ASSUME NEW n, NEW f, NEW W, NEW pl, NEW N, NEW sl, NEW list,
         Wiring(n, f, W, pl, N, sl, list), InstrumentEdge, ~Splits
  PROVE  Heads(f, N, sl, list)' /\ Alone(n, f, pl)'
<1>1. /\ Fixed(n, f, W, pl, N, sl, list) /\ Graph(n, f, pl)
      /\ Heads(f, N, sl, list) /\ Alone(n, f, pl)
  BY DEF Wiring, Profiled, Shape
<1>2. PICK b, t, e : b = BB /\ t = s /\ e = <<BB, function[BB][s]>>
  OBVIOUS
<1>3. succ' = succ /\ (e \in MST \/ ~IsCriticalEdge(b, t))
  BY <1>2 DEF InstrumentEdge, Splits
<1>4. /\ b \in 1 .. n /\ t \in 1 .. Len(f[b]) /\ Len(succ[b]) = Len(f[b])
      /\ i \in 1 .. N /\ sl[i] = <<b, t>> /\ list[i] = e /\ e = <<b, f[b][t]>>
      /\ InstrumentAt(e, Spot(f, succ', sl[i])) /\ i' = i + 1 /\ MST' = MST
  <2>1. Len(succ'[b]) = Len(succ[b])
    BY <1>3
  <2> QED
    BY <1>2, <2>1, EdgeSlot
<1>5. Heads(f, N, sl, list)'
  <2>1. \A c \in 1 .. N : Spot(f, succ', sl[c]) = Spot(f, succ, sl[c])
    BY <1>3
  <2> QED
    BY <1>1, <1>4, <2>1, HeadsCounted
<1>6. Alone(n, f, pl)'
  <2>1. ASSUME Len(f[b]) > 1, <<b, f[b][t]>> \notin MST
        PROVE  Sole(succ, b, t)
    <3>1. PICK m \in Nat : n <= m /\ DOMAIN succ = 1 .. m
      BY <1>1 DEF Graph
    <3>2. n \in Nat
      BY <1>1, FunctionFacts
    <3>3. b \in DOMAIN succ
      BY <1>4, <3>1, <3>2
    <3> QED
      BY <1>1, <1>3, <1>4, <2>1, <3>3, NotCriticalSole
  <2> QED
    BY <1>1, <1>3, <1>4, <2>1, AloneCounted
<1> QED
  BY <1>5, <1>6

\* A split keeps edges that are the only ones to a block, and makes another.
LEMMA SoleSplit ==
  ASSUME NEW m, NEW g, NEW h, IsGraph(g, m), NEW b \in 1 .. m, NEW t \in 1 .. Len(g[b]),
         IsSplit(h, g, m, b, t)
  PROVE  /\ Sole(h, b, t)
         /\ \A c \in 1 .. m : \A u \in 1 .. Len(g[c]) :
              (c # b \/ u # t) /\ Sole(g, c, u) => Sole(h, c, u) /\ h[c][u] = g[c][u]
<1>1. m \in Nat /\ DOMAIN g = 1 .. m /\ \A c \in 1 .. m : g[c] \in Seq(1 .. m)
  BY DEF IsGraph
<1>2. /\ DOMAIN h = 1 .. m + 1 /\ h[m + 1] = <<g[b][t]>>
      /\ \A c \in 1 .. m : c # b => h[c] = g[c]
      /\ h[b][t] = m + 1 /\ Len(h[b]) = Len(g[b])
      /\ \A u \in 1 .. Len(g[b]) : u # t => h[b][u] = g[b][u]
  BY DEF IsSplit
<1>3. ASSUME NEW c \in 1 .. m, NEW u \in 1 .. Len(g[c])
      PROVE  g[c][u] \in 1 .. m /\ g[c][u] # m + 1
  <2>1. PICK a, A : a = g[c] /\ A = 1 .. m /\ a \in Seq(A) /\ u \in 1 .. Len(a)
    BY <1>1
  <2>2. a[u] \in A
    BY <2>1, ElementOfSeq
  <2>3. \A y \in 1 .. m : y # m + 1
    BY <1>1
  <2> QED
    BY <2>1, <2>2, <2>3
<1>4. ASSUME NEW c \in 1 .. m + 1, NEW u \in 1 .. Len(h[c])
      PROVE  \/ c = m + 1 /\ u = 1 /\ h[c][u] = g[b][t]
             \/ c = b /\ u = t /\ h[c][u] = m + 1
             \/ c \in 1 .. m /\ u \in 1 .. Len(g[c]) /\ (c # b \/ u # t) /\ h[c][u] = g[c][u]
  <2>1. CASE c = m + 1
    <3>1. PICK d : d = g[b][t] /\ h[c] = <<d>>
      BY <1>2, <2>1
    <3>2. Len(h[c]) = 1 /\ h[c][1] = d
      BY <3>1
    <3>3. u = 1
      BY <3>2
    <3> QED
      BY <2>1, <3>1, <3>2, <3>3
  <2>2. CASE c # m + 1
    <3>1. c \in 1 .. m
      BY <1>1, <2>2
    <3>2. u \in 1 .. Len(g[c])
      BY <1>2, <3>1
    <3> QED
      BY <1>2, <3>1, <3>2
  <2> QED
    BY <2>1, <2>2
<1>5. Sole(h, b, t)
  <2> SUFFICES ASSUME NEW c \in 1 .. m + 1, NEW u \in 1 .. Len(h[c]), h[c][u] = h[b][t]
               PROVE  c = b /\ u = t
    BY <1>2 DEF Sole
  <2>1. h[c][u] = m + 1
    BY <1>2
  <2>2. g[b][t] # m + 1
    BY <1>3
  <2> QED
    BY <1>3, <1>4, <2>1, <2>2
<1>6. ASSUME NEW c \in 1 .. m, NEW u \in 1 .. Len(g[c]), c # b \/ u # t
      PROVE  h[c][u] = g[c][u]
  BY <1>2, <1>6
<1>7. ASSUME NEW c \in 1 .. m, NEW u \in 1 .. Len(g[c]), c # b \/ u # t, Sole(g, c, u)
      PROVE  Sole(h, c, u)
  <2> SUFFICES ASSUME NEW d \in 1 .. m + 1, NEW v \in 1 .. Len(h[d]), h[d][v] = h[c][u]
               PROVE  d = c /\ v = u
    BY <1>2 DEF Sole
  <2>1. h[c][u] = g[c][u] /\ g[c][u] # m + 1
    BY <1>3, <1>6, <1>7
  <2>2. \A a \in 1 .. m : \A x \in 1 .. Len(g[a]) : g[a][x] = g[c][u] => a = c /\ x = u
    BY <1>1, <1>7 DEF Sole
  <2>3. g[b][t] # g[c][u]
    BY <1>7, <2>2
  <2> QED
    BY <1>4, <2>1, <2>2, <2>3
<1> QED
  BY <1>5, <1>6, <1>7

LEMMA SplitWired ==
  ASSUME NEW n, NEW f, NEW W, NEW pl, NEW N, NEW sl, NEW list,
         Wiring(n, f, W, pl, N, sl, list), InstrumentEdge, Splits
  PROVE  Heads(f, N, sl, list)' /\ Alone(n, f, pl)'
<1>1. /\ Fixed(n, f, W, pl, N, sl, list) /\ Graph(n, f, pl)
      /\ Profiled(n, f, W, pl, N, sl, list) /\ Shape(n, f, W, pl, N)
      /\ Heads(f, N, sl, list) /\ Alone(n, f, pl)
  BY DEF Wiring, Profiled, Shape
<1>2. PICK b, t, e : b = BB /\ t = s /\ e = <<BB, function[BB][s]>>
  OBVIOUS
<1>3. PICK m, x : SplitBlock(b, t, m, x)
  BY <1>1, <1>2, SplitStep
<1>4. IsGraph(succ, m) /\ IsSplit(succ', succ, m, b, t)
  BY <1>3 DEF SplitBlock
<1>5. /\ b \in 1 .. n /\ t \in 1 .. Len(f[b]) /\ Len(succ[b]) = Len(f[b])
      /\ i \in 1 .. N /\ sl[i] = <<b, t>> /\ i = pl[b] + t /\ list[i] = e /\ e = <<b, f[b][t]>>
      /\ InstrumentAt(e, Spot(f, succ', sl[i])) /\ i' = i + 1 /\ MST' = MST
  <2>1. Len(succ'[b]) = Len(succ[b])
    BY <1>4 DEF IsSplit
  <2> QED
    BY <1>2, <2>1, EdgeSlot
<1>6. /\ n \in Nat /\ N \in Nat /\ m \in Nat /\ n <= m /\ (\A c \in 1 .. n : c \in 1 .. m)
      /\ \A c \in 1 .. n : Len(succ[c]) = Len(f[c])
  <2>1. n \in Nat /\ N \in Nat
    BY <1>1, FunctionFacts
  <2>2. PICK k \in Nat : n <= k /\ Len(succ) = k
    BY <1>1 DEF Graph
  <2>3. m \in Nat /\ n <= m
    BY <1>4, <2>2 DEF IsGraph
  <2>4. \A c \in 1 .. n : c \in 1 .. m
    BY <2>1, <2>3
  <2> QED
    BY <1>1, <2>1, <2>3, <2>4 DEF Graph
<1>7. /\ Sole(succ', b, t)
      /\ \A c \in 1 .. m : \A u \in 1 .. Len(succ[c]) :
           (c # b \/ u # t) /\ Sole(succ, c, u) => Sole(succ', c, u) /\ succ'[c][u] = succ[c][u]
  <2>1. PICK g, h : g = succ /\ h = succ'
    OBVIOUS
  <2>2. b \in 1 .. m /\ t \in 1 .. Len(g[b]) /\ IsGraph(g, m) /\ IsSplit(h, g, m, b, t)
    BY <1>4, <1>5, <1>6, <2>1
  <2>3. Sole(h, b, t)
    BY <2>2, SoleSplit
  <2>4. \A c \in 1 .. m : \A u \in 1 .. Len(g[c]) :
          (c # b \/ u # t) /\ Sole(g, c, u) => Sole(h, c, u) /\ h[c][u] = g[c][u]
    BY <2>2, SoleSplit
  <2> QED
    BY <2>1, <2>3, <2>4
<1>8. ASSUME NEW c \in 1 .. n, NEW u \in 1 .. Len(f[c]), c # b \/ u # t
      PROVE  succ'[c][u] = succ[c][u]
  <2>1. c \in 1 .. m /\ u \in 1 .. Len(succ[c])
    BY <1>6
  <2> QED
    BY <1>4, <1>8, <2>1 DEF IsSplit
<1>9. Heads(f, N, sl, list)'
  <2>1. ASSUME NEW c \in 1 .. N, c < i
        PROVE  Spot(f, succ', sl[c]) = Spot(f, succ, sl[c])
    <3>1. CASE c = 1
      <4>1. sl[c] = <<0, 1>>
        BY <1>1, <3>1 DEF Fixed, Numbered
      <4> QED
        BY <4>1 DEF Spot
    <3>2. CASE \E d \in 1 .. n : OfReturn(n, f, pl, sl, list, c, d)
      <4>1. PICK d \in 1 .. n : OfReturn(n, f, pl, sl, list, c, d)
        BY <3>2
      <4>2. sl[c] = <<d, 1>> /\ Len(f[d]) = 0
        BY <1>1, <4>1, FunctionFacts DEF OfReturn
      <4> QED
        BY <4>2 DEF Spot
    <3>3. CASE \E d \in 1 .. n : \E u \in 1 .. Len(f[d]) : OfEdge(n, f, pl, sl, list, c, d, u)
      <4>1. PICK d \in 1 .. n : \E u \in 1 .. Len(f[d]) : OfEdge(n, f, pl, sl, list, c, d, u)
        BY <3>3
      <4>2. PICK u \in 1 .. Len(f[d]) : OfEdge(n, f, pl, sl, list, c, d, u)
        BY <4>1
      <4>3. sl[c] = <<d, u>> /\ c = pl[d] + u
        BY <4>2 DEF OfEdge
      <4>4. d # b \/ u # t
        <5> SUFFICES ASSUME d = b, u = t PROVE FALSE
          OBVIOUS
        <5>1. c = i
          BY <1>5, <4>3
        <5> QED
          BY <1>6, <2>1, <5>1
      <4>5. succ'[d][u] = succ[d][u]
        BY <1>8, <4>4
      <4> QED
        BY <4>3, <4>5 DEF Spot
    <3> QED
      BY <1>1, <3>1, <3>2, <3>3, CounterKinds
  <2> QED
    BY <1>1, <1>5, <2>1, HeadsCounted
<1>10. ASSUME NEW c \in 1 .. n, NEW u \in 1 .. Len(f[c]), Len(f[c]) > 1, pl[c] + u < i',
              <<c, f[c][u]>> \notin MST
       PROVE  Sole(succ', c, u)
  <2>1. CASE c = b /\ u = t
    BY <1>7, <2>1
  <2>2. CASE c # b \/ u # t
    <3>1. PICK d : d = pl[c] + u
      OBVIOUS
    <3>2. u \in 1 .. Len(W[c])
      BY <1>1, FunctionFacts
    <3>3. d \in 1 .. N
      BY <1>1, <3>1, <3>2, SlotCounter
    <3>4. sl[d] = <<c, u>>
      BY <1>1, <3>1, <3>2 DEF Fixed, Numbered
    <3>5. d # i
      BY <1>5, <2>2, <3>4
    <3>6. d < i
      BY <1>5, <1>6, <1>10, <3>1, <3>3, <3>5
    <3>7. Sole(succ, c, u)
      BY <1>1, <1>10, <3>1, <3>6 DEF Alone
    <3>8. c \in 1 .. m /\ u \in 1 .. Len(succ[c])
      BY <1>6
    <3> QED
      BY <1>7, <2>2, <3>7, <3>8
  <2> QED
    BY <2>1, <2>2
<1>11. Alone(n, f, pl)'
  BY <1>5, <1>10 DEF Alone
<1> QED
  BY <1>9, <1>11

\* Instrumentation keeps the counters where they belong.
LEMMA WiredStep ==
  ASSUME NEW n, NEW f, NEW W, NEW pl, NEW N, NEW sl, NEW list,
         Wiring(n, f, W, pl, N, sl, list), [Next]_vars
  PROVE  Heads(f, N, sl, list)' /\ Alone(n, f, pl)'
<1>1. /\ Fixed(n, f, W, pl, N, sl, list) /\ Walk(n, W, pl, N)
      /\ Heads(f, N, sl, list) /\ Alone(n, f, pl)
  BY DEF Wiring, Profiled, Shape
<1>2. CASE UNCHANGED <<succ, head, i, MST>>
  BY <1>1, <1>2, WiredStays
<1>3. ASSUME NEW e \in edges, LookAtEdge(e) PROVE Heads(f, N, sl, list)' /\ Alone(n, f, pl)'
  <2>1. pc = "tree" /\ UNCHANGED <<succ, head, i>>
    BY <1>3 DEF LookAtEdge, countVars
  <2>2. i = 1 /\ N \in Nat
    BY <1>1, <2>1, FunctionFacts DEF Walk
  <2>3. \A x \in DOMAIN head : head[x] = {}
    BY <1>1, <2>2 DEF Heads
  <2>4. ~(\E c \in 1 .. N : c < i')
    BY <2>1, <2>2
  <2>5. Heads(f, N, sl, list)'
    BY <2>1, <2>3, <2>4 DEF Heads
  <2>6. ASSUME NEW b \in 1 .. n, NEW t \in 1 .. Len(f[b]), pl[b] + t < i'
        PROVE  FALSE
    <3>1. t \in 1 .. Len(W[b])
      BY <1>1, FunctionFacts
    <3>2. PICK c : c = pl[b] + t
      OBVIOUS
    <3>3. c \in 1 .. N
      BY <1>1, <3>1, <3>2, SlotCounter
    <3> QED
      BY <2>4, <2>6, <3>2, <3>3
  <2>7. Alone(n, f, pl)'
    BY <2>6 DEF Alone
  <2> QED
    BY <2>5, <2>7
<1>4. CASE Instrument
  <2>1. EndTree \/ NextBlock \/ FinishInstrumentation => UNCHANGED <<succ, head, i, MST>>
    BY DEF EndTree, NextBlock, FinishInstrumentation, countVars, treeVars
  <2>2. CASE InstrumentEdge
    BY <2>2, EdgeWired, SplitWired
  <2>3. CASE InstrumentEntry
    BY <2>3, EntryWired
  <2>4. CASE InstrumentReturn
    BY <2>4, ReturnWired
  <2> QED
    BY <1>2, <1>3, <1>4, <2>1, <2>2, <2>3, <2>4 DEF Instrument
<1>5. CASE Execute \/ Load \/ Rebuild \/ UNCHANGED vars
  <2>1. UNCHANGED <<succ, head, i, MST>>
    BY <1>5 DEF Execute, Rebuild, Call, Take, Return, Exit, Load, BeginRound, CalculateMissingEdge,
       EndRound, EndLoad, RecurseBasicBlock, vars, countVars, treeVars
  <2> QED
    BY <1>2, <2>1
<1> QED
  BY <1>4, <1>5 DEF Next

-----------------------------------------------------------------------------
(* What the counters say *)

\* A block with one edge at most counts it when it is entered, before it is taken.
Early(f, p, a) == IF p[1] # 0 /\ a = p[1] /\ ~(Len(f[a]) > 1) THEN 1 ELSE 0

Counts(f, N, sl, list) ==
  /\ \A c \in 1 .. N : c < i /\ list[c] \in MST => counters[c] = Uncounted
  /\ ~lost => \A c \in 1 .. N : list[c] \notin MST \/ ~(c < i) =>
       counters[c] = (taken[c] + Early(f, sl[c], at)) % (Uncounted + 1)
  /\ pc \in {"tree", "count"} => ~lost /\ \A c \in 1 .. N : taken[c] = 0

LEMMA CountsStay ==
  ASSUME NEW f, NEW N, NEW sl, NEW list, Counts(f, N, sl, list),
         UNCHANGED <<i, counters, at, taken, lost>>,
         MST' = MST \/ \A c \in 1 .. N : ~(c < i),
         pc' \in {"tree", "count"} => pc \in {"tree", "count"}
  PROVE  Counts(f, N, sl, list)'
<1>1. CASE MST' = MST
  BY <1>1 DEF Counts
<1>2. CASE \A c \in 1 .. N : ~(c < i)
  BY <1>2 DEF Counts
<1> QED
  BY <1>1, <1>2

LEMMA CountsInit ==
  ASSUME Init, NEW f, NEW N, NEW sl, NEW list, NumEdges = N, N \in Nat
  PROVE  Counts(f, N, sl, list)
<1>1. /\ pc = "tree" /\ i = 1 /\ counters = [c \in 1 .. N |-> 0] /\ at = 0
      /\ taken = [c \in 1 .. N |-> 0] /\ ~lost
  BY DEF Init, Idle
<1>2. \A c \in 1 .. N : ~(c < i)
  BY <1>1
<1>3. \A c \in 1 .. N : Early(f, sl[c], at) = 0
  BY <1>1 DEF Early
<1>4. 0 = (0 + 0) % (Uncounted + 1)
  BY BoundsAssumption
<1> QED
  BY <1>1, <1>2, <1>3, <1>4 DEF Counts

\* The next counter starts.
LEMMA CountsStart ==
  ASSUME NEW f, NEW N \in Nat, NEW sl, NEW list, Counts(f, N, sl, list), RunTypes(N),
         i \in 1 .. N, i' = i + 1, InitCounter(list[i]), pc = "count", UNCHANGED <<pc, MST, at, taken, lost>>
  PROVE  Counts(f, N, sl, list)'
<1>1. at = 0 /\ ~lost /\ (\A c \in 1 .. N : taken[c] = 0) /\ DOMAIN counters = 1 .. N
  BY DEF Counts, RunTypes, Idle
<1>2. /\ counters'[i] = (IF list[i] \in MST THEN Uncounted ELSE 0)
      /\ \A c \in 1 .. N : c # i => counters'[c] = counters[c]
  BY <1>1 DEF InitCounter
<1>3. \A c \in 1 .. N : Early(f, sl[c], at) = 0
  BY <1>1 DEF Early
<1>4. 0 = (0 + 0) % (Uncounted + 1)
  BY BoundsAssumption
<1>5. ASSUME NEW c \in 1 .. N
      PROVE  /\ c < i' /\ list[c] \in MST => counters'[c] = Uncounted
             /\ list[c] \notin MST \/ ~(c < i') =>
                  counters'[c] = (taken[c] + Early(f, sl[c], at)) % (Uncounted + 1)
  <2>1. CASE c = i
    <3>1. c < i'
      BY <2>1
    <3> QED
      BY <1>1, <1>2, <1>3, <1>4, <2>1, <3>1
  <2>2. CASE c # i
    <3>1. counters'[c] = counters[c] /\ (c < i' <=> c < i)
      BY <1>2, <2>2
    <3>2. /\ c < i /\ list[c] \in MST => counters[c] = Uncounted
          /\ list[c] \notin MST \/ ~(c < i) =>
               counters[c] = (taken[c] + Early(f, sl[c], at)) % (Uncounted + 1)
      BY <1>1 DEF Counts
    <3> QED
      BY <3>1, <3>2
  <2> QED
    BY <2>1, <2>2
<1> QED
  BY <1>1, <1>5 DEF Counts

\* A block is entered: its counters go up.
LEMMA CountsBump ==
  ASSUME NEW f, NEW N \in Nat, NEW sl, NEW list, Counts(f, N, sl, list), RunTypes(N), Heads(f, N, sl, list),
         i = N + 1, NEW x \in DOMAIN head, Bump(head[x]), at' = x, pc = "run", UNCHANGED <<pc, i, MST, lost>>,
         ~lost => \A c \in 1 .. N : list[c] \notin MST =>
           taken'[c] + Early(f, sl[c], x)
             = taken[c] + Early(f, sl[c], at) + (IF Spot(f, succ, sl[c]) = x THEN 1 ELSE 0)
  PROVE  Counts(f, N, sl, list)'
<1>1. DOMAIN counters = 1 .. N /\ \A c \in 1 .. N : taken[c] \in Nat /\ c < i
  BY DEF RunTypes
<1>2. \A c \in 1 .. N :
        counters'[c] = IF c \in head[x] THEN (counters[c] + 1) % (Uncounted + 1) ELSE counters[c]
  BY <1>1 DEF Bump
<1>3. \A c \in 1 .. N : c \in head[x] <=> list[c] \notin MST /\ Spot(f, succ, sl[c]) = x
  BY <1>1 DEF Heads
<1>4. ASSUME NEW c \in 1 .. N, list[c] \in MST
      PROVE  counters'[c] = Uncounted
  BY <1>1, <1>2, <1>3, <1>4 DEF Counts
<1>5. ASSUME ~lost, NEW c \in 1 .. N, list[c] \notin MST
      PROVE  counters'[c] = (taken'[c] + Early(f, sl[c], x)) % (Uncounted + 1)
  <2>1. PICK y : y = taken[c] + Early(f, sl[c], at) /\ y \in Nat
    <3>1. taken[c] \in Nat /\ Early(f, sl[c], at) \in Nat
      BY <1>1 DEF Early
    <3> QED
      BY <3>1
  <2>2. counters[c] = y % (Uncounted + 1)
    BY <1>5, <2>1 DEF Counts
  <2>3. taken'[c] + Early(f, sl[c], x) = y + (IF Spot(f, succ, sl[c]) = x THEN 1 ELSE 0)
    BY <1>5, <2>1
  <2>4. CASE Spot(f, succ, sl[c]) = x
    <3>1. counters'[c] = (counters[c] + 1) % (Uncounted + 1)
      BY <1>2, <1>3, <1>5, <2>4
    <3>2. PICK M : M = Uncounted + 1 /\ M \in Nat \ {0}
      BY BoundsAssumption
    <3>3. ((y % M) + 1) % M = (y + 1) % M
      BY <2>1, <3>2, ModNext
    <3> QED
      BY <2>2, <2>3, <2>4, <3>1, <3>2, <3>3
  <2>5. CASE Spot(f, succ, sl[c]) # x
    <3>1. counters'[c] = counters[c]
      BY <1>2, <1>3, <2>5
    <3>2. taken'[c] + Early(f, sl[c], x) = y
      BY <2>1, <2>3, <2>5
    <3> QED
      BY <2>2, <3>1, <3>2
  <2> QED
    BY <2>4, <2>5
<1> QED
  BY <1>1, <1>4, <1>5 DEF Counts

-----------------------------------------------------------------------------
(* The steps of the program *)

\* The block of the function that the program is in, or on its way to
Pos(n) == IF at = Idle THEN 0 ELSE IF at \in 1 .. n THEN at ELSE succ[at][1]

\* Edge t of b, the block that the program is in, with counter c, is taken.
Takes(n, f, pl, N, sl, list, b, t, c) ==
  /\ b = at /\ b # 0 /\ b \in 1 .. n /\ t \in 1 .. Len(f[b]) /\ f[b][t] \in 2 .. n
  /\ c \in 1 .. N /\ c # 1 /\ sl[c] = <<b, t>> /\ list[c] = <<b, f[b][t]>> /\ c = pl[b] + t
  /\ at' = succ[b][t] /\ at' \in DOMAIN succ /\ taken' = [taken EXCEPT ![c] = @ + 1]
  /\ Pos(n) = b /\ Pos(n)' = f[b][t]

\* The program goes on from a new block.
Passes(n, t) ==
  /\ at \in DOMAIN succ /\ at # 0 /\ at \notin 1 .. n /\ t \in 1 .. Len(succ[at])
  /\ at' = succ[at][t] /\ at' \in 2 .. n /\ at' \in DOMAIN succ /\ taken' = taken
  /\ Pos(n)' = Pos(n)

LEMMA BlocksThere ==
  ASSUME NEW n, NEW f, NEW W, NEW pl, NEW N, NEW sl, NEW list, Fixed(n, f, W, pl, N, sl, list),
         Graph(n, f, pl)
  PROVE  /\ n \in Nat \ {0} /\ 0 \notin DOMAIN succ /\ 1 \in DOMAIN succ
         /\ \A b \in 1 .. n : b \in DOMAIN succ
         /\ \A b \in DOMAIN succ : DOMAIN succ[b] = 1 .. Len(succ[b]) /\ Len(succ[b]) \in Nat
         /\ \A b \in DOMAIN succ : \A t \in 1 .. Len(succ[b]) : succ[b][t] \in DOMAIN succ
<1>1. n \in Nat \ {0}
  BY FunctionFacts
<1>2. PICK m \in Nat : n <= m /\ DOMAIN succ = 1 .. m
  BY DEF Graph
<1>3. ASSUME NEW b \in DOMAIN succ
      PROVE  /\ DOMAIN succ[b] = 1 .. Len(succ[b]) /\ Len(succ[b]) \in Nat
             /\ \A t \in 1 .. Len(succ[b]) : succ[b][t] \in DOMAIN succ
  <2>1. PICK a, D : a = succ[b] /\ D = DOMAIN succ /\ a \in Seq(D)
    BY DEF Graph
  <2>2. \A t \in 1 .. Len(a) : a[t] \in D
    BY <2>1, ElementOfSeq
  <2>3. DOMAIN a = 1 .. Len(a) /\ Len(a) \in Nat
    BY <2>1
  <2> QED
    BY <2>1, <2>2, <2>3
<1>4. 0 \notin DOMAIN succ /\ 1 \in DOMAIN succ /\ \A b \in 1 .. n : b \in DOMAIN succ
  BY <1>1, <1>2
<1> QED
  BY <1>1, <1>3, <1>4

\* Where an edge of the function leads
LEMMA Leads ==
  ASSUME NEW n, NEW f, NEW W, NEW pl, NEW N, NEW sl, NEW list, Fixed(n, f, W, pl, N, sl, list),
         Graph(n, f, pl), NEW b \in 1 .. n, NEW t \in 1 .. Len(f[b])
  PROVE  /\ f[b][t] \in 2 .. n /\ succ[b][t] # 1 /\ succ[b][t] # 0 /\ succ[b][t] \in DOMAIN succ
         /\ succ[b][t] \in 1 .. n => succ[b][t] = f[b][t]
         /\ succ[b][t] \notin 1 .. n => succ[succ[b][t]] = <<f[b][t]>>
<1>1. f[b][t] \in 2 .. n
  BY FunctionFacts
<1>2. Len(succ[b]) = Len(f[b])
  BY DEF Graph
<1>3. /\ succ[b][t] \in 1 .. n => succ[b][t] = f[b][t]
      /\ succ[b][t] \notin 1 .. n => succ[succ[b][t]] = <<f[b][t]>>
  BY DEF Graph
<1>4. succ[b][t] \in DOMAIN succ /\ succ[b][t] # 0
  BY <1>2, BlocksThere
<1>5. succ[b][t] # 1
  <2>1. n \in Nat \ {0}
    BY FunctionFacts
  <2>2. 1 \in 1 .. n /\ f[b][t] # 1
    BY <1>1, <2>1
  <2> QED
    BY <1>3, <2>2
<1> QED
  BY <1>1, <1>3, <1>4, <1>5

LEMMA TakeFacts ==
  ASSUME NEW n, NEW f, NEW W, NEW pl, NEW N, NEW sl, NEW list,
         Wiring(n, f, W, pl, N, sl, list), NEW t, Take(t)
  PROVE  (\E b, c : Takes(n, f, pl, N, sl, list, b, t, c)) \/ Passes(n, t)
<1>1. /\ Profiled(n, f, W, pl, N, sl, list) /\ Fixed(n, f, W, pl, N, sl, list)
      /\ Graph(n, f, pl) /\ RunTypes(N) /\ Blocks = 1 .. n
      /\ \A b \in 1 .. n : \A u \in 1 .. Len(W[b]) : CounterOf(b, u) = pl[b] + u
  BY DEF Wiring, Profiled, Shape
<1>2. /\ at # Idle /\ t \in DOMAIN succ[at] /\ at' = succ[at][t] /\ succ' = succ
      /\ taken' = IF at \in Blocks THEN [taken EXCEPT ![CounterOf(at, t)] = @ + 1] ELSE taken
  BY DEF Take, countVars
<1>3. at \in DOMAIN succ /\ at # 0 /\ t \in 1 .. Len(succ[at]) /\ at' \in DOMAIN succ
  <2>1. at \in DOMAIN succ /\ at # 0
    BY <1>1, <1>2 DEF RunTypes, Idle
  <2> QED
    BY <1>1, <1>2, <2>1, BlocksThere
<1>4. CASE at \in 1 .. n
  <2>1. PICK b, c : b = at /\ c = CounterOf(b, t)
    OBVIOUS
  <2>2. b \in 1 .. n /\ Len(succ[b]) = Len(f[b]) /\ t \in 1 .. Len(f[b])
    BY <1>1, <1>3, <1>4, <2>1 DEF Graph
  <2>3. f[b][t] \in 2 .. n /\ t \in 1 .. Len(W[b]) /\ W[b][t] = <<b, f[b][t]>>
    BY <1>1, <2>2, FunctionFacts
  <2>4. c = pl[b] + t
    BY <1>1, <2>1, <2>2, <2>3
  <2>5. c \in 1 .. N /\ c # 1
    BY <1>1, <2>2, <2>3, <2>4, SlotCounter
  <2>6. sl[c] = <<b, t>> /\ list[c] = <<b, f[b][t]>>
    BY <1>1, <2>2, <2>3, <2>4 DEF Fixed, Numbered
  <2>7. Pos(n) = b
    BY <1>2, <1>4, <2>1 DEF Pos
  <2>8. Pos(n)' = f[b][t]
    <3>1. PICK d, e : d = succ[b][t] /\ e = f[b][t] /\ at' = d
      BY <1>2, <2>1
    <3>2. d # 0 /\ (d \in 1 .. n => d = e) /\ (d \notin 1 .. n => succ[d] = <<e>>)
      BY <1>1, <2>2, <3>1, Leads
    <3>3. d \notin 1 .. n => succ[d][1] = e
      BY <3>2
    <3>4. Pos(n)' = IF d \in 1 .. n THEN d ELSE succ[d][1]
      BY <1>2, <3>1, <3>2 DEF Pos, Idle
    <3> QED
      BY <3>1, <3>2, <3>3, <3>4
  <2>9. taken' = [taken EXCEPT ![c] = @ + 1]
    BY <1>1, <1>2, <1>4, <2>1
  <2>10. at' = succ[b][t]
    BY <1>2, <2>1
  <2>11. Takes(n, f, pl, N, sl, list, b, t, c)
    BY <1>3, <2>1, <2>2, <2>3, <2>4, <2>5, <2>6, <2>7, <2>8, <2>9, <2>10 DEF Takes
  <2> QED
    BY <2>11
<1>5. CASE at \notin 1 .. n
  <2>1. PICK b \in 1 .. n : \E u \in 1 .. Len(f[b]) : succ[b][u] = at
    BY <1>1, <1>3, <1>5 DEF Graph
  <2>2. PICK u \in 1 .. Len(f[b]) : succ[b][u] = at
    BY <2>1
  <2>3. PICK d : d = f[b][u]
    OBVIOUS
  <2>4. d \in 2 .. n /\ succ[at] = <<d>>
    BY <1>1, <1>5, <2>2, <2>3, Leads
  <2>5. t = 1 /\ at' = d
    <3>1. Len(succ[at]) = 1 /\ succ[at][1] = d
      BY <2>4
    <3>2. t \in 1 .. 1
      BY <1>3, <3>1
    <3> QED
      BY <1>2, <3>1, <3>2
  <2>6. d \in 1 .. n /\ d # 0
    BY <2>4
  <2>7. Pos(n) = d
    BY <1>2, <1>5, <2>4 DEF Pos
  <2>8. Pos(n)' = d
    BY <2>5, <2>6 DEF Pos, Idle
  <2>9. taken' = taken
    BY <1>1, <1>2, <1>5
  <2> QED
    BY <1>2, <1>3, <1>5, <2>4, <2>5, <2>7, <2>8, <2>9 DEF Passes
<1> QED
  BY <1>4, <1>5

\* How an increment shows
LEMMA TakenOne ==
  ASSUME NEW N, taken \in [1 .. N -> Nat], NEW c \in 1 .. N, taken' = [taken EXCEPT ![c] = @ + 1],
         NEW d \in 1 .. N
  PROVE  taken'[d] = taken[d] + (IF d = c THEN 1 ELSE 0) /\ taken[d] \in Nat
OBVIOUS

\* Entering a block, counters go up with the edges they are of.
LEMMA CallCounts ==
  ASSUME NEW n, NEW f, NEW W, NEW pl, NEW N, NEW sl, NEW list,
         Wiring(n, f, W, pl, N, sl, list), Counts(f, N, sl, list), Call
  PROVE  Counts(f, N, sl, list)'
<1>1. /\ Fixed(n, f, W, pl, N, sl, list) /\ Graph(n, f, pl) /\ RunTypes(N) /\ Walk(n, W, pl, N)
      /\ Heads(f, N, sl, list)
  BY DEF Wiring, Profiled, Shape
<1>2. PICK x : x = 1
  OBVIOUS
<1>3. /\ pc = "run" /\ at = 0 /\ at' = x /\ Bump(head[x]) /\ taken' = [taken EXCEPT ![1] = @ + 1]
      /\ UNCHANGED <<pc, i, MST, lost>>
  BY <1>2 DEF Call, Idle, countVars, treeVars
<1>4. N \in Nat /\ 1 \in 1 .. N /\ i = N + 1 /\ x \in DOMAIN head
  <2>1. N \in Nat \ {0}
    BY <1>1, FunctionFacts
  <2>2. x \in DOMAIN head
    <3>1. 1 \in DOMAIN succ
      BY <1>1, BlocksThere
    <3> QED
      BY <1>1, <1>2, <3>1 DEF Graph
  <2> QED
    BY <1>1, <1>3, <2>1, <2>2 DEF Walk
<1>5. ASSUME NEW c \in 1 .. N
      PROVE  taken'[c] + Early(f, sl[c], x)
               = taken[c] + Early(f, sl[c], at) + (IF Spot(f, succ, sl[c]) = x THEN 1 ELSE 0)
  <2>1. taken'[c] = taken[c] + (IF c = 1 THEN 1 ELSE 0) /\ taken[c] \in Nat
    BY <1>1, <1>3, <1>4, TakenOne DEF RunTypes
  <2>2. Early(f, sl[c], at) = 0
    BY <1>3 DEF Early
  <2>3. CASE c = 1
    <3>1. sl[c] = <<0, 1>>
      BY <1>1, <2>3 DEF Fixed, Numbered
    <3>2. Early(f, sl[c], x) = 0 /\ Spot(f, succ, sl[c]) = x
      BY <1>2, <3>1 DEF Early, Spot
    <3> QED
      BY <2>1, <2>2, <2>3, <3>2
  <2>4. ASSUME NEW b \in 1 .. n, OfReturn(n, f, pl, sl, list, c, b)
        PROVE  Early(f, sl[c], x) = (IF Spot(f, succ, sl[c]) = x THEN 1 ELSE 0) /\ c # 1
    <3>1. sl[c] = <<b, 1>> /\ Len(f[b]) = 0 /\ b # 0 /\ sl[1] = <<0, 1>>
      BY <1>1, <2>4, FunctionFacts DEF OfReturn, Fixed, Numbered
    <3> QED
      BY <3>1 DEF Early, Spot
  <2>5. ASSUME NEW b \in 1 .. n, NEW t \in 1 .. Len(f[b]), OfEdge(n, f, pl, sl, list, c, b, t)
        PROVE  Early(f, sl[c], x) = (IF Spot(f, succ, sl[c]) = x THEN 1 ELSE 0) /\ c # 1
    <3>1. sl[c] = <<b, t>> /\ b # 0
      BY <2>5 DEF OfEdge
    <3>2. sl[1] = <<0, 1>>
      BY <1>1 DEF Fixed, Numbered
    <3>3. succ[b][t] # x
      BY <1>1, <1>2, Leads
    <3>4. Early(f, sl[c], x) = IF x = b /\ ~(Len(f[b]) > 1) THEN 1 ELSE 0
      BY <3>1 DEF Early
    <3>5. Spot(f, succ, sl[c]) = IF Len(f[b]) > 1 THEN succ[b][t] ELSE b
      BY <3>1 DEF Spot
    <3> QED
      BY <3>1, <3>2, <3>3, <3>4, <3>5
  <2>6. CASE c # 1
    <3>1. Early(f, sl[c], x) = IF Spot(f, succ, sl[c]) = x THEN 1 ELSE 0
      BY <1>1, <2>4, <2>5, <2>6, CounterKinds
    <3> QED
      BY <2>1, <2>2, <2>6, <3>1
  <2> QED
    BY <2>3, <2>6
<1> QED
  BY <1>1, <1>3, <1>4, <1>5, CountsBump

LEMMA TakeCounts ==
  ASSUME NEW n, NEW f, NEW W, NEW pl, NEW N, NEW sl, NEW list,
         Wiring(n, f, W, pl, N, sl, list), Counts(f, N, sl, list), NEW t, Take(t)
  PROVE  Counts(f, N, sl, list)'
<1>1. /\ Fixed(n, f, W, pl, N, sl, list) /\ Graph(n, f, pl) /\ RunTypes(N) /\ Walk(n, W, pl, N)
      /\ Heads(f, N, sl, list) /\ Alone(n, f, pl)
  BY DEF Wiring, Profiled, Shape
<1>2. PICK x : x = at'
  OBVIOUS
<1>3. /\ pc = "run" /\ at # 0 /\ at' = x /\ Bump(head[x]) /\ at \in DOMAIN succ
      /\ t \in 1 .. Len(succ[at]) /\ x = succ[at][t]
      /\ UNCHANGED <<pc, i, MST, lost>>
  <2>1. /\ pc = "run" /\ at # 0 /\ at' = x /\ Bump(head[x]) /\ t \in DOMAIN succ[at] /\ x = succ[at][t]
        /\ UNCHANGED <<pc, i, MST, lost>>
    BY <1>2 DEF Take, Idle, countVars, treeVars
  <2>2. at \in DOMAIN succ
    BY <1>1, <2>1 DEF RunTypes, Idle
  <2> QED
    BY <1>1, <2>1, <2>2, BlocksThere
<1>4. N \in Nat /\ i = N + 1 /\ x \in DOMAIN head /\ x # 1
  <2>1. N \in Nat \ {0}
    BY <1>1, FunctionFacts
  <2>2. x \in DOMAIN head
    BY <1>1, <1>3, BlocksThere DEF Graph
  <2>3. x # 1
    <3>1. ASSUME NEW b, NEW c, Takes(n, f, pl, N, sl, list, b, t, c) PROVE x # 1
      <4>1. b \in 1 .. n /\ t \in 1 .. Len(f[b]) /\ x = succ[b][t]
        BY <1>2, <3>1 DEF Takes
      <4> QED
        BY <1>1, <4>1, Leads
    <3>2. CASE Passes(n, t)
      BY <1>2, <3>2 DEF Passes
    <3> QED
      BY <3>1, <3>2, TakeFacts
  <2> QED
    BY <1>1, <1>3, <2>1, <2>2, <2>3 DEF Walk
<1>5. \A c \in 1 .. N : taken[c] \in Nat
  BY <1>1 DEF RunTypes
<1>6. sl[1] = <<0, 1>>
  BY <1>1 DEF Fixed, Numbered
\* the edge that the program takes, if any
<1>7. ASSUME NEW c \in 1 .. N
      PROVE  taken'[c] = taken[c] + IF sl[c] = <<at, t>> /\ at \in 1 .. n THEN 1 ELSE 0
  <2>1. ASSUME NEW b, NEW d, Takes(n, f, pl, N, sl, list, b, t, d)
        PROVE  taken'[c] = taken[c] + IF sl[c] = <<at, t>> /\ at \in 1 .. n THEN 1 ELSE 0
    <3>1. /\ b = at /\ b \in 1 .. n /\ d \in 1 .. N /\ sl[d] = <<b, t>> /\ d = pl[b] + t /\ t \in 1 .. Len(f[b])
          /\ taken' = [taken EXCEPT ![d] = @ + 1] /\ b # 0
      BY <2>1 DEF Takes
    <3>2. taken'[c] = taken[c] + (IF c = d THEN 1 ELSE 0)
      BY <1>1, <3>1, TakenOne DEF RunTypes
    <3>3. ASSUME sl[c] = <<b, t>> PROVE c = d
      <4>1. c # 1
        BY <1>6, <3>1, <3>3
      <4>2. \/ \E a \in 1 .. n : OfReturn(n, f, pl, sl, list, c, a)
            \/ \E a \in 1 .. n : \E u \in 1 .. Len(f[a]) : OfEdge(n, f, pl, sl, list, c, a, u)
        BY <1>1, <4>1, CounterKinds
      <4>3. \/ \E a \in 1 .. n : c = pl[a] + 1 /\ sl[c] = <<a, 1>>
            \/ \E a \in 1 .. n : \E u \in 1 .. Len(f[a]) : c = pl[a] + u /\ sl[c] = <<a, u>>
        BY <4>2 DEF OfReturn, OfEdge
      <4> QED
        BY <3>1, <3>3, <4>3
    <3> QED
      BY <3>1, <3>2, <3>3
  <2>2. CASE Passes(n, t)
    BY <1>5, <2>2 DEF Passes
  <2> QED
    BY <2>1, <2>2, TakeFacts
<1>8. at \in 1 .. n => t \in 1 .. Len(f[at])
  BY <1>1, <1>3 DEF Graph
<1>9. ASSUME NEW c \in 1 .. N, list[c] \notin MST
      PROVE  taken'[c] + Early(f, sl[c], x)
               = taken[c] + Early(f, sl[c], at) + (IF Spot(f, succ, sl[c]) = x THEN 1 ELSE 0)
  <2>1. CASE c = 1
    <3>1. Early(f, sl[c], x) = 0 /\ Early(f, sl[c], at) = 0 /\ Spot(f, succ, sl[c]) = 1
      BY <1>6, <2>1 DEF Early, Spot
    <3>2. taken'[c] = taken[c] + 0
      BY <1>3, <1>6, <1>7, <2>1
    <3> QED
      BY <1>4, <1>5, <3>1, <3>2
  <2>2. CASE \E b \in 1 .. n : OfReturn(n, f, pl, sl, list, c, b)
    <3>1. PICK b \in 1 .. n : OfReturn(n, f, pl, sl, list, c, b)
      BY <2>2
    <3>2. sl[c] = <<b, 1>> /\ Len(f[b]) = 0 /\ b # 0
      BY <1>1, <3>1, FunctionFacts DEF OfReturn
    <3>3. at # b
      BY <1>8, <3>2
    <3>4. /\ Early(f, sl[c], x) = (IF x = b THEN 1 ELSE 0) /\ Early(f, sl[c], at) = 0
          /\ Spot(f, succ, sl[c]) = b
      BY <3>2, <3>3 DEF Early, Spot
    <3>5. taken'[c] = taken[c] + 0
      BY <1>7, <3>2, <3>3
    <3> QED
      BY <1>5, <3>4, <3>5
  <2>3. CASE \E b \in 1 .. n : \E u \in 1 .. Len(f[b]) : OfEdge(n, f, pl, sl, list, c, b, u)
    <3>1. PICK b \in 1 .. n : \E u \in 1 .. Len(f[b]) : OfEdge(n, f, pl, sl, list, c, b, u)
      BY <2>3
    <3>2. PICK u \in 1 .. Len(f[b]) : OfEdge(n, f, pl, sl, list, c, b, u)
      BY <3>1
    <3>3. sl[c] = <<b, u>> /\ b # 0 /\ c = pl[b] + u /\ list[c] = <<b, f[b][u]>>
      BY <3>2 DEF OfEdge
    <3>4. taken'[c] = taken[c] + IF b = at /\ u = t THEN 1 ELSE 0
      BY <1>7, <3>3
    <3>5. PICK l \in Nat : l = Len(f[b])
      BY <1>1, FunctionFacts
    <3>6. /\ Early(f, sl[c], x) = (IF x = b /\ ~(l > 1) THEN 1 ELSE 0)
          /\ Early(f, sl[c], at) = (IF at = b /\ ~(l > 1) THEN 1 ELSE 0)
          /\ Spot(f, succ, sl[c]) = (IF l > 1 THEN succ[b][u] ELSE b)
      BY <3>3, <3>5 DEF Early, Spot
    <3>7. CASE l > 1
      <4>1. c < i
        BY <1>4
      <4>2. Sole(succ, b, u)
        BY <1>1, <1>9, <3>3, <3>5, <3>7, <4>1 DEF Alone
      <4>3. x = succ[b][u] <=> b = at /\ u = t
        BY <1>3, <4>2 DEF Sole
      <4> QED
        BY <1>5, <3>4, <3>6, <3>7, <4>3
    <3>8. CASE ~(l > 1)
      <4>1. at = b => u = t
        <5> SUFFICES ASSUME at = b PROVE u = t
          OBVIOUS
        <5>1. u \in 1 .. l /\ t \in 1 .. l
          BY <1>8, <3>5
        <5> QED
          BY <3>8, <5>1
      <4> QED
        BY <1>5, <3>4, <3>6, <3>8, <4>1
    <3> QED
      BY <3>7, <3>8
  <2> QED
    BY <1>1, <2>1, <2>2, <2>3, CounterKinds
<1> QED
  BY <1>1, <1>3, <1>4, <1>9, CountsBump

\* Returning from b takes its counter, which went up when b was entered.
Returns(n, f, pl, N, sl, list, b, c) ==
  /\ b = at /\ b # 0 /\ b \in 1 .. n /\ f[b] = <<>> /\ Len(f[b]) = 0 /\ c \in 1 .. N /\ c # 1
  /\ sl[c] = <<b, 1>> /\ list[c] = <<b, 0>> /\ c = pl[b] + 1
  /\ at' = 0 /\ taken' = [taken EXCEPT ![c] = @ + 1] /\ Pos(n) = b /\ Pos(n)' = 0

LEMMA ReturnFacts ==
  ASSUME NEW n, NEW f, NEW W, NEW pl, NEW N, NEW sl, NEW list,
         Wiring(n, f, W, pl, N, sl, list), Return
  PROVE  \E b, c : Returns(n, f, pl, N, sl, list, b, c)
<1>1. /\ Fixed(n, f, W, pl, N, sl, list) /\ function = f /\ Blocks = 1 .. n
      /\ \A b \in 1 .. n : \A u \in 1 .. Len(W[b]) : CounterOf(b, u) = pl[b] + u
  BY DEF Wiring, Profiled
<1>2. /\ at \in Blocks /\ function[at] = <<>> /\ at' = Idle
      /\ taken' = [taken EXCEPT ![CounterOf(at, 1)] = @ + 1]
  BY DEF Return
<1>3. PICK b, t, c : b = at /\ t = 1 /\ c = CounterOf(b, t)
  OBVIOUS
<1>4. b \in 1 .. n /\ f[b] = <<>> /\ b # 0
  BY <1>1, <1>2, <1>3
<1>5. Len(f[b]) = 0 /\ Len(W[b]) = 1 /\ W[b][1] = <<b, 0>>
  BY <1>1, <1>4, FunctionFacts
<1>6. t \in 1 .. Len(W[b])
  BY <1>3, <1>5
<1>7. c = pl[b] + t
  BY <1>1, <1>3, <1>4, <1>6
<1>8. c \in 1 .. N /\ c # 1
  BY <1>1, <1>4, <1>6, <1>7, SlotCounter
<1>9. sl[c] = <<b, t>> /\ list[c] = W[b][t]
  BY <1>1, <1>4, <1>6, <1>7 DEF Fixed, Numbered
<1>10. Pos(n) = b /\ Pos(n)' = 0
  BY <1>2, <1>3, <1>4 DEF Pos, Idle
<1> QED
  BY <1>2, <1>3, <1>4, <1>5, <1>7, <1>8, <1>9, <1>10 DEF Returns, Idle

LEMMA ReturnCounts ==
  ASSUME NEW n, NEW f, NEW W, NEW pl, NEW N, NEW sl, NEW list,
         Wiring(n, f, W, pl, N, sl, list), Counts(f, N, sl, list), Return
  PROVE  Counts(f, N, sl, list)'
<1>1. Fixed(n, f, W, pl, N, sl, list) /\ RunTypes(N) /\ Walk(n, W, pl, N)
  BY DEF Wiring, Profiled, Shape
<1>2. PICK b, d : Returns(n, f, pl, N, sl, list, b, d)
  BY ReturnFacts
<1>3. /\ b = at /\ b # 0 /\ b \in 1 .. n /\ f[b] = <<>> /\ Len(f[b]) = 0 /\ d \in 1 .. N /\ d # 1
      /\ sl[d] = <<b, 1>> /\ d = pl[b] + 1
      /\ at' = 0 /\ taken' = [taken EXCEPT ![d] = @ + 1]
  BY <1>2 DEF Returns
<1>4. pc = "run" /\ UNCHANGED <<pc, i, MST, lost, counters>>
  BY DEF Return, countVars, treeVars
<1>5. \A c \in 1 .. N : c < i
  <2>1. N \in Nat /\ i = N + 1
    BY <1>1, <1>4, FunctionFacts DEF Walk
  <2> QED
    BY <2>1
<1>6. ASSUME NEW c \in 1 .. N
      PROVE  taken'[c] + Early(f, sl[c], 0) = taken[c] + Early(f, sl[c], at)
  <2>1. taken'[c] = taken[c] + (IF c = d THEN 1 ELSE 0) /\ taken[c] \in Nat
    BY <1>1, <1>3, TakenOne DEF RunTypes
  <2>2. Early(f, sl[c], 0) = 0
    BY DEF Early
  <2>3. CASE c = d
    <3>1. Early(f, sl[c], at) = 1
      BY <1>3, <2>3 DEF Early
    <3> QED
      BY <2>1, <2>2, <2>3, <3>1
  <2>4. CASE c # d
    <3>1. sl[c][1] # b
      <4>1. CASE c = 1
        <5>1. sl[c] = <<0, 1>>
          BY <1>1, <4>1 DEF Fixed, Numbered
        <5> QED
          BY <1>3, <5>1
      <4>2. CASE \E a \in 1 .. n : OfReturn(n, f, pl, sl, list, c, a)
        <5>1. PICK a \in 1 .. n : OfReturn(n, f, pl, sl, list, c, a)
          BY <4>2
        <5>2. c = pl[a] + 1 /\ sl[c] = <<a, 1>>
          BY <5>1 DEF OfReturn
        <5>3. a # b
          BY <1>3, <2>4, <5>2
        <5> QED
          BY <5>2, <5>3
      <4>3. CASE \E a \in 1 .. n : \E u \in 1 .. Len(f[a]) : OfEdge(n, f, pl, sl, list, c, a, u)
        <5>1. PICK a \in 1 .. n : \E u \in 1 .. Len(f[a]) : OfEdge(n, f, pl, sl, list, c, a, u)
          BY <4>3
        <5>2. PICK u \in 1 .. Len(f[a]) : OfEdge(n, f, pl, sl, list, c, a, u)
          BY <5>1
        <5>3. sl[c] = <<a, u>>
          BY <5>2 DEF OfEdge
        <5>4. a # b
          BY <1>3, <5>2
        <5> QED
          BY <5>3, <5>4
      <4> QED
        BY <1>1, <4>1, <4>2, <4>3, CounterKinds
    <3>2. Early(f, sl[c], at) = 0
      BY <1>3, <3>1 DEF Early
    <3> QED
      BY <2>1, <2>2, <2>4, <3>2
  <2> QED
    BY <2>3, <2>4
<1>7. ASSUME NEW c \in 1 .. N, list[c] \in MST
      PROVE  counters[c] = Uncounted
  BY <1>5, <1>7 DEF Counts
<1>8. ASSUME ~lost, NEW c \in 1 .. N, list[c] \notin MST
      PROVE  counters[c] = (taken'[c] + Early(f, sl[c], 0)) % (Uncounted + 1)
  BY <1>6, <1>8 DEF Counts
<1> QED
  BY <1>3, <1>4, <1>5, <1>7, <1>8 DEF Counts

LEMMA ExitCounts ==
  ASSUME NEW f, NEW N, NEW sl, NEW list, Counts(f, N, sl, list), Exit
  PROVE  Counts(f, N, sl, list)'
<1>1. pc = "run" /\ lost' /\ UNCHANGED <<pc, i, MST, counters>>
  BY DEF Exit, countVars, treeVars
<1> QED
  BY <1>1 DEF Counts

LEMMA CountsStep ==
  ASSUME NEW n, NEW f, NEW W, NEW pl, NEW N, NEW sl, NEW list,
         Wiring(n, f, W, pl, N, sl, list), Counts(f, N, sl, list), [Next]_vars
  PROVE  Counts(f, N, sl, list)'
<1>1. /\ Fixed(n, f, W, pl, N, sl, list) /\ Walk(n, W, pl, N) /\ RunTypes(N)
      /\ Profiled(n, f, W, pl, N, sl, list) /\ Shape(n, f, W, pl, N) /\ function = f /\ Blocks = 1 .. n
  BY DEF Wiring, Profiled, Shape
<1>2. N \in Nat \ {0}
  BY <1>1, FunctionFacts
<1>3. ASSUME NEW e \in edges, LookAtEdge(e) PROVE Counts(f, N, sl, list)'
  <2>1. pc = "tree" /\ pc' = pc /\ UNCHANGED <<i, counters, at, taken, lost>>
    BY <1>3 DEF LookAtEdge, countVars, runVars
  <2>2. \A c \in 1 .. N : ~(c < i)
    BY <1>1, <1>2, <2>1 DEF Walk
  <2> QED
    BY <2>1, <2>2, CountsStay
<1>4. CASE InstrumentEntry
  <2>1. PICK e : e = <<0, 1>>
    OBVIOUS
  <2>2. pc = "count" /\ bi = 0 /\ InitCounter(e) /\ i' = i + 1 /\ UNCHANGED <<pc, MST, at, taken, lost>>
    BY <1>4, <2>1 DEF InstrumentEntry, treeVars
  <2>3. i = 1 /\ i \in 1 .. N
    BY <1>1, <1>2, <2>2 DEF Walk
  <2>4. list[i] = e
    BY <1>1, <2>1, <2>3 DEF Fixed, Numbered
  <2> QED
    BY <1>1, <1>2, <2>2, <2>3, <2>4, CountsStart
<1>5. CASE InstrumentReturn
  <2>1. PICK b, t, e : b = BB /\ t = s /\ e = <<BB, 0>>
    OBVIOUS
  <2>2. /\ Counting /\ BB \in Blocks /\ function[BB] = <<>> /\ s = 1
        /\ pc = "count" /\ InitCounter(e) /\ i' = i + 1 /\ UNCHANGED <<pc, MST, at, taken, lost>>
    BY <1>5, <2>1 DEF InstrumentReturn, Counting, treeVars
  <2>3. b \in 1 .. n /\ Len(W[b]) = 1 /\ W[b][1] = <<b, 0>>
    <3>1. b \in 1 .. n /\ f[b] = <<>>
      BY <1>1, <2>1, <2>2
    <3> QED
      BY <1>1, <3>1, FunctionFacts
  <2>4. OnSlot(n, W, pl, N, sl, list, b, t)
    <3>1. t <= Len(W[b])
      BY <2>1, <2>2, <2>3
    <3> QED
      BY <1>1, <2>1, <2>2, <3>1, SlotThere
  <2>5. i \in 1 .. N /\ list[i] = e
    BY <2>1, <2>2, <2>3, <2>4 DEF OnSlot
  <2> QED
    BY <1>1, <1>2, <2>2, <2>5, CountsStart
<1>6. CASE InstrumentEdge
  <2>1. PICK b, t, e : b = BB /\ t = s /\ e = <<BB, function[BB][s]>>
    OBVIOUS
  <2>2. pc = "count" /\ InitCounter(e) /\ i' = i + 1 /\ UNCHANGED <<pc, MST, at, taken, lost>>
    BY <1>6, <2>1 DEF InstrumentEdge, Counting, treeVars
  <2>3. OnSlot(n, W, pl, N, sl, list, b, t) /\ list[i] = <<b, f[b][t]>>
    BY <1>1, <1>6, <2>1, EdgeFacts
  <2>4. i \in 1 .. N /\ list[i] = e
    BY <1>1, <2>1, <2>3 DEF OnSlot
  <2> QED
    BY <1>1, <1>2, <2>2, <2>4, CountsStart
<1>7. CASE EndTree \/ NextBlock \/ FinishInstrumentation
  <2>1. /\ UNCHANGED <<i, MST, counters, at, taken, lost>>
        /\ pc \in {"tree", "count"}
    BY <1>7 DEF EndTree, NextBlock, FinishInstrumentation, Counting, countVars, treeVars, runVars
  <2> QED
    BY <2>1, CountsStay
<1>8. CASE Execute
  BY <1>8, CallCounts, TakeCounts, ReturnCounts, ExitCounts DEF Execute
<1>9. CASE Load \/ Rebuild
  <2>1. UNCHANGED <<i, MST, counters, at, taken, lost>> /\ pc' \notin {"tree", "count"}
    BY <1>9 DEF Rebuild, Load, BeginRound, CalculateMissingEdge, EndRound, EndLoad, RecurseBasicBlock,
       countVars, treeVars, runVars
  <2> QED
    BY <2>1, CountsStay
<1>10. CASE UNCHANGED vars
  <2>1. UNCHANGED <<i, MST, counters, at, taken, lost, pc>>
    BY <1>10 DEF vars, countVars, treeVars, runVars
  <2> QED
    BY <2>1, CountsStay
<1> QED
  BY <1>3, <1>4, <1>5, <1>6, <1>7, <1>8, <1>9, <1>10 DEF Next, Instrument

-----------------------------------------------------------------------------
(* What flows into a block flows out of it *)

LEMMA UpToFinite ==
  ASSUME NEW N \in Nat, NEW S \in SUBSET (1 .. N)
  PROVE  IsFiniteSet(S)
<1>1. IsFiniteSet(1 .. N)
  BY FS_Interval
<1> QED
  BY <1>1, FS_Subset

\* h counts c once more than g.
OneMore(N, g, h, c) == g \in [1 .. N -> Nat] /\ c \in 1 .. N /\ h = [g EXCEPT ![c] = @ + 1]

LEMMA SumBump ==
  ASSUME NEW N \in Nat, NEW g, NEW h, NEW c, OneMore(N, g, h, c), NEW S \in SUBSET (1 .. N)
  PROVE  SumFunctionOnSet(h, S) = SumFunctionOnSet(g, S) + (IF c \in S THEN 1 ELSE 0)
<1>1. IsFiniteSet(1 .. N)
  BY FS_Interval
<1>2. IsFiniteSet(S) /\ IsFiniteSet(S \ {c})
  BY <1>1, FS_Subset
<1>3. h[c] = g[c] + 1 /\ g[c] \in Nat /\ \A d \in 1 .. N : g[d] \in Nat /\ h[d] \in Nat /\ (d # c => h[d] = g[d])
  BY DEF OneMore
<1>4. SumFunctionOnSet(h, S \ {c}) = SumFunctionOnSet(g, S \ {c})
  <2>1. \A y \in S \ {c} : g[y] \in Nat /\ h[y] = g[y]
    BY <1>3
  <2> QED
    BY <1>2, <2>1, SumSame
<1>5. CASE c \in S
  <2>1. PICK T : T = S \ {c}
    OBVIOUS
  <2>11. S = T \cup {c} /\ c \notin T /\ T \in SUBSET (1 .. N)
    BY <1>5, <2>1
  <2>2. SumFunctionOnSet(g, T \cup {c}) = g[c] + SumFunctionOnSet(g, T)
    <3>1. \A y \in T \cup {c} : g[y] \in Nat
      BY <1>3, <2>1, <2>11
    <3> QED
      BY <1>2, <2>1, <2>11, <3>1, SumAdd
  <2>3. SumFunctionOnSet(h, T \cup {c}) = h[c] + SumFunctionOnSet(h, T)
    <3>1. \A y \in T \cup {c} : h[y] \in Nat
      BY <1>3, <2>1
    <3> QED
      BY <1>2, <2>1, <2>11, <3>1, SumAdd
  <2>4. SumFunctionOnSet(g, T) \in Nat
    BY <1>2, <1>3, <2>1, <2>11, SumType
  <2>5. PICK k : k = SumFunctionOnSet(g, T) /\ k \in Nat
    BY <2>4
  <2>6. SumFunctionOnSet(h, S) = (g[c] + 1) + k /\ SumFunctionOnSet(g, S) = g[c] + k
    BY <1>3, <1>4, <2>1, <2>11, <2>2, <2>3, <2>5
  <2>7. (g[c] + 1) + k = (g[c] + k) + 1
    BY <1>3, <2>5
  <2> QED
    BY <1>5, <2>6, <2>7
<1>6. CASE c \notin S
  <2>1. S \ {c} = S
    BY <1>6
  <2>0. \A y \in S : g[y] \in Nat
    BY <1>3
  <2>2. SumFunctionOnSet(g, S) \in Nat
    BY <1>2, <2>0, SumType
  <2>3. SumFunctionOnSet(h, S) = SumFunctionOnSet(g, S)
    BY <1>4, <2>1
  <2> QED
    BY <1>6, <2>2, <2>3
<1> QED
  BY <1>5, <1>6

LEMMA SumZero ==
  ASSUME NEW S, IsFiniteSet(S), NEW g, \A x \in S : g[x] = 0
  PROVE  SumFunctionOnSet(g, S) = 0
<1>1. PICK C : C = {T \in SUBSET S : SumFunctionOnSet(g, T) = 0}
  OBVIOUS
<1>2. {} \in C
  BY <1>1, SumEmpty
<1>3. ASSUME NEW T \in SUBSET S, NEW x \in S \ T, T \in C
      PROVE  T \cup {x} \in C
  <2>1. IsFiniteSet(T) /\ x \notin T /\ \A y \in T \cup {x} : g[y] \in Nat
    BY FS_Subset
  <2>2. SumFunctionOnSet(g, T \cup {x}) = g[x] + SumFunctionOnSet(g, T)
    BY <2>1, SumAdd
  <2>3. g[x] = 0 /\ SumFunctionOnSet(g, T) = 0
    BY <1>1, <1>3
  <2>4. T \cup {x} \in SUBSET S
    OBVIOUS
  <2> QED
    BY <1>1, <2>2, <2>3, <2>4
<1>4. S \in C
  BY <1>2, <1>3, SetInd
<1> QED
  BY <1>1, <1>4

\* The counters of the edges into b and out of it
Into(N, list, b) == {c \in 1 .. N : list[c][2] = b}
OutOf(N, list, b) == {c \in 1 .. N : list[c][1] = b}

\* As long as no call is lost, the program left a block as often as it entered
\* it, or it is in the block.
Flow(n, N, list) ==
  ~lost => \A b \in 1 .. n :
    SumFunctionOnSet(taken, Into(N, list, b))
      = SumFunctionOnSet(taken, OutOf(N, list, b)) + (IF Pos(n) = b THEN 1 ELSE 0)

LEMMA FlowInit ==
  ASSUME Init, NEW n, NEW N, NEW list, NumEdges = N, N \in Nat
  PROVE  Flow(n, N, list)
<1>1. at = 0 /\ taken = [c \in 1 .. N |-> 0]
  BY DEF Init, Idle
<1>2. Pos(n) = 0 /\ \A b \in 1 .. n : b # 0
  BY <1>1 DEF Pos, Idle
<1>3. ASSUME NEW S \in SUBSET (1 .. N)
      PROVE  SumFunctionOnSet(taken, S) = 0
  <2>1. IsFiniteSet(1 .. N)
    BY FS_Interval
  <2>2. IsFiniteSet(S) /\ \A x \in S : taken[x] = 0
    BY <1>1, <2>1, FS_Subset
  <2> QED
    BY <2>2, SumZero
<1>4. \A b \in 1 .. n : Into(N, list, b) \in SUBSET (1 .. N) /\ OutOf(N, list, b) \in SUBSET (1 .. N)
  BY DEF Into, OutOf
<1> QED
  BY <1>2, <1>3, <1>4 DEF Flow

LEMMA FlowStays ==
  ASSUME NEW n, NEW N, NEW list, Flow(n, N, list), UNCHANGED <<taken, lost>>, Pos(n)' = Pos(n)
  PROVE  Flow(n, N, list)'
BY DEF Flow

\* The edge of counter c is taken.
LEMMA FlowMoves ==
  ASSUME NEW n, NEW N \in Nat, NEW list, Flow(n, N, list), taken \in [1 .. N -> Nat],
         NEW c \in 1 .. N, taken' = [taken EXCEPT ![c] = @ + 1],
         NEW p, NEW q, list[c] = <<p, q>>, Pos(n) = p, Pos(n)' = q, lost' = lost
  PROVE  Flow(n, N, list)'
<1> SUFFICES ASSUME ~lost, NEW b \in 1 .. n
             PROVE  SumFunctionOnSet(taken', Into(N, list, b))
                      = SumFunctionOnSet(taken', OutOf(N, list, b)) + (IF q = b THEN 1 ELSE 0)
  BY DEF Flow
<1>1. PICK I, O : I = Into(N, list, b) /\ O = OutOf(N, list, b)
  OBVIOUS
<1>2. /\ I \in SUBSET (1 .. N) /\ O \in SUBSET (1 .. N)
      /\ (c \in I <=> q = b) /\ (c \in O <=> p = b)
  BY <1>1 DEF Into, OutOf
<1>3. PICK g, h : g = taken /\ h = taken'
  OBVIOUS
<1>4. /\ SumFunctionOnSet(h, I) = SumFunctionOnSet(g, I) + (IF c \in I THEN 1 ELSE 0)
      /\ SumFunctionOnSet(h, O) = SumFunctionOnSet(g, O) + (IF c \in O THEN 1 ELSE 0)
  <2>1. OneMore(N, g, h, c)
    BY <1>3 DEF OneMore
  <2>2. SumFunctionOnSet(h, I) = SumFunctionOnSet(g, I) + (IF c \in I THEN 1 ELSE 0)
    BY <1>2, <2>1, SumBump
  <2>3. SumFunctionOnSet(h, O) = SumFunctionOnSet(g, O) + (IF c \in O THEN 1 ELSE 0)
    BY <1>2, <2>1, SumBump
  <2> QED
    BY <2>2, <2>3
<1>5. SumFunctionOnSet(g, I) = SumFunctionOnSet(g, O) + (IF p = b THEN 1 ELSE 0)
  BY <1>1, <1>3 DEF Flow
<1>6. PICK k : k = SumFunctionOnSet(g, O) /\ k \in Nat
  <2>2. IsFiniteSet(O)
    BY <1>2, UpToFinite
  <2>3. \A y \in O : g[y] \in Nat
    BY <1>2, <1>3
  <2>4. SumFunctionOnSet(g, O) \in Nat
    BY <2>2, <2>3, SumType
  <2> QED
    BY <2>4
<1>7. SumFunctionOnSet(h, I) = SumFunctionOnSet(h, O) + (IF q = b THEN 1 ELSE 0)
  BY <1>2, <1>4, <1>5, <1>6
<1> QED
  BY <1>1, <1>3, <1>7

LEMMA FlowStep ==
  ASSUME NEW n, NEW f, NEW W, NEW pl, NEW N, NEW sl, NEW list,
         Wiring(n, f, W, pl, N, sl, list), Flow(n, N, list), [Next]_vars
  PROVE  Flow(n, N, list)'
<1>1. Fixed(n, f, W, pl, N, sl, list) /\ RunTypes(N)
  BY DEF Wiring, Profiled, Shape
<1>2. N \in Nat /\ 1 \in 1 .. N /\ n \in Nat \ {0} /\ taken \in [1 .. N -> Nat]
  BY <1>1, FunctionFacts DEF RunTypes
<1>3. CASE UNCHANGED <<taken, lost, at>> /\ at = 0
  <2>1. Pos(n) = 0 /\ Pos(n)' = 0
    BY <1>3 DEF Pos, Idle
  <2> QED
    BY <1>3, <2>1, FlowStays
<1>4. CASE Instrument \/ Load \/ Rebuild
  <2>1. pc # "run" \/ at = Idle
    BY <1>4 DEF Rebuild, Load, BeginRound, CalculateMissingEdge, EndRound, EndLoad, RecurseBasicBlock,
       Instrument, LookAtEdge, EndTree, InstrumentEntry, InstrumentReturn, InstrumentEdge, NextBlock,
       FinishInstrumentation, Counting
  <2>2. at = 0
    BY <1>1, <2>1 DEF RunTypes, Idle
  <2>3. UNCHANGED <<taken, lost, at>>
    BY <1>4 DEF Rebuild, Load, BeginRound, CalculateMissingEdge, EndRound, EndLoad, RecurseBasicBlock,
       Instrument, LookAtEdge, EndTree, InstrumentEntry, InstrumentReturn, InstrumentEdge, NextBlock,
       FinishInstrumentation, runVars
  <2> QED
    BY <1>3, <2>2, <2>3
<1>5. CASE Call
  <2>1. at = 0 /\ at' = 1 /\ taken' = [taken EXCEPT ![1] = @ + 1] /\ lost' = lost
    BY <1>5 DEF Call, Idle
  <2>2. PICK p, q, c : p = 0 /\ q = 1 /\ c = 1
    OBVIOUS
  <2>3. Pos(n) = p /\ Pos(n)' = q
    BY <1>2, <2>1, <2>2 DEF Pos, Idle
  <2>4. list[c] = <<p, q>> /\ c \in 1 .. N
    BY <1>1, <1>2, <2>2 DEF Fixed, Numbered
  <2>5. taken' = [taken EXCEPT ![c] = @ + 1] /\ lost' = lost /\ taken \in [1 .. N -> Nat] /\ N \in Nat
    BY <1>2, <2>1, <2>2
  <2> QED
    BY <2>3, <2>4, <2>5, FlowMoves
<1>6. ASSUME NEW t, Take(t) PROVE Flow(n, N, list)'
  <2>1. lost' = lost
    BY <1>6 DEF Take
  <2>2. ASSUME NEW b, NEW c, Takes(n, f, pl, N, sl, list, b, t, c) PROVE Flow(n, N, list)'
    <3>1. PICK q : q = f[b][t]
      OBVIOUS
    <3>2. /\ c \in 1 .. N /\ list[c] = <<b, q>> /\ taken' = [taken EXCEPT ![c] = @ + 1]
          /\ Pos(n) = b /\ Pos(n)' = q
      BY <2>2, <3>1 DEF Takes
    <3> QED
      BY <1>2, <2>1, <3>2, FlowMoves
  <2>3. ASSUME Passes(n, t) PROVE Flow(n, N, list)'
    <3>1. taken' = taken /\ Pos(n)' = Pos(n)
      BY <2>3 DEF Passes
    <3> QED
      BY <2>1, <3>1, FlowStays
  <2> QED
    BY <1>6, <2>2, <2>3, TakeFacts
<1>7. CASE Return
  <2>1. lost' = lost
    BY <1>7 DEF Return
  <2>2. PICK b, c : Returns(n, f, pl, N, sl, list, b, c)
    BY <1>7, ReturnFacts
  <2>3. PICK q : q = 0
    OBVIOUS
  <2>4. /\ c \in 1 .. N /\ list[c] = <<b, q>> /\ taken' = [taken EXCEPT ![c] = @ + 1]
        /\ Pos(n) = b /\ Pos(n)' = q
    BY <2>2, <2>3 DEF Returns
  <2> QED
    BY <1>2, <2>1, <2>4, FlowMoves
<1>8. CASE Exit
  BY <1>8 DEF Exit, Flow
<1>9. CASE UNCHANGED vars
  <2>1. UNCHANGED <<taken, lost, at, succ>>
    BY <1>9 DEF vars, countVars, runVars
  <2>2. Pos(n)' = Pos(n)
    BY <2>1 DEF Pos
  <2> QED
    BY <2>1, <2>2, FlowStays
<1> QED
  BY <1>4, <1>5, <1>6, <1>7, <1>8, <1>9 DEF Next, Execute

-----------------------------------------------------------------------------
(* What was counted tells how often every edge was taken *)

LEMMA SumJoin ==
  ASSUME NEW A, IsFiniteSet(A), NEW B, IsFiniteSet(B), A \cap B = {},
         NEW g, \A y \in A \cup B : g[y] \in Nat
  PROVE  SumFunctionOnSet(g, A \cup B) = SumFunctionOnSet(g, A) + SumFunctionOnSet(g, B)
<1>1. PICK k : k = SumFunctionOnSet(g, A) /\ k \in Nat
  BY SumType
<1>2. PICK C : C = {T \in SUBSET B : /\ IsFiniteSet(A \cup T)
                                     /\ SumFunctionOnSet(g, A \cup T) = k + SumFunctionOnSet(g, T)}
  OBVIOUS
<1>3. {} \in C
  <2>1. A \cup {} = A
    OBVIOUS
  <2>2. SumFunctionOnSet(g, {}) = 0
    BY SumEmpty
  <2> QED
    BY <1>1, <1>2, <2>1, <2>2
<1>4. ASSUME NEW T \in SUBSET B, NEW x \in B \ T, T \in C
      PROVE  T \cup {x} \in C
  <2>1. PICK D : D = A \cup T
    OBVIOUS
  <2>2. /\ IsFiniteSet(T) /\ IsFiniteSet(D) /\ x \notin T /\ x \notin D
        /\ A \cup (T \cup {x}) = D \cup {x}
        /\ (\A y \in T \cup {x} : g[y] \in Nat) /\ \A y \in D \cup {x} : g[y] \in Nat
    <3>1. IsFiniteSet(T)
      BY FS_Subset
    <3> QED
      BY <1>2, <1>4, <2>1, <3>1
  <2>3. IsFiniteSet(D \cup {x})
    BY <2>2, FS_AddElement
  <2>4. SumFunctionOnSet(g, T \cup {x}) = g[x] + SumFunctionOnSet(g, T)
    BY <2>2, SumAdd
  <2>5. SumFunctionOnSet(g, D \cup {x}) = g[x] + SumFunctionOnSet(g, D)
    BY <2>2, SumAdd
  <2>6. PICK u, v : u = g[x] /\ v = SumFunctionOnSet(g, T) /\ u \in Nat /\ v \in Nat
    <3>1. \A y \in T : g[y] \in Nat
      BY <2>2
    <3>2. SumFunctionOnSet(g, T) \in Nat
      BY <2>2, <3>1, SumType
    <3> QED
      BY <2>2, <3>2
  <2>7. SumFunctionOnSet(g, D) = k + v
    BY <1>2, <1>4, <2>1, <2>6
  <2>8. u + (k + v) = k + (u + v)
    BY <1>1, <2>6
  <2>9. SumFunctionOnSet(g, A \cup (T \cup {x})) = k + SumFunctionOnSet(g, T \cup {x})
    BY <2>2, <2>4, <2>5, <2>6, <2>7, <2>8
  <2>10. IsFiniteSet(A \cup (T \cup {x})) /\ T \cup {x} \in SUBSET B
    BY <2>2, <2>3
  <2> QED
    BY <1>2, <2>9, <2>10
<1>5. B \in C
  BY <1>3, <1>4, SetInd
<1> QED
  BY <1>1, <1>2, <1>5

\* The counters of the edges in E
CountersOf(N, list, E) == {c \in 1 .. N : list[c] \in E}

\* How often each edge in E was taken
Tallied(tot, g, N, list, E) ==
  \A e \in E : tot[e] \in Nat /\ tot[e] = SumFunctionOnSet(g, CountersOf(N, list, {e}))

LEMMA SumGroups ==
  ASSUME NEW N \in Nat, NEW list, NEW g, \A c \in 1 .. N : g[c] \in Nat,
         NEW E, IsFiniteSet(E), NEW tot, Tallied(tot, g, N, list, E)
  PROVE  SumFunctionOnSet(tot, E) = SumFunctionOnSet(g, CountersOf(N, list, E))
<1>1. PICK C : C = {T \in SUBSET E :
                      SumFunctionOnSet(tot, T) = SumFunctionOnSet(g, CountersOf(N, list, T))}
  OBVIOUS
<1>2. {} \in C
  <2>1. CountersOf(N, list, {}) = {}
    BY DEF CountersOf
  <2>2. SumFunctionOnSet(tot, {}) = 0 /\ SumFunctionOnSet(g, {}) = 0
    BY SumEmpty
  <2> QED
    BY <1>1, <2>1, <2>2
<1>3. ASSUME NEW T \in SUBSET E, NEW x \in E \ T, T \in C
      PROVE  T \cup {x} \in C
  <2>1. PICK A, B : A = CountersOf(N, list, T) /\ B = CountersOf(N, list, {x})
    OBVIOUS
  <2>2. /\ A \in SUBSET (1 .. N) /\ B \in SUBSET (1 .. N) /\ A \cap B = {}
        /\ CountersOf(N, list, T \cup {x}) = A \cup B
    BY <1>3, <2>1 DEF CountersOf
  <2>3. IsFiniteSet(A) /\ IsFiniteSet(B) /\ \A y \in A \cup B : g[y] \in Nat
    <3>1. IsFiniteSet(1 .. N)
      BY FS_Interval
    <3> QED
      BY <2>2, <3>1, FS_Subset
  <2>4. SumFunctionOnSet(g, A \cup B) = SumFunctionOnSet(g, A) + SumFunctionOnSet(g, B)
    BY <2>2, <2>3, SumJoin
  <2>5. SumFunctionOnSet(tot, T \cup {x}) = tot[x] + SumFunctionOnSet(tot, T)
    <3>1. IsFiniteSet(T)
      BY FS_Subset
    <3>2. x \notin T /\ \A y \in T \cup {x} : tot[y] \in Nat
      BY <1>3 DEF Tallied
    <3> QED
      BY <3>1, <3>2, SumAdd
  <2>6. tot[x] = SumFunctionOnSet(g, B)
    BY <2>1 DEF Tallied
  <2>7. SumFunctionOnSet(tot, T) = SumFunctionOnSet(g, A)
    BY <1>1, <1>3, <2>1
  <2>8. SumFunctionOnSet(g, A) \in Nat /\ SumFunctionOnSet(g, B) \in Nat
    <3>1. (\A y \in A : g[y] \in Nat) /\ \A y \in B : g[y] \in Nat
      BY <2>3
    <3> QED
      BY <2>3, <3>1, SumType
  <2>9. SumFunctionOnSet(tot, T \cup {x}) = SumFunctionOnSet(g, CountersOf(N, list, T \cup {x}))
    <3>1. PICK u, v : u = SumFunctionOnSet(g, A) /\ v = SumFunctionOnSet(g, B) /\ u \in Nat /\ v \in Nat
      BY <2>8
    <3>2. v + u = u + v
      BY <3>1
    <3>3. SumFunctionOnSet(tot, T \cup {x}) = v + u
      BY <2>5, <2>6, <2>7, <3>1
    <3>4. SumFunctionOnSet(g, A \cup B) = u + v
      BY <2>4, <3>1
    <3>5. CountersOf(N, list, T \cup {x}) = A \cup B
      BY <2>2
    <3> QED
      BY <3>2, <3>3, <3>4, <3>5
  <2> QED
    BY <1>1, <2>9
<1>4. E \in C
  BY <1>2, <1>3, SetInd
<1> QED
  BY <1>1, <1>4

\* The edges that have a counter
Listed(N, list) == {list[c] : c \in 1 .. N}

\* The program came back, its counters can be told from "not counted", and
\* something leads to every block.
Sound(n, f, N, list) ==
  /\ ~lost
  /\ \A c \in 1 .. N : list[c] \in MST \/ taken[c] < Uncounted
  /\ \A b \in 2 .. n : \E p \in 1 .. n : \E t \in 1 .. Len(f[p]) : f[p][t] = b

\* The edges of a block, for the loader
LEMMA PredsThere ==
  ASSUME NEW n, NEW f, NEW W, NEW pl, NEW N, NEW sl, NEW list, Fixed(n, f, W, pl, N, sl, list), NEW b
  PROVE  PredsOf(f, b) = {p \in 1 .. n : \E t \in 1 .. Len(f[p]) : f[p][t] = b}
<1>1. DOMAIN f = 1 .. n /\ \A p \in 1 .. n : DOMAIN f[p] = 1 .. Len(f[p])
  BY FunctionFacts
<1> QED
  BY <1>1 DEF PredsOf, SuccsOf, Range

LEMMA SoundThere ==
  ASSUME NEW n, NEW f, NEW W, NEW pl, NEW N, NEW sl, NEW list, Profiled(n, f, W, pl, N, sl, list),
         RunTypes(N), ~lost, NoCounterSaturated, DeadRoots = {}
  PROVE  Sound(n, f, N, list)
<1>1. Fixed(n, f, W, pl, N, sl, list) /\ EdgeOf = list /\ Blocks = 1 .. n /\ function = f
  BY DEF Profiled
<1>2. \A c \in 1 .. N : list[c] \in MST \/ taken[c] < Uncounted
  <2>1. DOMAIN taken = 1 .. N /\ \A c \in 1 .. N : taken[c] \in Nat
    BY DEF RunTypes
  <2>2. \A c \in 1 .. N : list[c] \in MST \/ taken[c] + 0 < Uncounted
    BY <1>1, <2>1 DEF NoCounterSaturated
  <2> QED
    BY <2>1, <2>2
<1>3. ASSUME NEW b \in 2 .. n
      PROVE  \E p \in 1 .. n : \E t \in 1 .. Len(f[p]) : f[p][t] = b
  <2>1. n \in Nat
    BY <1>1, FunctionFacts
  <2>2. b \in 1 .. n /\ b # 1
    BY <2>1
  <2>3. b \in Blocks \ {1}
    BY <1>1, <2>2
  <2>4. PredsOf(f, b) # {}
    BY <1>1, <2>3 DEF DeadRoots
  <2> QED
    BY <1>1, <2>4, PredsThere
<1> QED
  BY <1>2, <1>3 DEF Sound

\* b is one of the function's blocks, and the loader is at it.
InOf(f, b)  == {<<p, b>> : p \in IF PredsOf(f, b) = {} THEN {0} ELSE PredsOf(f, b)}
OutOfBlock(f, b) == {<<b, t>> : t \in IF f[b] = <<>> THEN {0} ELSE SuccsOf(f, b)}

LEMMA InListed ==
  ASSUME NEW n, NEW f, NEW W, NEW pl, NEW N, NEW sl, NEW list, Fixed(n, f, W, pl, N, sl, list),
         Sound(n, f, N, list), NEW b \in 1 .. n
  PROVE  /\ InOf(f, b) \subseteq Listed(N, list)
         /\ CountersOf(N, list, InOf(f, b)) = Into(N, list, b)
<1>1. n \in Nat \ {0} /\ 1 \in 1 .. N /\ list[1] = <<0, 1>>
  <2>1. n \in Nat \ {0}
    BY FunctionFacts
  <2> QED
    BY <2>1 DEF Fixed, Numbered
<1>2. b # 0 /\ (b = 1 \/ b \in 2 .. n)
  BY <1>1
<1>3. PICK P : P = PredsOf(f, b) /\ P = {p \in 1 .. n : \E t \in 1 .. Len(f[p]) : f[p][t] = b}
  BY PredsThere
<1>4. (P = {}) <=> (b = 1)
  <2>1. \A p \in 1 .. n : \A t \in 1 .. Len(f[p]) : f[p][t] \in 2 .. n
    BY FunctionFacts
  <2>2. \A x \in 2 .. n : x # 1
    BY <1>1
  <2>3. b \in 2 .. n => P # {}
    BY <1>3 DEF Sound
  <2>4. b = 1 => P = {}
    BY <1>3, <2>1, <2>2
  <2>5. b \in 2 .. n => b # 1
    BY <2>2
  <2> QED
    BY <1>2, <2>3, <2>4, <2>5
<1>5. \A e \in InOf(f, b) : e[2] = b
  BY DEF InOf
<1>6. ASSUME NEW p \in 1 .. n, NEW t \in 1 .. Len(f[p])
      PROVE  \E c \in 1 .. N : list[c] = <<p, f[p][t]>>
  <2>1. t \in 1 .. Len(W[p]) /\ W[p][t] = <<p, f[p][t]>>
    BY FunctionFacts
  <2>2. PICK c : c = pl[p] + t
    OBVIOUS
  <2>3. c \in 1 .. N /\ list[c] = W[p][t]
    BY <2>1, <2>2, SlotCounter
  <2> QED
    BY <2>1, <2>3
<1>7. InOf(f, b) \subseteq Listed(N, list)
  <2>1. CASE P = {}
    <3>1. InOf(f, b) = {<<0, 1>>}
      BY <1>3, <1>4, <2>1 DEF InOf
    <3> QED
      BY <1>1, <3>1 DEF Listed
  <2>2. CASE P # {}
    <3>1. InOf(f, b) = {<<p, b>> : p \in P}
      BY <1>3, <2>2 DEF InOf
    <3>2. ASSUME NEW p \in P PROVE <<p, b>> \in Listed(N, list)
      <4>1. p \in 1 .. n /\ \E t \in 1 .. Len(f[p]) : f[p][t] = b
        BY <1>3
      <4>2. \E c \in 1 .. N : list[c] = <<p, b>>
        BY <1>6, <4>1
      <4> QED
        BY <4>2 DEF Listed
    <3> QED
      BY <3>1, <3>2
  <2> QED
    BY <2>1, <2>2
<1>8. ASSUME NEW c \in 1 .. N, list[c][2] = b
      PROVE  list[c] \in InOf(f, b)
  <2>1. CASE c = 1
    <3>1. list[c] = <<0, 1>> /\ b = 1
      BY <1>1, <1>8, <2>1
    <3>2. P = {}
      BY <1>4, <3>1
    <3> QED
      BY <1>3, <3>1, <3>2 DEF InOf
  <2>2. CASE \E x \in 1 .. n : OfReturn(n, f, pl, sl, list, c, x)
    BY <1>2, <1>8, <2>2 DEF OfReturn
  <2>3. CASE \E x \in 1 .. n : \E t \in 1 .. Len(f[x]) : OfEdge(n, f, pl, sl, list, c, x, t)
    <3>1. PICK x \in 1 .. n : \E t \in 1 .. Len(f[x]) : OfEdge(n, f, pl, sl, list, c, x, t)
      BY <2>3
    <3>2. PICK t \in 1 .. Len(f[x]) : OfEdge(n, f, pl, sl, list, c, x, t)
      BY <3>1
    <3>3. list[c] = <<x, b>> /\ f[x][t] = b
      BY <1>8, <3>2 DEF OfEdge
    <3>4. x \in P
      BY <1>3, <3>2, <3>3
    <3> QED
      BY <1>3, <3>3, <3>4 DEF InOf
  <2> QED
    BY <2>1, <2>2, <2>3, CounterKinds
<1> QED
  BY <1>5, <1>7, <1>8 DEF CountersOf, Into

LEMMA OutListed ==
  ASSUME NEW n, NEW f, NEW W, NEW pl, NEW N, NEW sl, NEW list, Fixed(n, f, W, pl, N, sl, list),
         NEW b \in 1 .. n
  PROVE  /\ OutOfBlock(f, b) \subseteq Listed(N, list)
         /\ CountersOf(N, list, OutOfBlock(f, b)) = OutOf(N, list, b)
<1>1. n \in Nat \ {0} /\ 1 \in 1 .. N /\ list[1] = <<0, 1>>
  <2>1. n \in Nat \ {0}
    BY FunctionFacts
  <2> QED
    BY <2>1 DEF Fixed, Numbered
<1>2. b # 0
  BY <1>1
<1>3. \A x \in 1 .. n : SuccsOf(f, x) = {f[x][t] : t \in 1 .. Len(f[x])}
  <2>1. \A x \in 1 .. n : DOMAIN f[x] = 1 .. Len(f[x])
    BY FunctionFacts
  <2> QED
    BY <2>1 DEF SuccsOf, Range
<1>4. \A e \in OutOfBlock(f, b) : e[1] = b
  BY DEF OutOfBlock
<1>5. OutOfBlock(f, b) \subseteq Listed(N, list)
  <2>1. CASE f[b] = <<>>
    <3>1. OutOfBlock(f, b) = {<<b, 0>>}
      BY <2>1 DEF OutOfBlock
    <3>2. Len(W[b]) = 1 /\ W[b][1] = <<b, 0>>
      BY <2>1, FunctionFacts
    <3>3. PICK t : t = 1
      OBVIOUS
    <3>4. t \in 1 .. Len(W[b]) /\ W[b][t] = <<b, 0>>
      BY <3>2, <3>3
    <3>5. PICK c : c = pl[b] + t
      OBVIOUS
    <3>6. c \in 1 .. N /\ list[c] = W[b][t]
      BY <3>4, <3>5, SlotCounter
    <3> QED
      BY <3>1, <3>4, <3>6 DEF Listed
  <2>2. CASE f[b] # <<>>
    <3>1. OutOfBlock(f, b) = {<<b, f[b][t]>> : t \in 1 .. Len(f[b])}
      BY <1>3, <2>2 DEF OutOfBlock
    <3>2. ASSUME NEW t \in 1 .. Len(f[b]) PROVE <<b, f[b][t]>> \in Listed(N, list)
      <4>1. t \in 1 .. Len(W[b]) /\ W[b][t] = <<b, f[b][t]>>
        BY FunctionFacts
      <4>2. PICK c : c = pl[b] + t
        OBVIOUS
      <4>3. c \in 1 .. N /\ list[c] = W[b][t]
        BY <4>1, <4>2, SlotCounter
      <4> QED
        BY <4>1, <4>3 DEF Listed
    <3> QED
      BY <3>1, <3>2
  <2> QED
    BY <2>1, <2>2
<1>6. ASSUME NEW c \in 1 .. N, list[c][1] = b
      PROVE  list[c] \in OutOfBlock(f, b)
  <2>1. CASE c = 1
    BY <1>1, <1>2, <1>6, <2>1
  <2>2. CASE \E x \in 1 .. n : OfReturn(n, f, pl, sl, list, c, x)
    <3>1. f[b] = <<>> /\ list[c] = <<b, 0>>
      BY <1>6, <2>2 DEF OfReturn
    <3> QED
      BY <3>1 DEF OutOfBlock
  <2>3. CASE \E x \in 1 .. n : \E t \in 1 .. Len(f[x]) : OfEdge(n, f, pl, sl, list, c, x, t)
    <3>1. PICK x \in 1 .. n : \E t \in 1 .. Len(f[x]) : OfEdge(n, f, pl, sl, list, c, x, t)
      BY <2>3
    <3>2. PICK t \in 1 .. Len(f[x]) : OfEdge(n, f, pl, sl, list, c, x, t)
      BY <3>1
    <3>3. x = b /\ list[c] = <<b, f[b][t]>>
      BY <1>6, <3>2 DEF OfEdge
    <3>4. f[b] # <<>> /\ f[b][t] \in SuccsOf(f, b)
      <4>1. f[b] # <<>>
        BY <3>2, <3>3, FunctionFacts
      <4> QED
        BY <1>3, <3>2, <3>3, <4>1
    <3> QED
      BY <3>3, <3>4 DEF OutOfBlock
  <2> QED
    BY <2>1, <2>2, <2>3, CounterKinds
<1> QED
  BY <1>4, <1>5, <1>6 DEF CountersOf, OutOf

\* The weights that the loader knows are right, and the others are in its tree.
Known(N, list) ==
  /\ DOMAIN weight \subseteq Listed(N, list)
  /\ SpanningTree = Listed(N, list) \ DOMAIN weight
  /\ \A e \in DOMAIN weight : weight[e] = SumFunctionOnSet(taken, CountersOf(N, list, {e}))

Rebuilt(n, f, N, list) ==
  /\ pc = "done" => SpanningTree = {}
  /\ pc \in {"rebuild", "round", "done", "stuck"} /\ Sound(n, f, N, list) => Known(N, list)

LEMMA RebuiltStays ==
  ASSUME NEW n, NEW f, NEW N, NEW list, Rebuilt(n, f, N, list),
         pc \in {"rebuild", "round", "done", "stuck"}, pc' = "done" => SpanningTree = {},
         UNCHANGED <<taken, lost, MST, weight, SpanningTree>>
  PROVE  Rebuilt(n, f, N, list)'
<1>1. Sound(n, f, N, list)' = Sound(n, f, N, list)
  BY DEF Sound
<1>2. Known(N, list)' = Known(N, list)
  BY DEF Known
<1> QED
  BY <1>1, <1>2 DEF Rebuilt

\* Reading the counters
LEMMA LoadRebuilt ==
  ASSUME NEW n, NEW f, NEW W, NEW pl, NEW N, NEW sl, NEW list,
         Wiring(n, f, W, pl, N, sl, list), Counts(f, N, sl, list), Load
  PROVE  Rebuilt(n, f, N, list)'
<1>1. Profiled(n, f, W, pl, N, sl, list) /\ Walk(n, W, pl, N) /\ RunTypes(N)
  BY DEF Wiring, Shape
<1>2. /\ Fixed(n, f, W, pl, N, sl, list) /\ EdgeOf = list
      /\ N \in Nat /\ DOMAIN list = 1 .. N /\ Uncounted \in Nat
  <2>1. Fixed(n, f, W, pl, N, sl, list) /\ EdgeOf = list
    BY <1>1 DEF Profiled
  <2> QED
    BY <2>1, BoundsAssumption DEF Fixed, Numbered
<1>3. pc = "run" /\ at = 0 /\ pc' = "rebuild" /\ UNCHANGED <<taken, lost, MST>>
  BY DEF Load, Idle, treeVars, runVars
<1>4. \A c \in 1 .. N : c < i /\ taken[c] \in Nat /\ counters[c] \in 0 .. Uncounted
  <2>1. i = N + 1
    BY <1>1, <1>3 DEF Walk
  <2> QED
    BY <1>1, <1>2, <2>1 DEF RunTypes
<1> SUFFICES ASSUME Sound(n, f, N, list)
             PROVE  Known(N, list)'
  <2>1. Sound(n, f, N, list)' = Sound(n, f, N, list)
    BY <1>3 DEF Sound
  <2> QED
    BY <1>3, <2>1 DEF Rebuilt
<1>5. ASSUME NEW c \in 1 .. N
      PROVE  /\ list[c] \in MST => counters[c] = Uncounted
             /\ list[c] \notin MST => counters[c] = taken[c] /\ counters[c] # Uncounted
  <2>1. CASE list[c] \in MST
    BY <1>4, <2>1 DEF Counts
  <2>2. CASE list[c] \notin MST
    <3>1. taken[c] < Uncounted /\ ~lost
      BY <2>2 DEF Sound
    <3>2. Early(f, sl[c], at) = 0
      BY <1>3 DEF Early
    <3>3. counters[c] = (taken[c] + 0) % (Uncounted + 1)
      BY <2>2, <3>1, <3>2 DEF Counts
    <3>4. PICK x : x = taken[c] /\ x \in 0 .. Uncounted /\ x # Uncounted
      BY <1>2, <1>4, <3>1
    <3>5. (x + 0) % (Uncounted + 1) = x
      BY <1>2, <3>4, ModSmall
    <3> QED
      BY <2>2, <3>3, <3>4, <3>5
  <2> QED
    BY <2>1, <2>2
<1>6. PICK R : R = {c \in 1 .. N : list[c] \notin MST}
  OBVIOUS
<1>7. R = {c \in DOMAIN EdgeOf : Counted(c)}
  BY <1>2, <1>5, <1>6 DEF Counted
<1>8. /\ weight' = [e \in {list[c] : c \in R} |->
                      MapThenSumSet(LAMBDA c : counters[c], {c \in R : list[c] = e})]
      /\ SpanningTree' = {list[c] : c \in (1 .. N) \ R}
  BY <1>2, <1>7 DEF Load
<1>9. PICK D : D = {list[c] : c \in R}
  OBVIOUS
<1>10. DOMAIN weight' = D
  BY <1>8, <1>9
<1>11. D \subseteq Listed(N, list) /\ SpanningTree' = Listed(N, list) \ D
  BY <1>6, <1>8, <1>9 DEF Listed
<1>12. ASSUME NEW e \in D
       PROVE  weight'[e] = SumFunctionOnSet(taken', CountersOf(N, list, {e}))
  <2>1. PICK S : S = CountersOf(N, list, {e})
    OBVIOUS
  <2>2. {c \in R : list[c] = e} = S
    BY <1>6, <1>9, <2>1 DEF CountersOf
  <2>3. weight'[e] = MapThenSumSet(LAMBDA c : counters[c], S)
    BY <1>8, <1>9, <2>2
  <2>4. MapThenSumSet(LAMBDA c : counters[c], S) = SumFunctionOnSet(counters, S)
    BY DEF MapThenSumSet, SumFunctionOnSet, FoldFunctionOnSet
  <2>5. S \in SUBSET R /\ S \in SUBSET (1 .. N)
    BY <1>6, <2>2
  <2>6. IsFiniteSet(S)
    <3>1. IsFiniteSet(1 .. N)
      BY <1>2, FS_Interval
    <3> QED
      BY <2>5, <3>1, FS_Subset
  <2>7. \A c \in S : taken[c] \in Nat /\ counters[c] = taken[c]
    BY <1>4, <1>5, <1>6, <2>5
  <2>8. PICK g, h : g = taken /\ h = counters
    OBVIOUS
  <2>9. \A c \in S : g[c] \in Nat /\ h[c] = g[c]
    BY <2>7, <2>8
  <2>10. SumFunctionOnSet(h, S) = SumFunctionOnSet(g, S)
    BY <2>6, <2>9, SumSame
  <2>11. taken' = g
    BY <1>3, <2>8
  <2> QED
    BY <2>1, <2>3, <2>4, <2>8, <2>10, <2>11
<1> QED
  BY <1>10, <1>11, <1>12 DEF Known

\* One edge is missing on one side of a block, and the other side balances it.
Misses(A, B, D, e, tot, w) ==
  /\ IsFiniteSet(A) /\ IsFiniteSet(B) /\ e \in A /\ A \ D = {e} /\ B \ D = {}
  /\ \A x \in A \cup B : tot[x] \in Nat
  /\ SumFunctionOnSet(tot, A) = SumFunctionOnSet(tot, B)
  /\ \A x \in (A \cup B) \cap D : w[x] = tot[x]

\* What is known on the side that misses e, on the other side, and of e
Balances(u, v, x) == u \in Nat /\ v \in Nat /\ v = x + u

LEMMA OneMissing ==
  ASSUME NEW A, NEW B, NEW D, NEW e, NEW tot, NEW w, Misses(A, B, D, e, tot, w)
  PROVE  Balances(SumFunctionOnSet(w, A \cap D), SumFunctionOnSet(w, B \cap D), tot[e])
<1>0. /\ IsFiniteSet(A) /\ IsFiniteSet(B) /\ e \in A /\ A \ D = {e} /\ B \ D = {}
      /\ \A x \in A \cup B : tot[x] \in Nat
      /\ SumFunctionOnSet(tot, A) = SumFunctionOnSet(tot, B)
      /\ \A x \in (A \cup B) \cap D : w[x] = tot[x]
  BY DEF Misses
<1>1. PICK K : K = A \cap D
  OBVIOUS
<1>2. IsFiniteSet(K) /\ e \notin K /\ A = K \cup {e} /\ B \cap D = B
  <2>1. IsFiniteSet(K)
    BY <1>0, <1>1, FS_Subset
  <2> QED
    BY <1>0, <1>1, <2>1
<1>3. /\ \A x \in K : tot[x] \in Nat /\ w[x] = tot[x]
      /\ \A x \in B : tot[x] \in Nat /\ w[x] = tot[x]
      /\ \A x \in K \cup {e} : tot[x] \in Nat
  BY <1>0, <1>1, <1>2
<1>4. SumFunctionOnSet(w, K) = SumFunctionOnSet(tot, K)
  BY <1>2, <1>3, SumSame
<1>5. SumFunctionOnSet(w, B) = SumFunctionOnSet(tot, B)
  BY <1>0, <1>3, SumSame
<1>6. SumFunctionOnSet(tot, K \cup {e}) = tot[e] + SumFunctionOnSet(tot, K)
  BY <1>2, <1>3, SumAdd
<1>7. SumFunctionOnSet(tot, K) \in Nat /\ SumFunctionOnSet(tot, B) \in Nat
  BY <1>0, <1>2, <1>3, SumType
<1> QED
  BY <1>0, <1>1, <1>2, <1>4, <1>5, <1>6, <1>7 DEF Balances

LEMMA ListedFinite ==
  ASSUME NEW N \in Nat, NEW list
  PROVE  IsFiniteSet(Listed(N, list))
<1>1. IsFiniteSet(1 .. N)
  BY FS_Interval
<1>2. PICK g : g = [c \in 1 .. N |-> list[c]]
  OBVIOUS
<1>3. g \in Surjection(1 .. N, Listed(N, list))
  BY <1>2 DEF Surjection, Listed
<1> QED
  BY <1>1, <1>3, FS_Surjection

LEMMA CountersFinite ==
  ASSUME NEW N \in Nat, NEW list, NEW E
  PROVE  IsFiniteSet(CountersOf(N, list, E)) /\ CountersOf(N, list, E) \subseteq 1 .. N
<1>1. IsFiniteSet(1 .. N)
  BY FS_Interval
<1>2. CountersOf(N, list, E) \subseteq 1 .. N
  BY DEF CountersOf
<1> QED
  BY <1>1, <1>2, FS_Subset

\* Between two calls, as often as a block was entered it was left.
LEMMA Balanced ==
  ASSUME NEW n, NEW f, NEW W, NEW pl, NEW N, NEW sl, NEW list, Profiled(n, f, W, pl, N, sl, list),
         RunTypes(N), Flow(n, N, list), Sound(n, f, N, list), at = 0, NEW b \in 1 .. n,
         NEW tot, Tallied(tot, taken, N, list, Listed(N, list))
  PROVE  SumFunctionOnSet(tot, InOf(f, b)) = SumFunctionOnSet(tot, OutOfBlock(f, b))
<1>1. Fixed(n, f, W, pl, N, sl, list)
  BY DEF Profiled
<1>2. N \in Nat /\ n \in Nat
  BY <1>1, FunctionFacts
<1>3. PICK A, B : A = InOf(f, b) /\ B = OutOfBlock(f, b)
  OBVIOUS
<1>4. A \subseteq Listed(N, list) /\ CountersOf(N, list, A) = Into(N, list, b)
  BY <1>1, <1>3, InListed
<1>5. B \subseteq Listed(N, list) /\ CountersOf(N, list, B) = OutOf(N, list, b)
  BY <1>1, <1>3, OutListed
<1>6. IsFiniteSet(A) /\ IsFiniteSet(B)
  BY <1>2, <1>4, <1>5, ListedFinite, FS_Subset
<1>7. Tallied(tot, taken, N, list, A) /\ Tallied(tot, taken, N, list, B)
  BY <1>4, <1>5 DEF Tallied
<1>8. PICK g : g = taken /\ \A c \in 1 .. N : g[c] \in Nat
  BY DEF RunTypes
<1>9. SumFunctionOnSet(tot, A) = SumFunctionOnSet(g, CountersOf(N, list, A))
  <2>1. Tallied(tot, g, N, list, A)
    BY <1>7, <1>8
  <2> QED
    BY <1>2, <1>6, <1>8, <2>1, SumGroups
<1>10. SumFunctionOnSet(tot, B) = SumFunctionOnSet(g, CountersOf(N, list, B))
  <2>1. Tallied(tot, g, N, list, B)
    BY <1>7, <1>8
  <2> QED
    BY <1>2, <1>6, <1>8, <2>1, SumGroups
<1>11. SumFunctionOnSet(g, Into(N, list, b)) = SumFunctionOnSet(g, OutOf(N, list, b))
  <2>1. Pos(n) = 0 /\ b # 0
    BY <1>2 DEF Pos, Idle
  <2>2. ~lost
    BY DEF Sound
  <2>3. SumFunctionOnSet(g, Into(N, list, b)) = SumFunctionOnSet(g, OutOf(N, list, b)) + 0
    BY <1>8, <2>1, <2>2 DEF Flow
  <2>4. SumFunctionOnSet(g, OutOf(N, list, b)) \in Nat
    <3>1. PICK S : S = CountersOf(N, list, B)
      OBVIOUS
    <3>2. IsFiniteSet(S) /\ S \subseteq 1 .. N
      BY <1>2, <3>1, CountersFinite
    <3>3. \A c \in S : g[c] \in Nat
      BY <1>8, <3>2
    <3>4. SumFunctionOnSet(g, S) \in Nat
      BY <3>2, <3>3, SumType
    <3> QED
      BY <1>5, <3>1, <3>4
  <2> QED
    BY <2>3, <2>4
<1> QED
  BY <1>3, <1>4, <1>5, <1>9, <1>10, <1>11

\* The edge that the loader works out
LEMMA CalculateRebuilt ==
  ASSUME NEW n, NEW f, NEW W, NEW pl, NEW N, NEW sl, NEW list,
         Wiring(n, f, W, pl, N, sl, list), Flow(n, N, list), EdgesTyped,
         Rebuilt(n, f, N, list), CalculateMissingEdge
  PROVE  Rebuilt(n, f, N, list)'
<1>1. Profiled(n, f, W, pl, N, sl, list) /\ RunTypes(N)
  BY DEF Wiring, Shape
<1>2. /\ Fixed(n, f, W, pl, N, sl, list) /\ function = f /\ Blocks = 1 .. n
      /\ pc = "round" /\ pc' = "round" /\ at = 0 /\ UNCHANGED <<taken, lost, MST>>
  BY <1>1 DEF Profiled, CalculateMissingEdge, RunTypes, Idle, treeVars, runVars
<1>3. N \in Nat
  BY <1>2, FunctionFacts
<1> SUFFICES ASSUME Sound(n, f, N, list)
             PROVE  Known(N, list)'
  <2>1. Sound(n, f, N, list)' = Sound(n, f, N, list)
    BY <1>2 DEF Sound
  <2> QED
    BY <1>2, <2>1 DEF Rebuilt
<1>4. Known(N, list)
  BY <1>2 DEF Rebuilt
<1>5. PICK b : b = Head(stack) /\ b \in 1 .. n
  <2>1. PICK q, B : q = stack /\ B = Blocks /\ q \in Seq(B) /\ q # <<>>
    BY DEF CalculateMissingEdge, EdgesTyped
  <2>2. Head(q) \in B
    BY <2>1
  <2> QED
    BY <1>2, <2>1, <2>2
<1>6. PICK A, B, D : A = InOf(f, b) /\ B = OutOfBlock(f, b) /\ D = DOMAIN weight
  OBVIOUS
<1>7. InEdges(b) = A /\ OutEdges(b) = B
  BY <1>2, <1>6 DEF InEdges, OutEdges, InOf, OutOfBlock
<1>8. A \subseteq Listed(N, list) /\ B \subseteq Listed(N, list) /\ IsFiniteSet(A) /\ IsFiniteSet(B)
  <2>1. A \subseteq Listed(N, list) /\ B \subseteq Listed(N, list)
    BY <1>2, <1>5, <1>6, InListed, OutListed
  <2> QED
    BY <1>3, <2>1, ListedFinite, FS_Subset
<1>9. PICK tot : tot = [e \in Listed(N, list) |-> SumFunctionOnSet(taken, CountersOf(N, list, {e}))]
  OBVIOUS
<1>10. \A e \in Listed(N, list) : tot[e] = SumFunctionOnSet(taken, CountersOf(N, list, {e})) /\ tot[e] \in Nat
  <2>1. PICK g : g = taken /\ \A c \in 1 .. N : g[c] \in Nat
    BY <1>1 DEF RunTypes
  <2>2. ASSUME NEW e \in Listed(N, list)
        PROVE  SumFunctionOnSet(g, CountersOf(N, list, {e})) \in Nat
    <3>1. PICK S : S = CountersOf(N, list, {e})
      OBVIOUS
    <3>2. IsFiniteSet(S) /\ S \subseteq 1 .. N
      BY <1>3, <3>1, CountersFinite
    <3>3. \A c \in S : g[c] \in Nat
      BY <2>1, <3>2
    <3> QED
      BY <3>1, <3>2, <3>3, SumType
  <2> QED
    BY <1>9, <2>1, <2>2
<1>11. SumFunctionOnSet(tot, A) = SumFunctionOnSet(tot, B)
  <2>1. Tallied(tot, taken, N, list, Listed(N, list))
    BY <1>10 DEF Tallied
  <2> QED
    BY <1>1, <1>2, <1>5, <1>6, <2>1, Balanced
<1>12. CASE ~(Cardinality(InEdges(b) \ DOMAIN weight) + Cardinality(OutEdges(b) \ DOMAIN weight) = 1)
  <2>1. UNCHANGED <<weight, SpanningTree>>
    BY <1>5, <1>12 DEF CalculateMissingEdge
  <2> QED
    BY <1>2, <1>4, <2>1 DEF Known
<1>13. CASE Cardinality(InEdges(b) \ DOMAIN weight) + Cardinality(OutEdges(b) \ DOMAIN weight) = 1
  <2>1. /\ weight' = [e \in D \cup (A \ D) \cup (B \ D) |->
                        IF e \in D THEN weight[e] ELSE MissingWeight(b)]
        /\ SpanningTree' = SpanningTree \ ((A \ D) \cup (B \ D))
    BY <1>5, <1>6, <1>7, <1>13 DEF CalculateMissingEdge
  <2>2. IsFiniteSet(A \ D) /\ IsFiniteSet(B \ D)
    BY <1>8, FS_Subset
  <2>3. \E e : (A \ D = {e} /\ B \ D = {}) \/ (A \ D = {} /\ B \ D = {e})
    <3>1. PICK k, l : /\ k = Cardinality(A \ D) /\ l = Cardinality(B \ D) /\ k \in Nat /\ l \in Nat
                      /\ k + l = 1
      BY <1>6, <1>7, <1>13, <2>2, FS_CardinalityType
    <3>2. (k = 1 /\ l = 0) \/ (k = 0 /\ l = 1)
      BY <3>1
    <3>3. CASE k = 1 /\ l = 0
      BY <2>2, <3>1, <3>3, FS_Singleton, FS_EmptySet
    <3>4. CASE k = 0 /\ l = 1
      BY <2>2, <3>1, <3>4, FS_Singleton, FS_EmptySet
    <3> QED
      BY <3>2, <3>3, <3>4
  <2>4. PICK e : (A \ D = {e} /\ B \ D = {}) \/ (A \ D = {} /\ B \ D = {e})
    BY <2>3
  <2>5. e \in Listed(N, list) /\ e \notin D /\ D \cup (A \ D) \cup (B \ D) = D \cup {e}
        /\ (A \ D) \cup (B \ D) = {e}
    BY <1>8, <2>4
  <2>6. \A x \in A \cup B : tot[x] \in Nat
    BY <1>8, <1>10
  <2>7. PICK w : w = weight /\ \A x \in (A \cup B) \cap D : w[x] = tot[x]
    BY <1>4, <1>6, <1>8, <1>10 DEF Known
  <2>8. MissingWeight(b) = Abs(SumFunctionOnSet(w, A \cap D) - SumFunctionOnSet(w, B \cap D))
    <3>1. SumWeights(A) = SumFunctionOnSet(weight, A \cap DOMAIN weight)
      BY DEF SumWeights, MapThenSumSet, SumFunctionOnSet, FoldFunctionOnSet
    <3>2. SumWeights(B) = SumFunctionOnSet(weight, B \cap DOMAIN weight)
      BY DEF SumWeights, MapThenSumSet, SumFunctionOnSet, FoldFunctionOnSet
    <3> QED
      BY <1>6, <1>7, <2>7, <3>1, <3>2 DEF MissingWeight
  <2>9. MissingWeight(b) = tot[e]
    <3>1. tot[e] \in Nat
      BY <1>10, <2>5
    <3>2. CASE A \ D = {e} /\ B \ D = {}
      <4>1. e \in A
        BY <3>2
      <4>2. Misses(A, B, D, e, tot, w)
        BY <1>8, <1>11, <2>6, <2>7, <3>2, <4>1 DEF Misses
      <4>3. Balances(SumFunctionOnSet(w, A \cap D), SumFunctionOnSet(w, B \cap D), tot[e])
        BY <4>2, OneMissing
      <4>4. PICK u, v : u = SumFunctionOnSet(w, A \cap D) /\ v = SumFunctionOnSet(w, B \cap D)
        OBVIOUS
      <4>5. u \in Nat /\ v \in Nat /\ v = tot[e] + u
        BY <4>3, <4>4 DEF Balances
      <4>6. Abs(u - v) = tot[e]
        BY <3>1, <4>5 DEF Abs
      <4> QED
        BY <2>8, <4>4, <4>6
    <3>3. CASE A \ D = {} /\ B \ D = {e}
      <4>1. e \in B /\ B \cup A = A \cup B /\ SumFunctionOnSet(tot, B) = SumFunctionOnSet(tot, A)
        BY <1>11, <3>3
      <4>2. (\A x \in B \cup A : tot[x] \in Nat) /\ \A x \in (B \cup A) \cap D : w[x] = tot[x]
        BY <2>6, <2>7
      <4>3. Misses(B, A, D, e, tot, w)
        BY <1>8, <3>3, <4>1, <4>2 DEF Misses
      <4>4. Balances(SumFunctionOnSet(w, B \cap D), SumFunctionOnSet(w, A \cap D), tot[e])
        BY <4>3, OneMissing
      <4>5. PICK u, v : u = SumFunctionOnSet(w, A \cap D) /\ v = SumFunctionOnSet(w, B \cap D)
        OBVIOUS
      <4>6. u \in Nat /\ v \in Nat /\ u = tot[e] + v
        BY <4>4, <4>5 DEF Balances
      <4>7. Abs(u - v) = tot[e]
        BY <3>1, <4>6 DEF Abs
      <4> QED
        BY <2>8, <4>5, <4>7
    <3> QED
      BY <2>4, <3>2, <3>3
  <2>10. DOMAIN weight' = D \cup {e}
    BY <2>1, <2>5
  <2>11. ASSUME NEW x \in D \cup {e}
         PROVE  weight'[x] = SumFunctionOnSet(taken', CountersOf(N, list, {x}))
    <3>1. taken' = taken
      BY <1>2
    <3>2. CASE x \in D
      <4>1. weight'[x] = weight[x]
        BY <2>1, <3>2
      <4> QED
        BY <1>4, <1>6, <3>1, <3>2, <4>1 DEF Known
    <3>3. CASE x \notin D
      <4>1. x = e /\ x \in D \cup (A \ D) \cup (B \ D)
        BY <2>5, <3>3
      <4>2. weight'[x] = MissingWeight(b)
        BY <2>1, <3>3, <4>1
      <4> QED
        BY <1>10, <2>5, <2>9, <3>1, <4>1, <4>2
    <3> QED
      BY <3>2, <3>3
  <2>12. D \cup {e} \subseteq Listed(N, list) /\ SpanningTree' = Listed(N, list) \ (D \cup {e})
    BY <1>4, <1>6, <2>1, <2>5 DEF Known
  <2> QED
    BY <2>10, <2>11, <2>12 DEF Known
<1> QED
  BY <1>12, <1>13

LEMMA RebuiltStep ==
  ASSUME NEW n, NEW f, NEW W, NEW pl, NEW N, NEW sl, NEW list,
         Wiring(n, f, W, pl, N, sl, list), Counts(f, N, sl, list), Flow(n, N, list), EdgesTyped,
         Rebuilt(n, f, N, list), [Next]_vars
  PROVE  Rebuilt(n, f, N, list)'
<1>1. CASE Instrument \/ Execute
  <2>1. pc' \in {"tree", "count", "run"}
    BY <1>1 DEF Instrument, LookAtEdge, EndTree, InstrumentEntry, InstrumentReturn, InstrumentEdge,
       NextBlock, FinishInstrumentation, Counting, Execute, Call, Take, Return, Exit
  <2> QED
    BY <2>1 DEF Rebuilt
<1>2. CASE Load
  BY <1>2, LoadRebuilt
<1>3. CASE CalculateMissingEdge
  BY <1>3, CalculateRebuilt
<1>4. CASE BeginRound \/ EndRound \/ EndLoad \/ \E b \in BBisUnvisited : RecurseBasicBlock(b)
  <2>1. /\ pc \in {"rebuild", "round", "done", "stuck"} /\ (pc' = "done" => SpanningTree = {})
        /\ UNCHANGED <<taken, lost, MST, weight, SpanningTree>>
    BY <1>4 DEF BeginRound, EndRound, EndLoad, RecurseBasicBlock, treeVars, runVars, rebuildVars
  <2> QED
    BY <2>1, RebuiltStays
<1>5. CASE UNCHANGED vars
  <2>1. UNCHANGED <<pc, taken, lost, MST, weight, SpanningTree>>
    BY <1>5 DEF vars, treeVars, runVars, rebuildVars
  <2>2. CASE pc \in {"rebuild", "round", "done", "stuck"}
    <3>1. pc' = "done" => SpanningTree = {}
      BY <2>1 DEF Rebuilt
    <3> QED
      BY <2>1, <2>2, <3>1, RebuiltStays
  <2>3. CASE pc \notin {"rebuild", "round", "done", "stuck"}
    BY <2>1, <2>3 DEF Rebuilt
  <2> QED
    BY <2>2, <2>3
<1> QED
  BY <1>1, <1>2, <1>3, <1>4, <1>5 DEF Next, Rebuild

\* What is true of every state, for the weights
LoadInv ==
  /\ EdgesTyped
  /\ \E n, f, W, pl, N, sl, list :
       /\ Wiring(n, f, W, pl, N, sl, list) /\ Counts(f, N, sl, list)
       /\ Flow(n, N, list) /\ Rebuilt(n, f, N, list)

LEMMA LoadInvInit == Init => LoadInv
<1> SUFFICES ASSUME Init
             PROVE  LoadInv
  OBVIOUS
<1>1. PICK n, f, W, pl, N, sl, list : Profiled(n, f, W, pl, N, sl, list) /\ Shape(n, f, W, pl, N)
  BY InitShape DEF ShapeInv
<1>2. Fixed(n, f, W, pl, N, sl, list) /\ NumEdges = N
  BY <1>1 DEF Profiled
<1>3. N \in Nat
  BY <1>2, FunctionFacts
<1>4. i = 1 /\ \A x \in DOMAIN head : head[x] = {}
  BY DEF Init
<1>5. Heads(f, N, sl, list) /\ Alone(n, f, pl)
  BY <1>2, <1>4, WiredFirst
<1>6. Wiring(n, f, W, pl, N, sl, list)
  BY <1>1, <1>5 DEF Wiring
<1>7. Counts(f, N, sl, list)
  BY <1>2, <1>3, CountsInit
<1>8. Flow(n, N, list)
  BY <1>2, <1>3, FlowInit
<1>9. Rebuilt(n, f, N, list)
  <2>1. pc = "tree"
    BY DEF Init
  <2> QED
    BY <2>1 DEF Rebuilt
<1>10. EdgesTyped
  BY InitEdges
<1> QED
  BY <1>6, <1>7, <1>8, <1>9, <1>10 DEF LoadInv

LEMMA LoadInvStep == LoadInv /\ [Next]_vars => LoadInv'
<1> SUFFICES ASSUME LoadInv, [Next]_vars
             PROVE  LoadInv'
  OBVIOUS
<1>1. PICK n, f, W, pl, N, sl, list :
        /\ Wiring(n, f, W, pl, N, sl, list) /\ Counts(f, N, sl, list)
        /\ Flow(n, N, list) /\ Rebuilt(n, f, N, list)
  BY DEF LoadInv
<1>2. EdgesTyped
  BY DEF LoadInv
<1>3. Profiled(n, f, W, pl, N, sl, list) /\ Shape(n, f, W, pl, N)
  BY <1>1 DEF Wiring
<1>4. Profiled(n, f, W, pl, N, sl, list)' /\ Shape(n, f, W, pl, N)'
  BY <1>3, ShapeStep
<1>5. Heads(f, N, sl, list)' /\ Alone(n, f, pl)'
  BY <1>1, WiredStep
<1>6. Wiring(n, f, W, pl, N, sl, list)'
  BY <1>4, <1>5 DEF Wiring
<1>7. Counts(f, N, sl, list)'
  BY <1>1, CountsStep
<1>8. Flow(n, N, list)'
  BY <1>1, FlowStep
<1>9. Rebuilt(n, f, N, list)'
  BY <1>1, <1>2, RebuiltStep
<1>10. EdgesTyped'
  <2>1. ShapeInv
    BY <1>3 DEF ShapeInv
  <2> QED
    BY <1>2, <2>1, EdgesStep
<1> QED
  BY <1>6, <1>7, <1>8, <1>9, <1>10 DEF LoadInv

\* Every edge of the function has a counter, and no other edge has one.
LEMMA ListedAreOwn ==
  ASSUME NEW n, NEW f, NEW W, NEW pl, NEW N, NEW sl, NEW list, Profiled(n, f, W, pl, N, sl, list)
  PROVE  Listed(N, list) = OwnEdges(function)
<1>1. Fixed(n, f, W, pl, N, sl, list) /\ function = f
  BY DEF Profiled
<1>2. DOMAIN f = 1 .. n /\ n \in Nat
  BY <1>1, FunctionFacts
<1>3. 1 \in 1 .. N /\ list[1] = <<0, 1>>
  BY <1>1 DEF Fixed, Numbered
<1>4. ASSUME NEW b \in 1 .. n
      PROVE  Range(EdgesOf(f, b)) = OutOfBlock(f, b)
  <2>1. CASE f[b] = <<>>
    <3>1. EdgesOf(f, b) = << <<b, 0>> >>
      BY <2>1 DEF EdgesOf
    <3>2. Range(EdgesOf(f, b)) = {<<b, 0>>}
      BY <3>1 DEF Range
    <3> QED
      BY <2>1, <3>2 DEF OutOfBlock
  <2>2. CASE f[b] # <<>>
    BY <2>2 DEF EdgesOf, Range, OutOfBlock, SuccsOf
  <2> QED
    BY <2>1, <2>2
<1>5. OwnEdges(f) = {<<0, 1>>} \cup UNION {OutOfBlock(f, b) : b \in 1 .. n}
  BY <1>2, <1>4 DEF OwnEdges
<1>6. OwnEdges(f) \subseteq Listed(N, list)
  <2>1. <<0, 1>> \in Listed(N, list)
    BY <1>3 DEF Listed
  <2>2. \A b \in 1 .. n : OutOfBlock(f, b) \subseteq Listed(N, list)
    BY <1>1, OutListed
  <2> QED
    BY <1>5, <2>1, <2>2
<1>7. ASSUME NEW c \in 1 .. N
      PROVE  list[c] \in OwnEdges(f)
  <2>1. CASE c = 1
    BY <1>3, <1>5, <2>1
  <2>2. CASE \E b \in 1 .. n : OfReturn(n, f, pl, sl, list, c, b)
    <3>1. PICK b \in 1 .. n : OfReturn(n, f, pl, sl, list, c, b)
      BY <2>2
    <3>2. list[c] \in OutOfBlock(f, b)
      BY <3>1 DEF OfReturn, OutOfBlock
    <3> QED
      BY <1>5, <3>2
  <2>3. CASE \E b \in 1 .. n : \E t \in 1 .. Len(f[b]) : OfEdge(n, f, pl, sl, list, c, b, t)
    <3>1. PICK b \in 1 .. n : \E t \in 1 .. Len(f[b]) : OfEdge(n, f, pl, sl, list, c, b, t)
      BY <2>3
    <3>2. PICK t \in 1 .. Len(f[b]) : OfEdge(n, f, pl, sl, list, c, b, t)
      BY <3>1
    <3>3. list[c] = <<b, f[b][t]>> /\ f[b] # <<>> /\ t \in DOMAIN f[b]
      <4>1. list[c] = <<b, f[b][t]>>
        BY <3>2 DEF OfEdge
      <4> QED
        BY <1>1, <4>1, FunctionFacts
    <3>4. list[c] \in OutOfBlock(f, b)
      BY <3>3 DEF OutOfBlock, SuccsOf, Range
    <3> QED
      BY <1>5, <3>4
  <2> QED
    BY <1>1, <2>1, <2>2, <2>3, CounterKinds
<1> QED
  BY <1>1, <1>6, <1>7 DEF Listed

\* From the counters of the edges outside of a spanning tree, the loader works
\* out how often every edge was taken: the weight of an edge is never wrong,
\* and in the end every edge of the function has one.
THEOREM WeightsExact == Spec => []LoadedExact
<1>1. LoadInv => LoadedExact
  <2> SUFFICES ASSUME LoadInv, pc \in {"rebuild", "round", "done"}, ~lost, NoCounterSaturated, DeadRoots = {}
               PROVE  /\ \A e \in DOMAIN weight :
                           weight[e] = MapThenSumSet(LAMBDA c : taken[c], {c \in DOMAIN EdgeOf : EdgeOf[c] = e})
                      /\ pc = "done" => DOMAIN weight = OwnEdges(function)
    BY DEF LoadedExact
  <2>1. PICK n, f, W, pl, N, sl, list :
          Wiring(n, f, W, pl, N, sl, list) /\ Rebuilt(n, f, N, list)
    BY DEF LoadInv
  <2>2. Profiled(n, f, W, pl, N, sl, list) /\ RunTypes(N)
    BY <2>1 DEF Wiring, Shape
  <2>3. EdgeOf = list /\ DOMAIN list = 1 .. N
    BY <2>2 DEF Profiled, Fixed, Numbered
  <2>4. Sound(n, f, N, list)
    BY <2>2, SoundThere
  <2>5. Known(N, list)
    BY <2>1, <2>4 DEF Rebuilt
  <2>6. ASSUME NEW e \in DOMAIN weight
        PROVE  weight[e] = MapThenSumSet(LAMBDA c : taken[c], {c \in DOMAIN EdgeOf : EdgeOf[c] = e})
    <3>1. PICK S : S = CountersOf(N, list, {e})
      OBVIOUS
    <3>2. {c \in DOMAIN EdgeOf : EdgeOf[c] = e} = S
      BY <2>3, <3>1 DEF CountersOf
    <3>3. MapThenSumSet(LAMBDA c : taken[c], S) = SumFunctionOnSet(taken, S)
      BY DEF MapThenSumSet, SumFunctionOnSet, FoldFunctionOnSet
    <3>4. weight[e] = SumFunctionOnSet(taken, S)
      BY <2>5, <3>1 DEF Known
    <3> QED
      BY <3>2, <3>3, <3>4
  <2>7. ASSUME pc = "done" PROVE DOMAIN weight = OwnEdges(function)
    <3>1. SpanningTree = {}
      BY <2>1, <2>7 DEF Rebuilt
    <3>2. Listed(N, list) = OwnEdges(function)
      BY <2>2, ListedAreOwn
    <3> QED
      BY <2>5, <3>1, <3>2 DEF Known
  <2> QED
    BY <2>6, <2>7
<1> QED
  BY <1>1, LoadInvInit, LoadInvStep, PTL DEF Spec
=============================================================================
