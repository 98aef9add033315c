--------------------------- MODULE PathProfiling ----------------------------
(***************************************************************************)
(* Path profiling: BallLarusDag turns the control flow graph of a function *)
(* into a DAG and numbers its paths, PathProfiler adds code that keeps a   *)
(* path number in a register and counts it where a path ends, and the      *)
(* loader decodes the numbers.                                             *)
(*                                                                         *)
(* A function is given by succ[b], the successors of block b in terminator *)
(* order; block 1 is the entry, which nothing branches to. The nodes of    *)
(* the DAG are the blocks that are reached, and Exit. Edges are numbered   *)
(* as they are created; a node's lists of edges are in that order.         *)
(* The register stands for the SSA values, PHI nodes and split critical    *)
(* edges that hold it. The numbers that tell parallel edges apart in what  *)
(* the loader prints are left out. Early termination is off (the default). *)
(***************************************************************************)
EXTENDS Integers, Sequences, FiniteSets, Bags, SequencesExt, FiniteSetsExt

CONSTANTS Functions,
          SplitThreshold, \* 100000000: the DAG is split where there are more paths
          PathLimit,      \* 2^32 - 1: the largest number of paths that can be held
          CounterMax,     \* 2^32 - 1: the value at which counters stay
          MaxTaken        \* bound: edges taken in a run

ASSUME PathAssumption ==
  /\ \A f \in Functions : f \in [1 .. Len(f) -> Seq(2 .. Len(f))] /\ f # <<>>
  /\ {SplitThreshold, PathLimit, CounterMax} \subseteq Nat \ {0} /\ MaxTaken \in Nat

VARIABLES
  succ,     \* the function (never changes)
  pc,       \* "build", "number", "initialize", "count" or "run"
  edges,    \* the edges of the DAG
  color,    \* of the nodes
  dfsStack,
  paths,    \* the number of paths from a node to Exit; 0: not known yet
  bfsQueue,
  work,     \* edges whose initialization or counter increment may be pushed on
  at,       \* the block the program is in, or Idle
  register, \* the path number so far, or Null
  count,    \* the path counters that are not 0
  path,     \* history: the path so far
  executed, \* history: the paths that ended
  taken,    \* history: how often each edge was taken
  lost      \* history: a call ended without a return

dagVars == <<edges, color, dfsStack, paths, bfsQueue, work>>
runVars == <<at, register, count, path, executed, taken, lost>>
vars == <<succ, pc, dagVars, runVars>>

Exit == 0
Root == 1
Idle == 0
Null == -1

NewEdge(s, d, type, real) ==
  [src |-> s, dst |-> d, type |-> type, real |-> real,
   phonyRoot |-> 0, phonyExit |-> 0,
   weight |-> 0, inc |-> 0, init |-> FALSE, counter |-> FALSE]

\* Edges in the order in which the lists of a node hold them
InOrder(es, S) == SelectSeq([i \in DOMAIN es |-> i], LAMBDA i : i \in S)

SuccEdges(es, n) == {i \in DOMAIN es : es[i].src = n}
PredEdges(es, n) == {i \in DOMAIN es : es[i].dst = n}
Removed == {"back", "split"} \* the edges that are not part of the DAG

InitialPath(b) == [first |-> b, edges |-> <<>>]

Init ==
  /\ succ \in Functions
  /\ pc = "build"
  /\ edges = <<>>
  /\ color = [b \in DOMAIN succ |-> "white"]
  /\ dfsStack = <<Root>>
  /\ paths = [n \in DOMAIN succ \cup {Exit} |-> 0]
  /\ bfsQueue = <<>> /\ work = <<>>
  /\ at = Idle /\ register = Null /\ count = <<>>
  /\ path = InitialPath(Root) /\ executed = EmptyBag
  /\ taken = [e \in {<<0, Root>>} \cup (UNION {{<<b, d>> : d \in Range(succ[b])} : b \in DOMAIN succ}) |-> 0]
  /\ lost = FALSE

-----------------------------------------------------------------------------
(* The DAG *)

\* An edge to a block on the stack of blocks that are being visited is a back
\* edge. It gets two phony edges instead, from Root and to Exit.
BuildEdge(es, b, t) ==
  LET d == succ[b][t]
      n == Len(es)
      back == [NewEdge(b, d, "back", 0) EXCEPT !.phonyRoot = n + 2, !.phonyExit = n + 3]
  IN IF d = b \/ color[d] = "gray"
     THEN es \o <<back, NewEdge(Root, d, "backPhony", n + 1), NewEdge(b, Exit, "backPhony", n + 1)>>
     ELSE Append(es, NewEdge(b, d, "normal", 0))

BuildNode ==
  /\ pc = "build" /\ dfsStack # <<>>
  /\ LET b == Last(dfsStack)
         slots == [t \in DOMAIN succ[b] |-> t]
         return == IF succ[b] = <<>> THEN <<NewEdge(b, Exit, "normal", 0)>> ELSE <<>>
     IN IF color[b] # "white"
        THEN /\ dfsStack' = Front(dfsStack)
             /\ color' = [color EXCEPT ![b] = "black"]
             /\ UNCHANGED edges
        ELSE /\ color' = [color EXCEPT ![b] = "gray"]
             /\ edges' = FoldLeft(LAMBDA es, t : BuildEdge(es, b, t), edges \o return, slots)
             /\ dfsStack' = dfsStack \o SelectSeq(succ[b], LAMBDA d : color'[d] = "white")
  /\ UNCHANGED <<succ, pc, paths, bfsQueue, work, runVars>>

EndBuild ==
  /\ pc = "build" /\ dfsStack = <<>>
  /\ edges' = Append(edges, NewEdge(Exit, Root, "normal", 0))
  /\ bfsQueue' = <<Exit>>
  /\ pc' = "number"
  /\ UNCHANGED <<succ, color, dfsStack, paths, work, runVars>>

ExitRootEdge == CHOOSE i \in DOMAIN edges : edges[i].src = Exit

-----------------------------------------------------------------------------
(* The numbers *)

Counted(es, n) == {i \in SuccEdges(es, n) : es[i].type \notin Removed}
SumPaths(es, S) == MapThenSumSet(LAMBDA i : paths[es[i].dst], S) % (PathLimit + 1)
Known(es, S) == \A i \in S : paths[es[i].dst] # 0

Bug_Before(es, n, i) == {j \in SuccEdges(es, n) : j < i /\ es[j].type # "split"}

\* The successor edges of n before i
Before(es, n, i) == {j \in Counted(es, n) : j < i}

\* calculatePathNumbersFrom: it stops at the first successor without a number.
Weighted(es, n) ==
  [i \in DOMAIN es |->
     IF n # Exit /\ i \in Counted(es, n) /\ Known(es, Before(es, n, i))
     THEN [es[i] EXCEPT !.weight = SumPaths(es, Before(es, n, i))] ELSE es[i]]
NumberPaths(es, n) ==
  IF n = Exit THEN 1
  ELSE IF Known(es, Counted(es, n)) THEN SumPaths(es, Counted(es, n)) ELSE paths[n]

\* The edges from n end there: each of them gets a phony edge from Root, and
\* they share a phony edge to Exit.
Split(es, n) ==
  LET normal == InOrder(es, {i \in SuccEdges(es, n) : es[i].type = "normal"})
      exitEdge == Len(es) + 1
      K(i) == CHOOSE k \in DOMAIN normal : normal[k] = i
      marked == [i \in DOMAIN es |->
        IF i \in Range(normal)
        THEN [es[i] EXCEPT !.type = "split", !.weight = 0, !.phonyRoot = exitEdge + K(i), !.phonyExit = exitEdge]
        ELSE es[i]]
  IN Append(marked, NewEdge(n, Exit, "splitPhony", 0))
       \o [k \in DOMAIN normal |-> NewEdge(Root, es[normal[k]].dst, "splitPhony", normal[k])]

\* Predecessors that do not have a number yet
Waiting(n) ==
  LET into == InOrder(edges, {i \in PredEdges(edges, n) : edges[i].type \notin Removed /\ paths[edges[i].src] = 0})
  IN [k \in DOMAIN into |-> edges[into[k]].src]

NumberNode ==
  /\ pc = "number" /\ bfsQueue # <<>>
  /\ LET n == Head(bfsQueue)
         number == NumberPaths(edges, n)
         weighted == Weighted(edges, n)
         splits == number > SplitThreshold /\ n # Root
     IN /\ edges' = IF splits THEN Weighted(Split(weighted, n), n) ELSE weighted
        /\ paths' = [paths EXCEPT ![n] = IF splits THEN NumberPaths(Split(weighted, n), n) ELSE number]
        /\ bfsQueue' = Tail(bfsQueue) \o
             (IF paths[n] = 0 /\ paths'[n] # 0 THEN Waiting(n) ELSE <<>>)
  /\ UNCHANGED <<succ, pc, color, dfsStack, work, runVars>>

-----------------------------------------------------------------------------
(* The increments *)

\* The spanning tree stays empty (every node is white when the search begins):
\* every edge that was not split is a chord, and its increment is its weight.
\* pushInitialization begins at the edge from Exit to Root.
Chords ==
  /\ pc = "number" /\ bfsQueue = <<>>
  /\ edges' = [i \in DOMAIN edges |->
       [edges[i] EXCEPT !.inc = IF edges[i].type = "split" THEN 0 ELSE edges[i].weight,
                        !.init = (i = ExitRootEdge)]]
  /\ work' = <<ExitRootEdge>>
  /\ pc' = "initialize"
  /\ UNCHANGED <<succ, color, dfsStack, paths, bfsQueue, runVars>>

\* The edges that take over what edge e did
PushTo(e, next, mark) ==
  [i \in DOMAIN edges |->
     IF i \in next THEN [edges[i] EXCEPT !.inc = @ + edges[e].inc, ![mark] = TRUE] ELSE edges[i]]

Bug_InitStopsAt(e) == Cardinality(PredEdges(edges, edges[e].dst)) > 1

\* An edge from which the initialization is not pushed down
InitStopsAt(e) == Cardinality(PredEdges(edges, edges[e].dst)) > 1 \/ edges[e].dst = Exit

\* pushInitializationFromEdge
PushInitialization ==
  /\ pc = "initialize" /\ work # <<>>
  /\ LET e == Head(work)
         next == {i \in SuccEdges(edges, edges[e].dst) : edges[i].type # "split"}
         pushed == PushTo(e, next, "init")
     IN IF InitStopsAt(e)
        THEN work' = Tail(work) /\ UNCHANGED edges
        ELSE /\ edges' = [pushed EXCEPT ![e].inc = 0, ![e].init = FALSE]
             /\ work' = InOrder(edges, next) \o Tail(work)
  /\ UNCHANGED <<succ, pc, color, dfsStack, paths, bfsQueue, runVars>>

BeginCounters ==
  /\ pc = "initialize" /\ work = <<>>
  /\ edges' = [edges EXCEPT ![ExitRootEdge].counter = TRUE]
  /\ work' = <<ExitRootEdge>>
  /\ pc' = "count"
  /\ UNCHANGED <<succ, color, dfsStack, paths, bfsQueue, runVars>>

\* An edge from which the counter increment is not pushed up
StopsAt(e) ==
  \/ Cardinality(SuccEdges(edges, edges[e].src)) > 1
  \/ edges[e].src = Root
  \/ edges[e].init

\* pushCountersFromEdge
PushCounters ==
  /\ pc = "count" /\ work # <<>>
  /\ LET e == Head(work)
         previous == {i \in PredEdges(edges, edges[e].src) : edges[i].type # "split"}
         pushed == PushTo(e, previous, "counter")
     IN IF StopsAt(e)
        THEN work' = Tail(work) /\ UNCHANGED edges
        ELSE /\ edges' = [pushed EXCEPT ![e].inc = 0, ![e].counter = FALSE]
             /\ work' = InOrder(edges, previous) \o Tail(work)
  /\ UNCHANGED <<succ, pc, color, dfsStack, paths, bfsQueue, runVars>>

Instrumented ==
  /\ pc = "count" /\ work = <<>>
  /\ pc' = "run"
  /\ UNCHANGED <<succ, dagVars, runVars>>

-----------------------------------------------------------------------------
(* The instrumented program runs *)

Bug_Increment(c, n) == (n :> IF n \in DOMAIN c THEN c[n] + 1 ELSE 1) @@ c

\* llvm_increment_path_count, and the code for a table: counters saturate.
Increment(c, n) ==
  (n :> IF n \in DOMAIN c THEN (IF c[n] < CounterMax THEN c[n] + 1 ELSE c[n]) ELSE 1) @@ c

\* The code on an edge of the DAG: the register and the counters after it
NormalCode(e) ==
  LET x == edges[e]
      r == IF x.init THEN x.inc ELSE IF x.inc # 0 THEN register + x.inc ELSE register
  IN IF x.counter THEN [register |-> Null, count |-> Increment(count, r)]
     ELSE [register |-> r, count |-> count]

Bug_RemovedCode(e) ==
  LET bottom == edges[edges[e].phonyExit]
      r == (IF register = Null THEN 0 ELSE register) + bottom.inc
  IN [register |-> r, count |-> Increment(count, r)]

\* The code on an edge that was removed: one path ends and one begins.
RemovedCode(e) ==
  LET top == edges[edges[e].phonyRoot]
      bottom == edges[edges[e].phonyExit]
      c == Increment(count, (IF register = Null THEN 0 ELSE register) + bottom.inc)
  IN IF top.counter THEN [register |-> Null, count |-> Increment(c, top.inc)]
     ELSE [register |-> top.inc, count |-> c]

CodeOn(e) == IF edges[e].type \in Removed THEN RemovedCode(e) ELSE NormalCode(e)
Run(code) == register' = code.register /\ count' = code.count

MayTake == FoldFunction(+, 0, taken) < MaxTaken
TakeEdge(e) == MayTake /\ taken' = [taken EXCEPT ![e] = @ + 1]
EndPath(p) == executed' = executed (+) SetToBag({p})

Call ==
  /\ pc = "run" /\ at = Idle
  /\ at' = Root
  /\ Run([NormalCode(ExitRootEdge) EXCEPT !.register = IF edges[ExitRootEdge].init THEN @ ELSE Null])
  /\ path' = InitialPath(Root)
  /\ TakeEdge(<<0, Root>>)
  /\ UNCHANGED <<succ, pc, dagVars, executed, lost>>

\* The edge of the DAG for successor t of block b
EdgeAt(b, t) == InOrder(edges, {i \in SuccEdges(edges, b) : edges[i].type \in Removed \cup {"normal"}})[t]

Take(t) ==
  /\ pc = "run" /\ at # Idle /\ t \in DOMAIN succ[at]
  /\ LET e == EdgeAt(at, t)
         longer == [path EXCEPT !.edges = Append(@, e)]
     IN /\ Run(CodeOn(e))
        /\ CASE edges[e].type = "normal" -> path' = longer /\ UNCHANGED executed
             [] edges[e].type = "back"   -> path' = InitialPath(edges[e].dst) /\ EndPath(longer)
             [] edges[e].type = "split"  -> path' = [first |-> edges[e].dst, edges |-> <<e>>] /\ EndPath(path)
  /\ at' = succ[at][t]
  /\ TakeEdge(<<at, at'>>)
  /\ UNCHANGED <<succ, pc, dagVars, lost>>

Return ==
  /\ pc = "run" /\ at # Idle /\ succ[at] = <<>>
  /\ at' = Idle
  /\ \E e \in SuccEdges(edges, at) : edges[e].type = "normal" /\ Run(NormalCode(e))
  /\ EndPath(path)
  /\ UNCHANGED <<succ, pc, dagVars, path, taken, lost>>

\* The block calls exit(), which does not come back.
ExitProgram ==
  /\ pc = "run" /\ at # Idle /\ ~lost
  /\ at' = Idle
  /\ lost' = TRUE
  /\ UNCHANGED <<succ, pc, dagVars, register, count, path, executed, taken>>

-----------------------------------------------------------------------------
(* The loader *)

Bug_Better(i, j) == i < j

\* Of the edges whose weight is at most what is left of the number, the first
\* of greatest weight
Better(i, j) == edges[i].weight > edges[j].weight \/ (edges[i].weight = edges[j].weight /\ i < j)
GetNextEdge(n, left) ==
  LET fits == {i \in Counted(edges, n) : edges[i].weight <= left}
  IN CHOOSE i \in fits : \A j \in fits \ {i} : Better(i, j)

\* The edges of the DAG on the path with a number
Walk(number) ==
  LET Step(w, k) ==
        IF w.node = Exit THEN w
        ELSE LET i == GetNextEdge(w.node, w.left)
             IN [node |-> edges[i].dst, left |-> w.left - edges[i].weight, edges |-> Append(w.edges, i)]
  IN FoldLeft(Step, [node |-> Root, left |-> number, edges |-> <<>>], [k \in 1 .. Len(succ) + 1 |-> k])

GetPathEdges(number) ==
  LET Real(i) ==
        CASE edges[i].type = "normal" /\ edges[i].dst # Exit    -> <<i>>
          [] edges[i].type = "backPhony" /\ edges[i].dst = Exit  -> <<edges[i].real>>
          [] edges[i].type = "splitPhony" /\ edges[i].src = Root -> <<edges[i].real>>
          [] OTHER -> <<>>
      walk == Walk(number).edges
  IN FlattenSeq([k \in DOMAIN walk |-> Real(walk[k])])

GetFirstBlockInPath(number) ==
  LET e == GetNextEdge(Root, number)
  IN IF edges[e].type = "normal" THEN Root ELSE edges[e].dst

Decoded(number) == [first |-> GetFirstBlockInPath(number), edges |-> GetPathEdges(number)]

\* The edge profile that PathProfileVerifier derives from the path profile, in
\* an array of 32-bit numbers
DerivedCount(s, d) ==
  LET times(n) ==
        IF s = 0 THEN IF GetFirstBlockInPath(n) = d THEN 1 ELSE 0
        ELSE LET pev == GetPathEdges(n)
             IN Cardinality({k \in DOMAIN pev : edges[pev[k]].src = s /\ edges[pev[k]].dst = d})
  IN MapThenSumSet(LAMBDA n : count[n] * times(n), DOMAIN count) % (CounterMax + 1)

-----------------------------------------------------------------------------
Instrument ==
  \/ BuildNode \/ EndBuild \/ NumberNode \/ Chords \/ PushInitialization
  \/ BeginCounters \/ PushCounters \/ Instrumented

Execute == Call \/ (at # Idle /\ \E t \in DOMAIN succ[at] : Take(t)) \/ Return \/ ExitProgram

Next == Instrument \/ Execute

Spec == Init /\ [][Next]_vars /\ WF_vars(Instrument)

-----------------------------------------------------------------------------
(* Properties *)

\* No node has more paths than can be held.
Fits ==
  \A n \in DOMAIN paths :
    MapThenSumSet(LAMBDA i : paths[edges[i].dst], Counted(edges, n)) <= PathLimit

NumberOfPaths == paths[Root]

\* The types; the table of counters, which has one for each path, is not overrun.
TypeOK ==
  /\ pc \in {"build", "number", "initialize", "count", "run"}
  /\ \A i \in DOMAIN edges : {edges[i].src, edges[i].dst} \subseteq DOMAIN paths
  /\ \A n \in DOMAIN paths : paths[n] \in 0 .. PathLimit
  /\ Range(work) \subseteq DOMAIN edges
  /\ at \in DOMAIN succ \cup {Idle} /\ register \in Int
  /\ \A n \in DOMAIN count : count[n] \in 1 .. CounterMax
  /\ Fits => DOMAIN count \subseteq 0 .. NumberOfPaths - 1

\* Every block of the function that is reached is numbered, and the numbers from
\* 0 on are the numbers of different paths, each of which ends at Exit.
NumbersUnique ==
  pc = "initialize" /\ work = <<ExitRootEdge>> /\ Fits =>
    LET numbers == 0 .. NumberOfPaths - 1
    IN /\ \A b \in DOMAIN succ : color[b] = "black" => paths[b] # 0
       /\ \A n \in numbers : Walk(n).node = Exit /\ Walk(n).left = 0
       /\ Cardinality({Walk(n).edges : n \in numbers}) = NumberOfPaths

\* When every call has returned, the counters of the numbers that decode to a path
\* say how often the path was run, as long as none of them is at its end (parallel
\* back edges have phony edges each, so that a path may have several numbers).
PathsCounted ==
  pc = "run" /\ at = Idle /\ ~lost /\ Fits =>
    LET decoded == [n \in DOMAIN count |-> Decoded(n)]
    IN \A p \in BagToSet(executed) \cup Range(decoded) :
         LET numbers == {n \in DOMAIN count : decoded[n] = p}
             sum == MapThenSumSet(LAMBDA n : count[n], numbers)
         IN IF \A n \in numbers : count[n] < CounterMax
            THEN sum = CopiesIn(p, executed)
            ELSE sum <= CopiesIn(p, executed)

\* The edge profile derived from the paths is what the counters of edge
\* profiling, which wrap around, would have come to, if every call returned and
\* no counter of a path, which stays at its end, is there.
EdgesFromPaths ==
  pc = "run" /\ at = Idle /\ ~lost /\ Fits /\ (\A n \in DOMAIN count : count[n] < CounterMax) =>
    \A e \in DOMAIN taken : DerivedCount(e[1], e[2]) = taken[e] % (CounterMax + 1)

\* Every function is instrumented in the end.
InstrumentationEnds == <>(pc = "run")
=============================================================================
