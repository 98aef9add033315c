--------------------------- MODULE EdgeProfiling ---------------------------
(***************************************************************************)
(* Edge profiling from end to end: EdgeProfiler::runOnModule puts a        *)
(* counter on every edge of a module, the instrumented program runs, and   *)
(* LoaderPass::runOnModule hands the counters back to the edges.           *)
(*                                                                         *)
(* Programs and slots are those of ProgramRun. Counters are numbered from  *)
(* 1 here and from 0 in the code. Calls run one after the other: a callee  *)
(* is not run inside its caller, which no counter can tell. No critical    *)
(* edge leaves an indirect branch: SplitCriticalEdge asserts so            *)
(* (BreakCriticalEdges.cpp:180). The profile file between the run and the  *)
(* load is the subject of ProfileFile.                                     *)
(***************************************************************************)
EXTENDS Integers, Sequences, FiniteSets, SequencesExt, FiniteSetsExt

CONSTANTS Programs,   \* the modules that may be profiled
          Uncounted,  \* ~0U, the largest value of a counter
          MaxTaken    \* bound: edges taken and calls made in a run

Run == INSTANCE ProgramRun WITH prog <- 0, at <- 0, counts <- 0

\* A block is in one function, and there once; no branch leads to an entry.
WellFormed(p) ==
  /\ IsFiniteSet(Run!Blocks(p))
  /\ p.succ \in [1 .. Cardinality(Run!Blocks(p)) -> Seq(Run!Blocks(p) \ Run!Entries(p))]
  /\ p.pads \subseteq Run!Blocks(p)
  /\ p.main \in BOOLEAN
  /\ p.funcs \in Seq(Seq(Run!Blocks(p)) \ {<<>>})
  /\ \A b \in Run!Blocks(p) : \E f \in DOMAIN p.funcs : b \in Range(p.funcs[f])
  /\ \A f, g \in DOMAIN p.funcs : \A k \in DOMAIN p.funcs[f], l \in DOMAIN p.funcs[g] :
       p.funcs[f][k] = p.funcs[g][l] => f = g /\ k = l

ASSUME ProgramsAssumption == \A p \in Programs : WellFormed(p)
ASSUME BoundsAssumption == Uncounted \in Nat \ {0} /\ MaxTaken \in Nat

VARIABLES
  prog,      \* the module before instrumentation (never changes)
  pc,        \* "begin", "function", "block", "run", "done" or "skipped"
  layout,    \* the block lists of the functions
  succ,      \* the successors, as instrumentation changes them
  head,      \* head[b]: counters incremented at the start of block b
  foot,      \* foot[b]: counters incremented before the terminator of b
  fi, bi, s, \* the function, the place in its block list, the successor
  i,         \* the next counter
  counters,  \* EdgeProfCounters
  at,        \* the block the program is in, or Idle
  taken,     \* history: how often each slot was taken
  weight,    \* EdgeInformation, once loaded
  warned     \* the loader warned that the profile is inconsistent

passVars == <<layout, succ, head, foot, fi, bi, s, i>>
runVars  == <<counters, at, taken>>
loadVars == <<weight, warned>>
vars == <<prog, pc, passVars, runVars, loadVars>>

Idle == 0
Slots == Run!Slots(prog)
BlocksToInstrument == Run!Blocks(prog)

-----------------------------------------------------------------------------
(* The edges of a module in the order both passes walk them *)

EdgesOf(blocks, sc) ==
  << <<0, blocks[1]>> >> \o
    FlattenSeq([n \in DOMAIN blocks |->
                  [t \in DOMAIN sc[blocks[n]] |-> <<blocks[n], sc[blocks[n]][t]>>]])

Bug_EdgeList(lay, sc) ==
  FlattenSeq([f \in DOMAIN lay |-> Tail(EdgesOf(lay[f], sc)) \o << <<0, lay[f][1]>> >>])

EdgeList(lay, sc) == FlattenSeq([f \in DOMAIN lay |-> EdgesOf(lay[f], sc)])

NumEdges == Len(EdgeList(prog.funcs, prog.succ))

-----------------------------------------------------------------------------
(* Instrumentation *)

Init ==
  /\ prog \in Programs
  /\ pc = "begin"
  /\ layout = prog.funcs
  /\ succ = prog.succ
  /\ head = [b \in Run!Blocks(prog) |-> <<>>]
  /\ foot = [b \in Run!Blocks(prog) |-> <<>>]
  /\ fi = 1 /\ bi = 1 /\ s = 1 /\ i = 1
  /\ counters = [c \in 1 .. NumEdges |-> 0]
  /\ at = Idle
  /\ taken = [slot \in Slots |-> 0]
  /\ weight = <<>>
  /\ warned = FALSE

\* Without a function main there is no instrumentation.
Begin ==
  /\ pc = "begin"
  /\ pc' = IF prog.main THEN "function" ELSE "skipped"
  /\ UNCHANGED <<prog, passVars, runVars, loadVars>>

\* The counter of the edge (0, entry)
InstrumentEntry ==
  /\ pc = "function" /\ fi <= Len(layout)
  /\ head' = [head EXCEPT ![layout[fi][1]] = Append(@, i)]
  /\ i' = i + 1
  /\ bi' = 1 /\ s' = 1
  /\ pc' = "block"
  /\ UNCHANGED <<prog, layout, succ, foot, fi, runVars, loadVars>>

\* Every function is done: main gets the call of llvm_start_edge_profiling.
FinishInstrumentation ==
  /\ pc = "function" /\ fi > Len(layout)
  /\ pc' = "run"
  /\ UNCHANGED <<prog, passVars, runVars, loadVars>>

block == layout[fi][bi]

\* The edges into d, one by one
PredEdges(d) == UNION {{<<b, t>> : t \in {x \in DOMAIN succ[b] : succ[b][x] = d}} : b \in DOMAIN succ}

Bug_IsCriticalEdge(b, t) ==
  Len(succ[b]) > 1 /\ Cardinality({e[1] : e \in PredEdges(succ[b][t])}) > 1

\* isCriticalEdge: two edges of one switch to the same block are critical too.
IsCriticalEdge(b, t) == Len(succ[b]) > 1 /\ Cardinality(PredEdges(succ[b][t])) > 1

\* An edge to a landing pad is left as it is.
Splits(b, t) == IsCriticalEdge(b, t) /\ succ[b][t] \notin prog.pads

NewBlock == Cardinality(DOMAIN succ) + 1

Split(b, t) ==
  [c \in DOMAIN succ \cup {NewBlock} |->
     IF c = NewBlock THEN <<succ[b][t]>>
     ELSE IF c = b THEN [succ[b] EXCEPT ![t] = NewBlock] ELSE succ[c]]

Bug_InsertPlace == bi

InsertPlace == bi + 1

\* The counter goes to the source if that has one successor, and else to the
\* destination, which is the new block when the edge was split.
InstrumentEdge ==
  /\ pc = "block" /\ bi <= Len(layout[fi])
  /\ block \in BlocksToInstrument
  /\ s <= Len(succ[block])
  /\ IF Splits(block, s)
     THEN /\ succ' = Split(block, s)
          /\ layout' = [layout EXCEPT ![fi] = InsertAt(@, InsertPlace, NewBlock)]
          /\ head' = [c \in DOMAIN succ' |-> IF c = NewBlock THEN <<i>> ELSE head[c]]
          /\ foot' = [c \in DOMAIN succ' |-> IF c = NewBlock THEN <<>> ELSE foot[c]]
     ELSE /\ IF Len(succ[block]) = 1
             THEN /\ foot' = [foot EXCEPT ![block] = Append(@, i)]
                  /\ UNCHANGED head
             ELSE /\ head' = [head EXCEPT ![succ[block][s]] = Append(@, i)]
                  /\ UNCHANGED foot
          /\ UNCHANGED <<succ, layout>>
  /\ i' = i + 1
  /\ s' = s + 1
  /\ UNCHANGED <<prog, pc, fi, bi, runVars, loadVars>>

Bug_NextPlace == IF block \in BlocksToInstrument THEN bi + 1 ELSE bi

NextPlace == bi + 1

\* The block has no edge left, or was put there to split one.
NextBlock ==
  /\ pc = "block" /\ bi <= Len(layout[fi])
  /\ block \in BlocksToInstrument => s > Len(succ[block])
  /\ bi' = NextPlace
  /\ s' = 1
  /\ UNCHANGED <<prog, pc, layout, succ, head, foot, fi, i, runVars, loadVars>>

NextFunction ==
  /\ pc = "block" /\ bi > Len(layout[fi])
  /\ fi' = fi + 1
  /\ pc' = "function"
  /\ UNCHANGED <<prog, layout, succ, head, foot, bi, s, i, runVars, loadVars>>

-----------------------------------------------------------------------------
(* The instrumented program runs *)

\* IncrementCounterInBlock: load, add 1 in 32 bits, store
Bump(list) ==
  counters' = [c \in DOMAIN counters |->
                 (counters[c] + Cardinality({n \in DOMAIN list : list[n] = c})) % (Uncounted + 1)]

TakenSoFar == MapThenSumSet(LAMBDA slot : taken[slot], Slots)

Call(e) ==
  /\ pc = "run" /\ at = Idle
  /\ TakenSoFar < MaxTaken
  /\ at' = e
  /\ Bump(head[e])
  /\ taken' = [taken EXCEPT ![<<0, e>>] = @ + 1]
  /\ UNCHANGED <<prog, pc, passVars, loadVars>>

Take(t) ==
  /\ pc = "run" /\ at # Idle
  /\ t \in DOMAIN succ[at]
  /\ at \in BlocksToInstrument => TakenSoFar < MaxTaken
  /\ at' = succ[at][t]
  /\ Bump(foot[at] \o head[succ[at][t]])
  /\ taken' = IF at \in BlocksToInstrument THEN [taken EXCEPT ![<<at, t>>] = @ + 1] ELSE taken
  /\ UNCHANGED <<prog, pc, passVars, loadVars>>

\* A return, or a call in the block that does not come back. The blocks that
\* split edges contain no calls.
End ==
  /\ pc = "run" /\ at \in BlocksToInstrument
  /\ at' = Idle
  /\ UNCHANGED <<prog, pc, passVars, counters, taken, loadVars>>

-----------------------------------------------------------------------------
(* The loader *)

\* readEdge adds the counter to the edge unless it is Uncounted; the edges
\* behind the last counter are not read.
WeightOf(edges, c) ==
  LET e == edges[c]
      same == {n \in 1 .. Len(counters) : /\ n \in DOMAIN edges /\ edges[n] = e
                                          /\ counters[n] # Uncounted}
  IN MapThenSumSet(LAMBDA n : counters[n], same)

ReadCount(edges) == Min({Len(edges), Len(counters)})

\* exit(), and opt -profile-loader on the module as it was before later
Load ==
  /\ pc = "run" /\ at = Idle
  /\ LET edges == EdgeList(prog.funcs, prog.succ)
         read == {c \in 1 .. ReadCount(edges) : counters[c] # Uncounted}
     IN /\ weight' = [e \in {edges[c] : c \in read} |->
                        WeightOf(edges, CHOOSE c \in read : edges[c] = e)]
        /\ warned' = (ReadCount(edges) # Len(counters))
  /\ pc' = "done"
  /\ UNCHANGED <<prog, passVars, runVars>>

-----------------------------------------------------------------------------
Instrument ==
  Begin \/ InstrumentEntry \/ FinishInstrumentation \/ InstrumentEdge \/ NextBlock \/ NextFunction

Execute ==
  \/ \E e \in Run!Entries(prog) : Call(e)
  \/ at # Idle /\ \E t \in DOMAIN succ[at] : Take(t)
  \/ End

Next == Instrument \/ Execute \/ Load

Spec == Init /\ [][Next]_vars /\ WF_vars(Instrument)

-----------------------------------------------------------------------------
(* Properties *)

\* The slots of the original module in the order of their counters.
SlotList ==
  FlattenSeq([f \in DOMAIN prog.funcs |->
    << <<0, prog.funcs[f][1]>> >> \o
      FlattenSeq([n \in DOMAIN prog.funcs[f] |->
                    [t \in DOMAIN prog.succ[prog.funcs[f][n]] |-> <<prog.funcs[f][n], t>>]])])

\* The types; instrumentation uses exactly the counters it reserved.
TypeOK ==
  /\ prog \in Programs
  /\ pc \in {"begin", "function", "block", "run", "done", "skipped"}
  /\ Cardinality(DOMAIN succ) >= Cardinality(Run!Blocks(prog))
  /\ DOMAIN head = DOMAIN succ /\ DOMAIN foot = DOMAIN succ
  /\ UNION {Range(layout[f]) : f \in DOMAIN layout} = DOMAIN succ
  /\ i \in 1 .. (NumEdges + 1) /\ (pc = "run" => i = NumEdges + 1)
  /\ counters \in [1 .. NumEdges -> 0 .. Uncounted]
  /\ at \in DOMAIN succ \cup {Idle}
  /\ warned \in BOOLEAN

\* The counter of each slot
CountOf ==
  LET list == SlotList
  IN [slot \in Slots |-> counters[CHOOSE c \in DOMAIN list : list[c] = slot]]

\* After instrumentation the program runs as written, whatever blocks were put
\* into its edges, and every slot has a counter of its own that counts it and
\* nothing else. (Blocks that split an edge belong to its destination.)
Original == INSTANCE ProgramRun
              WITH at <- IF at \in BlocksToInstrument \cup {Idle} THEN at ELSE succ[at][1],
                   counts <- CountOf
RunsOriginal == Original!Spec

EdgeTaken(e) ==
  IF e[1] = 0 THEN taken[e]
  ELSE MapThenSumSet(LAMBDA slot : taken[slot],
         {slot \in Slots : slot[1] = e[1] /\ prog.succ[slot[1]][slot[2]] = e[2]})

NoCounterSaturated == \A slot \in Slots : taken[slot] < Uncounted

\* As long as no counter came up to ~0U, the loaded weight of an edge is the
\* number of times the program took it, through whichever successor of the
\* terminator; every edge has a weight, and there is no warning.
LoadedExact ==
  pc = "done" /\ NoCounterSaturated =>
    /\ ~warned
    /\ DOMAIN weight = Range(EdgeList(prog.funcs, prog.succ))
    /\ \A e \in DOMAIN weight : weight[e] = EdgeTaken(e)

\* The pass ends although it inserts blocks into the list it walks.
InstrumentationEnds == <>(pc \in {"run", "done", "skipped"})
=============================================================================
