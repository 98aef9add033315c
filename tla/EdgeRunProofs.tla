--------------------------- MODULE EdgeRunProofs ----------------------------
(***************************************************************************)
(* What the counters of EdgeProfiling count, for every module in which no  *)
(* landing pad that is reached from a branch is reached in another way     *)
(* (PadsUnshared).                                                         *)
(*                                                                         *)
(* The invariant EdgeInv adds to Shape where each counter was put (Wired): *)
(* on the way from a block to the one that its edge leads to there is the  *)
(* counter of that edge, and no other. So each counter has the number of   *)
(* times that its slot was taken, in a word (CountsTrue), which is what the *)
(* refinement of ProgramRun needs, and the loader has the weights.         *)
(***************************************************************************)
EXTENDS EdgeProfilingProofs

-----------------------------------------------------------------------------
(* The counters in the code *)

\* An edge to a landing pad whose block branches is the only one to that pad.
\* Instrumentation does not split such an edge, and a counter in the pad would
\* count all that come there.
PadsUnshared ==
  \A p \in Programs : \A b, c \in DOMAIN p.succ :
    \A t \in DOMAIN p.succ[b], u \in DOMAIN p.succ[c] :
      p.succ[b][t] \in p.pads /\ Len(p.succ[b]) > 1 /\ p.succ[c][u] = p.succ[b][t] => c = b /\ u = t

\* Counter c, once the pass has placed the counters before k
Counted(c, k) == IF c < k THEN <<c>> ELSE <<>>

\* Between a block and the one it leads to, and in each entry, is the counter of
\* that slot and no other; behind a new block is none.
Wired(n, F, sc, ix) ==
  /\ \A b \in 1 .. n : \A t \in 1 .. Len(sc[b]) :
       foot[b] \o head[succ[b][t]] = Counted(ix[<<b, t>>], i)
  /\ \A x \in DOMAIN succ \ (1 .. n) : foot[x] \o head[succ[x][1]] = <<>>
  /\ \A f \in 1 .. Len(F) : head[F[f][1]] = Counted(ix[<<0, F[f][1]>>], i)

\* Two lists that make an empty one are empty.
LEMMA BothEmpty ==
  ASSUME NEW u \in Seq(Nat), NEW v \in Seq(Nat), u \o v = <<>>
  PROVE  u = <<>> /\ v = <<>>
<1>1. Len(u) \in Nat /\ Len(v) \in Nat /\ Len(u \o v) = Len(u) + Len(v) /\ Len(u \o v) = 0
  OBVIOUS
<1>2. Len(u) = 0 /\ Len(v) = 0
  BY <1>1
<1> QED
  BY <1>2, EmptySeq

\* Placing counter k of slot z changes what is counted there, and only there.
PlacedNext(ix, S, z, k, k2) ==
  /\ Counted(ix[z], k) = <<>> /\ Counted(ix[z], k2) = <<k>>
  /\ \A y \in S : y # z => Counted(ix[y], k2) = Counted(ix[y], k)

\* Placing the counter whose turn it is does that.
LEMMA CountedNext ==
  ASSUME NEW ix, NEW list, NEW N \in Nat, NEW S, IsIndex(ix, list, N, S),
         NEW z \in S, NEW k, k = ix[z], NEW k2, k2 = k + 1
  PROVE  PlacedNext(ix, S, z, k, k2)
<1>1. \A y \in S : ix[y] \in Nat
  BY DEF IsIndex
<1>2. Counted(ix[z], k) = <<>> /\ Counted(ix[z], k2) = <<k>>
  BY <1>1 DEF Counted
<1>3. ASSUME NEW y \in S, y # z
      PROVE  Counted(ix[y], k2) = Counted(ix[y], k)
  <2>1. ix[y] # k
    <3>1. list[ix[y]] = y /\ list[ix[z]] = z
      BY DEF IsIndex
    <3> QED
      BY <1>3, <3>1
  <2>2. PICK c : c = ix[y] /\ c \in Nat /\ c # k /\ k \in Nat
    BY <1>1, <2>1
  <2>3. Counted(c, k2) = Counted(c, k)
    BY <2>2 DEF Counted
  <2> QED
    BY <2>2, <2>3
<1> QED
  BY <1>2, <1>3 DEF PlacedNext

\* Successor t of block b, which is one of several, and the edge to it not critical
NotCritical(m, b, t) ==
  /\ m \in Nat /\ DOMAIN succ = 1 .. m /\ \A c \in 1 .. m : succ[c] \in Seq(1 .. m)
  /\ b \in 1 .. m /\ t \in 1 .. Len(succ[b]) /\ Len(succ[b]) > 1 /\ ~IsCriticalEdge(b, t)

\* No other edge leads where that edge leads.
LEMMA OnlyEdge ==
  ASSUME NEW m, NEW b, NEW t, NotCritical(m, b, t)
  PROVE  \A c \in 1 .. m : \A u \in 1 .. Len(succ[c]) : succ[c][u] = succ[b][t] => c = b /\ u = t
<1> USE DEF NotCritical
<1> SUFFICES ASSUME NEW c \in 1 .. m, NEW u \in 1 .. Len(succ[c]), succ[c][u] = succ[b][t]
             PROVE  c = b /\ u = t
  OBVIOUS
<1>1. PICK d, E : d = succ[b][t] /\ E = PredEdges(d)
  OBVIOUS
<1>2. ASSUME NEW a \in 1 .. m
      PROVE  Len(succ[a]) \in Nat /\ DOMAIN succ[a] = 1 .. Len(succ[a])
  <2>1. PICK B : succ[a] \in Seq(B)
    OBVIOUS
  <2> QED
    BY <2>1
<1>0. \A e : e \in E <=> \E a \in 1 .. m : \E x \in 1 .. Len(succ[a]) : succ[a][x] = d /\ e = <<a, x>>
  <2>1. E = UNION {{<<a, x>> : x \in {y \in DOMAIN succ[a] : succ[a][y] = d}} : a \in 1 .. m}
    BY <1>1 DEF PredEdges
  <2>2. \A e : e \in E <=> \E a \in 1 .. m : e \in {<<a, x>> : x \in {y \in DOMAIN succ[a] : succ[a][y] = d}}
    BY <2>1
  <2>3. ASSUME NEW e \in E
        PROVE  \E a \in 1 .. m : \E x \in 1 .. Len(succ[a]) : succ[a][x] = d /\ e = <<a, x>>
    <3>1. PICK a \in 1 .. m : e \in {<<a, x>> : x \in {y \in DOMAIN succ[a] : succ[a][y] = d}}
      BY <2>2
    <3>2. PICK x \in 1 .. Len(succ[a]) : succ[a][x] = d /\ e = <<a, x>>
      BY <1>2, <3>1
    <3> QED
      BY <3>2
  <2>4. ASSUME NEW e, NEW a \in 1 .. m, NEW x \in 1 .. Len(succ[a]), succ[a][x] = d, e = <<a, x>>
        PROVE  e \in E
    <3>1. e \in {<<a, y>> : y \in {z \in DOMAIN succ[a] : succ[a][z] = d}}
      BY <1>2, <2>4
    <3> QED
      BY <2>2, <3>1
  <2> QED
    BY <2>3, <2>4
<1>3. <<b, t>> \in E /\ <<c, u>> \in E
  BY <1>0, <1>1
<1>4. IsFiniteSet(E)
  <2>1. PICK L : L = [a \in 1 .. m |-> Len(succ[a])]
    OBVIOUS
  <2>2. \A a \in 1 .. m : L[a] \in Nat /\ DOMAIN succ[a] = 1 .. L[a]
    BY <1>2, <2>1
  <2>3. \A e \in E : \E a \in 1 .. m : \E x \in 1 .. L[a] : e = <<a, x>>
    BY <1>0, <2>1
  <2> QED
    BY <2>2, <2>3, PairsFinite
<1>5. Cardinality(E) \in Nat /\ ~(Cardinality(E) > 1)
  <2>1. Cardinality(E) \in Nat
    BY <1>4, FS_CardinalityType
  <2>2. ~(Cardinality(E) > 1)
    BY <1>1 DEF IsCriticalEdge, NotCritical
  <2> QED
    BY <2>1, <2>2
<1>6. ASSUME <<b, t>> # <<c, u>>
      PROVE  FALSE
  <2>1. PICK y, z : y = <<b, t>> /\ z = <<c, u>> /\ y # z /\ y \in E /\ z \in E
    BY <1>3, <1>6
  <2>2. /\ IsFiniteSet(E \ {y}) /\ Cardinality(E \ {y}) = Cardinality(E) - 1
        /\ z \in E \ {y}
    BY <1>4, <2>1, FS_RemoveElement
  <2>3. Cardinality(E \ {y}) = 0
    <3>1. Cardinality(E \ {y}) \in Nat
      BY <2>2, FS_CardinalityType
    <3> QED
      BY <1>5, <2>2, <3>1
  <2> QED
    BY <2>2, <2>3, FS_EmptySet
<1> QED
  BY <1>6

\* The blocks of an instrumented module
LEMMA OldBlocks ==
  ASSUME NEW n, NEW F, NEW sc, Module(n, F, sc), NEW ix, Graph(n, sc, ix)
  PROVE  /\ n \in Nat /\ \A b \in 1 .. n : b \in DOMAIN succ
         /\ DOMAIN head = DOMAIN succ /\ DOMAIN foot = DOMAIN succ
<1>1. PICK m \in Nat : n <= m /\ DOMAIN succ = 1 .. m
  BY DEF Graph
<1>2. n \in Nat
  BY ModuleTypes
<1>3. \A b \in 1 .. n : b \in 1 .. m
  BY <1>1, <1>2
<1> QED
  BY <1>1, <1>2, <1>3 DEF Graph

\* The entry of a function is an old block.
LEMMA EntryKnown ==
  ASSUME NEW n, NEW F, NEW sc, Module(n, F, sc), NEW ix, Graph(n, sc, ix), NEW f \in 1 .. Len(F)
  PROVE  F[f][1] \in 1 .. n /\ F[f][1] \in DOMAIN succ
<1>1. Len(F[f]) \in Nat \ {0} /\ \A k \in 1 .. Len(F[f]) : F[f][k] \in 1 .. n
  BY ModuleTypes
<1>2. F[f][1] \in 1 .. n
  BY <1>1
<1> QED
  BY <1>2, OldBlocks

\* No branch leads to an entry.
LEMMA NoEntry ==
  ASSUME NEW n, NEW F, NEW sc, Module(n, F, sc), NEW b \in 1 .. n, NEW t \in 1 .. Len(sc[b]),
         NEW f \in 1 .. Len(F)
  PROVE  sc[b][t] # F[f][1]
<1>1. \A c \in 1 .. n : \A u \in 1 .. Len(sc[c]) : \A g \in 1 .. Len(F) : sc[c][u] # F[g][1]
  BY DEF Module
<1> QED
  BY <1>1, Zenon

\* Where the edges of the old blocks lead
LEMMA OldLeads ==
  ASSUME NEW n, NEW F, NEW sc, Module(n, F, sc), NEW ix, Graph(n, sc, ix),
         NEW b \in 1 .. n, NEW t \in 1 .. Len(sc[b])
  PROVE  succ[b][t] \in DOMAIN succ /\ \A f \in 1 .. Len(F) : succ[b][t] # F[f][1]
<1>1. succ[b][t] \in 1 .. n => succ[b][t] = sc[b][t]
  BY DEF Graph
<1>2. succ[b][t] \in DOMAIN succ
  <2>0. b \in DOMAIN succ
    BY OldBlocks
  <2>1. PICK D, a : D = DOMAIN succ /\ a = succ[b] /\ a \in Seq(D) /\ Len(a) = Len(sc[b])
    BY <2>0 DEF Graph
  <2>2. t \in 1 .. Len(a)
    BY <2>1
  <2> QED
    BY <2>1, <2>2, ElementOfSeq
<1>3. ASSUME NEW f \in 1 .. Len(F)
      PROVE  succ[b][t] # F[f][1]
  <2>1. sc[b][t] # F[f][1]
    BY NoEntry
  <2>2. F[f][1] \in 1 .. n
    BY EntryKnown
  <2> QED
    BY <1>1, <2>1, <2>2
<1> QED
  BY <1>2, <1>3

\* Where the new blocks lead
LEMMA NewLeads ==
  ASSUME NEW n, NEW F, NEW sc, Module(n, F, sc), NEW ix, Graph(n, sc, ix),
         NEW x \in DOMAIN succ \ (1 .. n)
  PROVE  /\ \E b \in 1 .. n : \E t \in 1 .. Len(sc[b]) : succ[b][t] = x /\ succ[x] = <<sc[b][t]>>
         /\ succ[x][1] \in DOMAIN succ
         /\ \A f \in 1 .. Len(F) : succ[x][1] # F[f][1]
<1>1. PICK b \in 1 .. n : \E t \in 1 .. Len(sc[b]) : succ[b][t] = x
  BY DEF Graph
<1>2. PICK t \in 1 .. Len(sc[b]) : succ[b][t] = x
  BY <1>1
<1>3. succ[x] = <<sc[b][t]>>
  BY <1>2 DEF Graph
<1>4. succ[x][1] = sc[b][t]
  BY <1>3
<1>5. sc[b][t] \in DOMAIN succ
  <2>1. sc[b][t] \in 1 .. n
    BY ModuleTypes
  <2> QED
    BY <2>1, OldBlocks
<1>6. \A f \in 1 .. Len(F) : sc[b][t] # F[f][1]
  BY NoEntry
<1> QED
  BY <1>2, <1>3, <1>4, <1>5, <1>6

\* Before the pass there is no counter, and none is due.
LEMMA InitWired ==
  ASSUME Init, NEW n, NEW F, NEW sc, NEW N, NEW list, NEW ix, NEW first, NEW place,
         Profiled(n, F, sc, N, list, ix, first, place), Graph(n, sc, ix)
  PROVE  Wired(n, F, sc, ix)
<1>1. Fixed(n, F, sc, N, list, ix, first, place) /\ Module(n, F, sc) /\ N \in Nat
  BY DEF Profiled, Fixed
<1>2. /\ succ = sc /\ i = 1 /\ DOMAIN succ = 1 .. n
      /\ head = [b \in 1 .. n |-> <<>>] /\ foot = [b \in 1 .. n |-> <<>>]
  <2>1. Run!Blocks(prog) = 1 .. n /\ prog.succ = sc
    BY DEF Profiled
  <2> QED
    BY <1>1, <2>1, ModuleTypes DEF Init
<1>3. \A c \in 1 .. N : Counted(c, i) = <<>>
  BY <1>1, <1>2 DEF Counted
<1>4. \A b \in 1 .. n : \A t \in 1 .. Len(sc[b]) : foot[b] \o head[succ[b][t]] = Counted(ix[<<b, t>>], i)
  <2>1. ASSUME NEW b \in 1 .. n, NEW t \in 1 .. Len(sc[b])
        PROVE  foot[b] \o head[succ[b][t]] = Counted(ix[<<b, t>>], i)
    <3>1. foot[b] = <<>> /\ head[succ[b][t]] = <<>>
      <4>1. succ[b][t] \in 1 .. n
        BY <1>1, <1>2, OldLeads
      <4> QED
        BY <1>2, <4>1
    <3>2. Counted(ix[<<b, t>>], i) = <<>>
      BY <1>1, <1>3, SlotTypes
    <3> QED
      BY <3>1, <3>2
  <2> QED
    BY <2>1
<1>5. ASSUME NEW f \in 1 .. Len(F)
      PROVE  head[F[f][1]] = Counted(ix[<<0, F[f][1]>>], i)
  <2>1. head[F[f][1]] = <<>>
    BY <1>1, <1>2, EntryKnown
  <2>2. Counted(ix[<<0, F[f][1]>>], i) = <<>>
    BY <1>1, <1>3, SlotTypes
  <2> QED
    BY <2>1, <2>2
<1>6. DOMAIN succ \ (1 .. n) = {}
  BY <1>2
<1> QED
  BY <1>4, <1>5, <1>6 DEF Wired

\* The counters stay where they are when no code changes.
LEMMA WiredStays ==
  ASSUME NEW n, NEW F, NEW sc, NEW ix, Wired(n, F, sc, ix), UNCHANGED <<succ, head, foot, i>>
  PROVE  Wired(n, F, sc, ix)'
BY DEF Wired, Counted

\* The counter of a call
LEMMA EntryWired ==
  ASSUME NEW n, NEW F, NEW sc, NEW N, NEW list, NEW ix, NEW first, NEW place,
         Profiled(n, F, sc, N, list, ix, first, place), Shape(n, F, sc, N, ix, first, place),
         Wired(n, F, sc, ix), InstrumentEntry
  PROVE  Wired(n, F, sc, ix)'
<1>1. /\ Fixed(n, F, sc, N, list, ix, first, place) /\ Module(n, F, sc) /\ N \in Nat
      /\ Graph(n, sc, ix) /\ Layouts(F) /\ Walk(n, F, sc, N, first, place)
      /\ IsIndex(ix, list, N, SlotSet(n, F, sc))
  BY DEF Profiled, Fixed, Shape
<1>2. /\ pc = "function" /\ fi <= Len(layout)
      /\ head' = [head EXCEPT ![layout[fi][1]] = Append(@, i)]
      /\ i' = i + 1 /\ succ' = succ /\ foot' = foot
  BY DEF InstrumentEntry
<1>3. Len(F) \in Nat /\ DOMAIN layout = 1 .. Len(F)
  BY <1>1, ModuleTypes DEF Layouts
<1>4. fi \in 1 .. Len(F) + 1 /\ i = first[fi] + 1 /\ \A f \in fi .. Len(F) : layout[f] = F[f]
  BY <1>1, <1>2 DEF Walk
<1>5. Len(layout) = Len(F)
  BY <1>1, <1>3
<1>6. fi \in 1 .. Len(F) /\ fi \in fi .. Len(F)
  BY <1>2, <1>3, <1>4, <1>5
<1>7. PICK f, e : f = fi /\ e = F[f][1]
  OBVIOUS
<1>8. f \in 1 .. Len(F) /\ layout[f] = F[f] /\ i = first[f] + 1
  BY <1>4, <1>6, <1>7
<1>9. ix[<<0, e>>] = i
  <2>1. \A g \in 1 .. Len(F) : \A c : c = first[g] + 1 => ix[<<0, F[g][1]>>] = c
    BY <1>1, CallIndex
  <2> QED
    BY <1>7, <1>8, <2>1, Zenon
<1>10. PICK S, z : S = SlotSet(n, F, sc) /\ z = <<0, e>> /\ z \in S /\ ix[z] = i
  BY <1>1, <1>7, <1>8, <1>9, SlotTypes
<1>11. /\ Counted(ix[z], i) = <<>> /\ Counted(ix[z], i') = <<i>>
       /\ \A y \in S : y # z => Counted(ix[y], i') = Counted(ix[y], i)
  <2>1. N \in Nat /\ IsIndex(ix, list, N, S) /\ z \in S /\ i = ix[z] /\ i' = i + 1
    BY <1>1, <1>2, <1>10
  <2>2. PlacedNext(ix, S, z, i, i')
    BY <2>1, CountedNext
  <2> QED
    BY <2>2 DEF PlacedNext
<1>12. DOMAIN head = DOMAIN succ /\ e \in DOMAIN succ
  BY <1>1, <1>7, <1>8, EntryKnown, OldBlocks
<1>13. head' = [head EXCEPT ![e] = Append(head[e], i)]
  BY <1>2, <1>7, <1>8
<1>14. head'[e] = <<i>> /\ \A d \in DOMAIN succ : d # e => head'[d] = head[d]
  <2>1. head[e] = <<>>
    BY <1>7, <1>8, <1>10, <1>11 DEF Wired
  <2>2. Append(<<>>, i) = <<i>>
    OBVIOUS
  <2> QED
    BY <1>12, <1>13, <2>1, <2>2
<1>15. ASSUME NEW b \in 1 .. n, NEW t \in 1 .. Len(sc[b])
       PROVE  foot'[b] \o head'[succ'[b][t]] = Counted(ix[<<b, t>>], i')
  <2>1. succ[b][t] \in DOMAIN succ /\ succ[b][t] # e
    BY <1>1, <1>7, <1>8, OldLeads
  <2>2. foot[b] \o head[succ[b][t]] = Counted(ix[<<b, t>>], i)
    BY DEF Wired
  <2>3. <<b, t>> \in S /\ <<b, t>> # z
    BY <1>1, <1>10, SlotTypes
  <2>4. Counted(ix[<<b, t>>], i') = Counted(ix[<<b, t>>], i)
    BY <1>11, <2>3
  <2> QED
    BY <1>2, <1>14, <2>1, <2>2, <2>4
<1>16. ASSUME NEW x \in DOMAIN succ \ (1 .. n)
       PROVE  foot'[x] \o head'[succ'[x][1]] = <<>>
  <2>1. succ[x][1] \in DOMAIN succ /\ succ[x][1] # e
    BY <1>1, <1>7, <1>8, NewLeads
  <2>2. foot[x] \o head[succ[x][1]] = <<>>
    BY DEF Wired
  <2> QED
    BY <1>2, <1>14, <2>1, <2>2
<1>17. ASSUME NEW g \in 1 .. Len(F)
       PROVE  head'[F[g][1]] = Counted(ix[<<0, F[g][1]>>], i')
  <2>1. CASE F[g][1] = e
    BY <1>10, <1>11, <1>14, <2>1
  <2>2. CASE F[g][1] # e
    <3>1. PICK d : d = F[g][1] /\ d # e /\ d \in DOMAIN succ
      BY <1>1, <2>2, EntryKnown
    <3>2. head[d] = Counted(ix[<<0, d>>], i)
      BY <3>1 DEF Wired
    <3>3. <<0, d>> \in S /\ <<0, d>> # z
      BY <1>1, <1>10, <3>1, SlotTypes
    <3> QED
      BY <1>11, <1>14, <3>1, <3>2, <3>3
  <2> QED
    BY <2>1, <2>2
<1> QED
  BY <1>2, <1>15, <1>16, <1>17 DEF Wired

\* The slot whose counter is placed, and what is around it: no counter yet
OnEdge(n, F, sc, N, ix, b, t) ==
  /\ b = block /\ t = s /\ b \in 1 .. n /\ t \in 1 .. Len(sc[b]) /\ Len(succ[b]) = Len(sc[b])
  /\ <<b, t>> \in SlotSet(n, F, sc) /\ ix[<<b, t>>] = i /\ i \in 1 .. N
  /\ succ[b][t] = sc[b][t] /\ sc[b][t] \in 1 .. n
  /\ foot[b] = <<>> /\ head[sc[b][t]] = <<>>

\* InstrumentEdge is at such a slot, and it places the counter of that slot.
LEMMA EdgeSlot ==
  ASSUME NEW n, NEW F, NEW sc, NEW N, NEW list, NEW ix, NEW first, NEW place,
         Profiled(n, F, sc, N, list, ix, first, place), Shape(n, F, sc, N, ix, first, place),
         Wired(n, F, sc, ix), InstrumentEdge
  PROVE  \E b, t : OnEdge(n, F, sc, N, ix, b, t) /\ PlacedNext(ix, SlotSet(n, F, sc), <<b, t>>, i, i')
<1>1. /\ Fixed(n, F, sc, N, list, ix, first, place) /\ Module(n, F, sc) /\ N \in Nat
      /\ Graph(n, sc, ix) /\ IsIndex(ix, list, N, SlotSet(n, F, sc))
  BY DEF Profiled, Fixed, Shape
<1>2. /\ pc = "block" /\ bi <= Len(layout[fi]) /\ block \in BlocksToInstrument
      /\ s <= Len(succ[block]) /\ i' = i + 1
  BY DEF InstrumentEdge
<1>3. PICK b, t, z, S : b = block /\ t = s /\ z = <<b, t>> /\ S = SlotSet(n, F, sc)
  OBVIOUS
<1>4. /\ b \in 1 .. n /\ t \in 1 .. Len(sc[b]) /\ Len(succ[b]) = Len(sc[b])
      /\ ix[<<b, t>>] = i /\ i \in 1 .. N
      /\ succ[b][t] = sc[b][t] /\ sc[b][t] \in 1 .. n
  BY <1>2, <1>3, EdgeFacts
<1>5. z \in S
  BY <1>1, <1>3, <1>4, SlotTypes
<1>6. PlacedNext(ix, S, z, i, i')
  <2>1. N \in Nat /\ IsIndex(ix, list, N, S) /\ i = ix[z] /\ i' = i + 1
    BY <1>1, <1>2, <1>3, <1>4
  <2> QED
    BY <1>5, <2>1, CountedNext
<1>7. foot[b] = <<>> /\ head[sc[b][t]] = <<>>
  <2>1. foot[b] \o head[sc[b][t]] = <<>>
    <3>1. foot[b] \o head[succ[b][t]] = Counted(ix[<<b, t>>], i)
      BY <1>4 DEF Wired
    <3>2. Counted(ix[z], i) = <<>>
      BY <1>6 DEF PlacedNext
    <3> QED
      BY <1>3, <1>4, <3>1, <3>2
  <2>2. b \in DOMAIN succ /\ sc[b][t] \in DOMAIN succ
    BY <1>1, <1>4, OldBlocks
  <2>3. foot[b] \in Seq(Nat) /\ head[sc[b][t]] \in Seq(Nat)
    BY <1>1, <2>2 DEF Graph
  <2> QED
    BY <2>1, <2>3, BothEmpty
<1>8. OnEdge(n, F, sc, N, ix, b, t)
  BY <1>3, <1>4, <1>5, <1>7 DEF OnEdge
<1> QED
  BY <1>3, <1>6, <1>8

\* A counter before the terminator of a block with one successor
LEMMA FootWired ==
  ASSUME NEW n, NEW F, NEW sc, NEW N, NEW ix, Module(n, F, sc), Graph(n, sc, ix), Wired(n, F, sc, ix),
         NEW b, NEW t, OnEdge(n, F, sc, N, ix, b, t), PlacedNext(ix, SlotSet(n, F, sc), <<b, t>>, i, i'),
         Len(succ[b]) = 1, foot' = [foot EXCEPT ![b] = Append(foot[b], i)], UNCHANGED <<succ, head>>
  PROVE  Wired(n, F, sc, ix)'
<1>1. /\ b \in 1 .. n /\ t \in 1 .. 1 /\ Len(sc[b]) = 1 /\ succ[b][t] = sc[b][t]
      /\ foot[b] = <<>> /\ head[sc[b][t]] = <<>>
  BY DEF OnEdge
<1>2. n \in Nat /\ b \in DOMAIN foot /\ DOMAIN foot = DOMAIN succ /\ \A c \in 1 .. n : c \in DOMAIN foot
  BY <1>1, OldBlocks
<1>3. foot'[b] = <<i>> /\ \A c \in DOMAIN succ : c # b => foot'[c] = foot[c]
  <2>1. Append(<<>>, i) = <<i>>
    OBVIOUS
  <2> QED
    BY <1>1, <1>2, <2>1
<1>4. PICK S, z : S = SlotSet(n, F, sc) /\ z = <<b, t>>
  OBVIOUS
<1>5. /\ Counted(ix[z], i') = <<i>>
      /\ \A y \in S : y # z => Counted(ix[y], i') = Counted(ix[y], i)
  BY <1>4 DEF PlacedNext
<1>6. ASSUME NEW c \in 1 .. n, NEW u \in 1 .. Len(sc[c])
      PROVE  foot'[c] \o head'[succ'[c][u]] = Counted(ix[<<c, u>>], i')
  <2>1. CASE c = b
    <3>1. u = t
      BY <1>1, <2>1
    <3>2. <<i>> \o <<>> = <<i>>
      OBVIOUS
    <3> QED
      BY <1>1, <1>3, <1>4, <1>5, <2>1, <3>1, <3>2
  <2>2. CASE c # b
    <3>1. foot[c] \o head[succ[c][u]] = Counted(ix[<<c, u>>], i)
      BY DEF Wired
    <3>2. <<c, u>> \in S /\ <<c, u>> # z
      BY <1>4, <2>2 DEF SlotSet
    <3>3. c \in DOMAIN succ
      BY <1>2
    <3> QED
      BY <1>3, <1>5, <2>2, <3>1, <3>2, <3>3
  <2> QED
    BY <2>1, <2>2
<1>7. ASSUME NEW x \in DOMAIN succ \ (1 .. n)
      PROVE  foot'[x] \o head'[succ'[x][1]] = <<>>
  <2>1. foot[x] \o head[succ[x][1]] = <<>>
    BY DEF Wired
  <2> QED
    BY <1>1, <1>3, <2>1
<1>8. ASSUME NEW g \in 1 .. Len(F)
      PROVE  head'[F[g][1]] = Counted(ix[<<0, F[g][1]>>], i')
  <2>1. head[F[g][1]] = Counted(ix[<<0, F[g][1]>>], i)
    BY DEF Wired
  <2>2. <<0, F[g][1]>> \in S /\ <<0, F[g][1]>> # z
    BY <1>1, <1>2, <1>4 DEF SlotSet
  <2> QED
    BY <1>5, <2>1, <2>2
<1> QED
  BY <1>6, <1>7, <1>8 DEF Wired

\* What PadsUnshared says of the module that is profiled
LEMMA PadOnce ==
  ASSUME PadsUnshared,
         NEW n, NEW F, NEW sc, NEW N, NEW list, NEW ix, NEW first, NEW place,
         Profiled(n, F, sc, N, list, ix, first, place),
         NEW b \in 1 .. n, NEW t \in 1 .. Len(sc[b]), sc[b][t] \in prog.pads, Len(sc[b]) > 1,
         NEW c \in 1 .. n, NEW u \in 1 .. Len(sc[c]), sc[c][u] = sc[b][t]
  PROVE  c = b /\ u = t
<1>1. prog \in Programs /\ prog.succ = sc /\ Module(n, F, sc)
  BY DEF Profiled, Fixed
<1>2. DOMAIN sc = 1 .. n /\ DOMAIN sc[b] = 1 .. Len(sc[b]) /\ DOMAIN sc[c] = 1 .. Len(sc[c])
  BY <1>1, ModuleTypes
<1>3. \A x, y \in DOMAIN sc : \A v \in DOMAIN sc[x], w \in DOMAIN sc[y] :
        sc[x][v] \in prog.pads /\ Len(sc[x]) > 1 /\ sc[y][w] = sc[x][v] => y = x /\ w = v
  BY <1>1 DEF PadsUnshared
<1> QED
  BY <1>2, <1>3

\* The counter of an edge that is not split, of a block that branches, is in a
\* block that only this edge leads to.
LEMMA OnlyThere ==
  ASSUME PadsUnshared,
         NEW n, NEW F, NEW sc, NEW N, NEW list, NEW ix, NEW first, NEW place,
         Profiled(n, F, sc, N, list, ix, first, place), Graph(n, sc, ix),
         NEW b, NEW t, OnEdge(n, F, sc, N, ix, b, t), ~Splits(b, t), Len(succ[b]) # 1
  PROVE  /\ \A c \in 1 .. n : \A u \in 1 .. Len(sc[c]) : succ[c][u] = sc[b][t] => <<c, u>> = <<b, t>>
         /\ \A x \in DOMAIN succ \ (1 .. n) : succ[x][1] # sc[b][t]
<1>1. Fixed(n, F, sc, N, list, ix, first, place) /\ Module(n, F, sc)
  BY DEF Profiled, Fixed
<1>2. PICK d : d = sc[b][t]
  OBVIOUS
<1>3. /\ b \in 1 .. n /\ t \in 1 .. Len(sc[b]) /\ Len(succ[b]) = Len(sc[b])
      /\ succ[b][t] = d /\ d \in 1 .. n
  BY <1>2 DEF OnEdge
<1>4. Len(sc[b]) > 1
  <2>1. PICK l : l = Len(sc[b]) /\ l \in Nat
    BY <1>1, <1>3, ModuleTypes
  <2>2. t \in 1 .. l /\ l # 1
    BY <1>3, <2>1
  <2>3. l > 1
    <3>1. l \in Nat
      BY <2>1
    <3>2. \A y \in 1 .. l : 1 <= y /\ y <= l /\ y \in Int
      BY <3>1
    <3>3. PICK y : y = t /\ y \in Int /\ 1 <= y /\ y <= l
      BY <2>2, <3>2
    <3> QED
      BY <2>2, <3>1, <3>3
  <2> QED
    BY <2>1, <2>3
<1>5. PICK m \in Nat : n <= m /\ DOMAIN succ = 1 .. m
  BY DEF Graph
<1>6. \A c \in 1 .. n : c \in 1 .. m /\ Len(succ[c]) = Len(sc[c])
  <2>1. \A c \in 1 .. n : c \in 1 .. m
    BY <1>1, <1>5, OldBlocks
  <2>2. \A c \in 1 .. n : Len(succ[c]) = Len(sc[c])
    BY DEF Graph
  <2> QED
    BY <2>1, <2>2
<1>7. CASE ~IsCriticalEdge(b, t)
  <2>1. ASSUME NEW c \in 1 .. m, NEW u \in 1 .. Len(succ[c]), succ[c][u] = d
        PROVE  c = b /\ u = t
    <3>1. \A a \in 1 .. m : succ[a] \in Seq(1 .. m)
      BY <1>5 DEF Graph
    <3>2. m \in Nat /\ b \in 1 .. m /\ t \in 1 .. Len(succ[b]) /\ Len(succ[b]) > 1
      BY <1>3, <1>4, <1>6
    <3>3. \A a \in 1 .. m : \A y \in 1 .. Len(succ[a]) : succ[a][y] = succ[b][t] => a = b /\ y = t
      <4>1. NotCritical(m, b, t)
        BY <1>5, <1>7, <3>1, <3>2 DEF NotCritical
      <4> QED
        BY <4>1, OnlyEdge
    <3> QED
      BY <1>3, <2>1, <3>3
  <2>2. ASSUME NEW x \in DOMAIN succ \ (1 .. n), succ[x][1] = d
        PROVE  FALSE
    <3>1. \E c \in 1 .. n : \E u \in 1 .. Len(sc[c]) : succ[c][u] = x /\ succ[x] = <<sc[c][u]>>
      BY <1>1, NewLeads
    <3>2. 1 \in 1 .. Len(succ[x])
      BY <3>1
    <3>3. x = b
      BY <1>5, <2>1, <2>2, <3>2
    <3> QED
      BY <1>3, <3>3
  <2>3. \A c \in 1 .. n : \A u \in 1 .. Len(sc[c]) : succ[c][u] = d => c = b /\ u = t
    BY <1>6, <2>1
  <2> QED
    BY <1>2, <2>2, <2>3
<1>8. CASE d \in prog.pads
  <2>1. ASSUME NEW c \in 1 .. n, NEW u \in 1 .. Len(sc[c]), sc[c][u] = d
        PROVE  c = b /\ u = t
    BY <1>2, <1>3, <1>4, <1>8, <2>1, PadOnce
  <2>2. ASSUME NEW c \in 1 .. n, NEW u \in 1 .. Len(sc[c]), succ[c][u] = d
        PROVE  c = b /\ u = t
    <3>1. sc[c][u] = d
      BY <1>3, <2>2 DEF Graph
    <3> QED
      BY <2>1, <3>1
  <2>3. ASSUME NEW x \in DOMAIN succ \ (1 .. n), succ[x][1] = d
        PROVE  FALSE
    <3>1. PICK c \in 1 .. n : \E u \in 1 .. Len(sc[c]) : succ[c][u] = x /\ succ[x] = <<sc[c][u]>>
      BY <1>1, NewLeads
    <3>2. PICK u \in 1 .. Len(sc[c]) : succ[c][u] = x /\ succ[x] = <<sc[c][u]>>
      BY <3>1
    <3>3. sc[c][u] = d
      BY <2>3, <3>2
    <3>4. c = b /\ u = t
      BY <2>1, <3>3
    <3> QED
      BY <1>3, <3>2, <3>4
  <2> QED
    BY <1>2, <2>2, <2>3
<1>9. ~IsCriticalEdge(b, t) \/ d \in prog.pads
  BY <1>3 DEF Splits
<1> QED
  BY <1>7, <1>8, <1>9

\* A counter at the start of such a block
LEMMA HeadWired ==
  ASSUME NEW n, NEW F, NEW sc, NEW N, NEW ix, Module(n, F, sc), Graph(n, sc, ix), Wired(n, F, sc, ix),
         NEW b, NEW t, OnEdge(n, F, sc, N, ix, b, t), PlacedNext(ix, SlotSet(n, F, sc), <<b, t>>, i, i'),
         \A c \in 1 .. n : \A u \in 1 .. Len(sc[c]) : succ[c][u] = sc[b][t] => <<c, u>> = <<b, t>>,
         \A x \in DOMAIN succ \ (1 .. n) : succ[x][1] # sc[b][t],
         head' = [head EXCEPT ![succ[b][t]] = Append(head[succ[b][t]], i)], UNCHANGED <<succ, foot>>
  PROVE  Wired(n, F, sc, ix)'
<1>1. PICK d : d = sc[b][t]
  OBVIOUS
<1>2. /\ b \in 1 .. n /\ t \in 1 .. Len(sc[b]) /\ succ[b][t] = d /\ d \in 1 .. n
      /\ foot[b] = <<>> /\ head[d] = <<>>
  BY <1>1 DEF OnEdge
<1>3. n \in Nat /\ d \in DOMAIN head /\ DOMAIN head = DOMAIN succ
  BY <1>2, OldBlocks
<1>4. head'[d] = <<i>> /\ \A c \in DOMAIN succ : c # d => head'[c] = head[c]
  <2>1. Append(<<>>, i) = <<i>>
    OBVIOUS
  <2> QED
    BY <1>2, <1>3, <2>1
<1>5. PICK S, z : S = SlotSet(n, F, sc) /\ z = <<b, t>>
  OBVIOUS
<1>6. /\ Counted(ix[z], i') = <<i>>
      /\ \A y \in S : y # z => Counted(ix[y], i') = Counted(ix[y], i)
  BY <1>5 DEF PlacedNext
<1>7. ASSUME NEW c \in 1 .. n, NEW u \in 1 .. Len(sc[c])
      PROVE  foot'[c] \o head'[succ'[c][u]] = Counted(ix[<<c, u>>], i')
  <2>1. CASE succ[c][u] = d
    <3>1. <<c, u>> = z /\ c = b
      BY <1>1, <1>5, <2>1
    <3>2. <<>> \o <<i>> = <<i>>
      OBVIOUS
    <3> QED
      BY <1>2, <1>4, <1>6, <2>1, <3>1, <3>2
  <2>2. CASE succ[c][u] # d
    <3>1. foot[c] \o head[succ[c][u]] = Counted(ix[<<c, u>>], i)
      BY DEF Wired
    <3>2. <<c, u>> \in S
      BY <1>5 DEF SlotSet
    <3>3. <<c, u>> # z
      BY <1>2, <1>5, <2>2
    <3>4. succ[c][u] \in DOMAIN succ
      BY OldLeads
    <3> QED
      BY <1>4, <1>6, <2>2, <3>1, <3>2, <3>3, <3>4
  <2> QED
    BY <2>1, <2>2
<1>8. ASSUME NEW x \in DOMAIN succ \ (1 .. n)
      PROVE  foot'[x] \o head'[succ'[x][1]] = <<>>
  <2>1. foot[x] \o head[succ[x][1]] = <<>>
    BY DEF Wired
  <2>2. succ[x][1] # d /\ succ[x][1] \in DOMAIN succ
    BY <1>1, NewLeads
  <2> QED
    BY <1>4, <2>1, <2>2
<1>9. ASSUME NEW g \in 1 .. Len(F)
      PROVE  head'[F[g][1]] = Counted(ix[<<0, F[g][1]>>], i')
  <2>1. head[F[g][1]] = Counted(ix[<<0, F[g][1]>>], i)
    BY DEF Wired
  <2>2. <<0, F[g][1]>> \in S /\ <<0, F[g][1]>> # z
    BY <1>2, <1>3, <1>5 DEF SlotSet
  <2>3. F[g][1] # d /\ F[g][1] \in DOMAIN succ
    BY <1>1, <1>2, NoEntry, EntryKnown
  <2> QED
    BY <1>4, <1>6, <2>1, <2>2, <2>3
<1> QED
  BY <1>7, <1>8, <1>9 DEF Wired

\* A counter in a new block
LEMMA SplitWired ==
  ASSUME NEW n, NEW F, NEW sc, NEW N, NEW ix, Module(n, F, sc), Graph(n, sc, ix), Wired(n, F, sc, ix),
         NEW b, NEW t, OnEdge(n, F, sc, N, ix, b, t), PlacedNext(ix, SlotSet(n, F, sc), <<b, t>>, i, i'),
         NEW m \in Nat, DOMAIN succ = 1 .. m, IsSplit(succ', succ, m, b, t),
         head' = [c \in 1 .. m + 1 |-> IF c = m + 1 THEN <<i>> ELSE head[c]],
         foot' = [c \in 1 .. m + 1 |-> IF c = m + 1 THEN <<>> ELSE foot[c]]
  PROVE  Wired(n, F, sc, ix)'
<1>1. PICK d, x, S, z : d = sc[b][t] /\ x = m + 1 /\ S = SlotSet(n, F, sc) /\ z = <<b, t>>
  OBVIOUS
<1>2. /\ b \in 1 .. n /\ t \in 1 .. Len(sc[b]) /\ succ[b][t] = d /\ d \in 1 .. n
      /\ foot[b] = <<>> /\ head[d] = <<>> /\ Len(succ[b]) = Len(sc[b])
  BY <1>1 DEF OnEdge
<1>3. n \in Nat /\ (\A c \in 1 .. n : c \in 1 .. m) /\ \A c \in 1 .. n : Len(succ[c]) = Len(sc[c])
  <2>1. n \in Nat /\ \A c \in 1 .. n : c \in 1 .. m
    BY OldBlocks
  <2>2. \A c \in 1 .. n : Len(succ[c]) = Len(sc[c])
    BY DEF Graph
  <2> QED
    BY <2>1, <2>2
<1>4. /\ head'[x] = <<i>> /\ foot'[x] = <<>>
      /\ \A c \in 1 .. m : head'[c] = head[c] /\ foot'[c] = foot[c]
  <2>1. x \in 1 .. m + 1 /\ \A c \in 1 .. m : c \in 1 .. m + 1 /\ c # m + 1
    BY <1>1
  <2> QED
    BY <1>1, <2>1
<1>5. /\ DOMAIN succ' = 1 .. x /\ succ'[x] = <<d>>
      /\ \A c \in 1 .. m : c # b => succ'[c] = succ[c]
      /\ succ'[b][t] = x
      /\ \A u \in 1 .. Len(sc[b]) : u # t => succ'[b][u] = succ[b][u]
  BY <1>1, <1>2 DEF IsSplit
<1>6. /\ Counted(ix[z], i') = <<i>>
      /\ \A y \in S : y # z => Counted(ix[y], i') = Counted(ix[y], i)
  BY <1>1 DEF PlacedNext
<1>7. ASSUME NEW c \in 1 .. n, NEW u \in 1 .. Len(sc[c])
      PROVE  foot'[c] \o head'[succ'[c][u]] = Counted(ix[<<c, u>>], i')
  <2>1. CASE c = b /\ u = t
    <3>1. <<>> \o <<i>> = <<i>>
      OBVIOUS
    <3>2. foot'[b] = <<>> /\ b \in 1 .. m
      BY <1>2, <1>3, <1>4
    <3> QED
      BY <1>1, <1>4, <1>5, <1>6, <2>1, <3>1, <3>2
  <2>2. CASE ~(c = b /\ u = t)
    <3>1. foot[c] \o head[succ[c][u]] = Counted(ix[<<c, u>>], i)
      BY DEF Wired
    <3>2. <<c, u>> \in S
      BY <1>1 DEF SlotSet
    <3>3. <<c, u>> # z
      BY <1>1, <2>2
    <3>4. succ[c][u] \in 1 .. m
      BY OldLeads
    <3>5. succ'[c][u] = succ[c][u]
      BY <1>3, <1>5, <2>2
    <3>6. foot'[c] = foot[c] /\ head'[succ[c][u]] = head[succ[c][u]]
      BY <1>3, <1>4, <3>4
    <3> QED
      BY <1>6, <3>1, <3>2, <3>3, <3>5, <3>6
  <2> QED
    BY <2>1, <2>2
<1>8. ASSUME NEW y \in (1 .. x) \ (1 .. n)
      PROVE  foot'[y] \o head'[succ'[y][1]] = <<>>
  <2>1. CASE y = x
    <3>1. succ'[y][1] = d /\ foot'[y] = <<>>
      BY <1>4, <1>5, <2>1
    <3>2. head'[d] = <<>>
      BY <1>2, <1>3, <1>4
    <3>3. <<>> \o <<>> = <<>>
      OBVIOUS
    <3> QED
      BY <3>1, <3>2, <3>3
  <2>2. CASE y # x
    <3>1. y \in 1 .. m /\ y # b
      BY <1>1, <1>2, <2>2
    <3>2. foot[y] \o head[succ[y][1]] = <<>> /\ succ[y][1] \in 1 .. m
      BY <3>1, NewLeads DEF Wired
    <3> QED
      BY <1>4, <1>5, <3>1, <3>2
  <2> QED
    BY <2>1, <2>2
<1>9. ASSUME NEW g \in 1 .. Len(F)
      PROVE  head'[F[g][1]] = Counted(ix[<<0, F[g][1]>>], i')
  <2>1. head[F[g][1]] = Counted(ix[<<0, F[g][1]>>], i)
    BY DEF Wired
  <2>2. <<0, F[g][1]>> \in S /\ <<0, F[g][1]>> # z
    BY <1>1, <1>2, <1>3 DEF SlotSet
  <2>3. F[g][1] \in 1 .. m
    BY EntryKnown
  <2> QED
    BY <1>4, <1>6, <2>1, <2>2, <2>3
<1> QED
  BY <1>5, <1>7, <1>8, <1>9 DEF Wired

\* The edge is split: its new block is the last, and has the counter alone.
SplitAt(b, t) ==
  \E m \in Nat :
    /\ DOMAIN succ = 1 .. m /\ IsSplit(succ', succ, m, b, t)
    /\ head' = [c \in 1 .. m + 1 |-> IF c = m + 1 THEN <<i>> ELSE head[c]]
    /\ foot' = [c \in 1 .. m + 1 |-> IF c = m + 1 THEN <<>> ELSE foot[c]]

\* Where a counter for an edge goes when the edge is split
LEMMA SplitStep ==
  ASSUME NEW n, NEW F, NEW sc, NEW N, NEW list, NEW ix, NEW first, NEW place,
         Profiled(n, F, sc, N, list, ix, first, place), Shape(n, F, sc, N, ix, first, place),
         InstrumentEdge, NEW b, NEW t, OnEdge(n, F, sc, N, ix, b, t), Splits(b, t)
  PROVE  SplitAt(b, t)
<1>1. Graph(n, sc, ix) /\ n \in Nat
  BY ModuleTypes DEF Profiled, Fixed, Shape
<1>2. /\ b = block /\ t = s /\ b \in 1 .. n /\ t \in 1 .. Len(succ[b])
  BY DEF OnEdge
<1>3. /\ succ' = Split(b, t)
      /\ head' = [c \in DOMAIN succ' |-> IF c = NewBlock THEN <<i>> ELSE head[c]]
      /\ foot' = [c \in DOMAIN succ' |-> IF c = NewBlock THEN <<>> ELSE foot[c]]
  BY <1>2 DEF InstrumentEdge
<1>4. PICK m : m \in Nat /\ n <= m /\ DOMAIN succ = 1 .. m
  BY <1>1 DEF Graph
<1>5. NewBlock = m + 1 /\ IsSplit(succ', succ, m, b, t)
  <2>1. b \in 1 .. m
    BY <1>1, <1>2, <1>4
  <2>2. \A c \in 1 .. m : succ[c] \in Seq(1 .. m)
    BY <1>1, <1>4 DEF Graph
  <2>3. NewBlock = m + 1 /\ IsSplit(Split(b, t), succ, m, b, t)
    BY <1>2, <1>4, <2>1, <2>2, SplitFacts
  <2> QED
    BY <1>3, <2>3
<1>6. DOMAIN succ' = 1 .. m + 1
  BY <1>5 DEF IsSplit
<1>7. /\ head' = [c \in 1 .. m + 1 |-> IF c = m + 1 THEN <<i>> ELSE head[c]]
      /\ foot' = [c \in 1 .. m + 1 |-> IF c = m + 1 THEN <<>> ELSE foot[c]]
  BY <1>3, <1>5, <1>6
<1>8. m \in Nat
  BY <1>1, <1>4
<1> QED
  BY <1>4, <1>5, <1>7, <1>8, Zenon DEF SplitAt

\* The counter of an edge
LEMMA EdgeWired ==
  ASSUME PadsUnshared,
         NEW n, NEW F, NEW sc, NEW N, NEW list, NEW ix, NEW first, NEW place,
         Profiled(n, F, sc, N, list, ix, first, place), Shape(n, F, sc, N, ix, first, place),
         Wired(n, F, sc, ix), InstrumentEdge
  PROVE  Wired(n, F, sc, ix)'
<1>1. Module(n, F, sc) /\ Graph(n, sc, ix)
  BY DEF Profiled, Fixed, Shape
<1>2. PICK b, t : OnEdge(n, F, sc, N, ix, b, t) /\ PlacedNext(ix, SlotSet(n, F, sc), <<b, t>>, i, i')
  BY EdgeSlot
<1>3. CASE Splits(b, t)
  <2>1. PICK m \in Nat :
           /\ DOMAIN succ = 1 .. m /\ IsSplit(succ', succ, m, b, t)
           /\ head' = [c \in 1 .. m + 1 |-> IF c = m + 1 THEN <<i>> ELSE head[c]]
           /\ foot' = [c \in 1 .. m + 1 |-> IF c = m + 1 THEN <<>> ELSE foot[c]]
    <3>1. OnEdge(n, F, sc, N, ix, b, t) /\ Splits(b, t)
      BY <1>2, <1>3, Zenon
    <3> QED
      <4>1. SplitAt(b, t)
        BY <3>1, SplitStep
      <4> QED
        BY <4>1, Zenon DEF SplitAt
  <2> QED
    BY <1>1, <1>2, <2>1, SplitWired
<1>4. CASE ~Splits(b, t)
  <2>1. /\ Len(succ[b]) = 1 => foot' = [foot EXCEPT ![b] = Append(foot[b], i)] /\ head' = head
        /\ Len(succ[b]) # 1 => head' = [head EXCEPT ![succ[b][t]] = Append(head[succ[b][t]], i)] /\ foot' = foot
        /\ succ' = succ
    <3>1. b = block /\ t = s
      BY <1>2 DEF OnEdge
    <3> QED
      BY <1>4, <3>1 DEF InstrumentEdge
  <2>2. CASE Len(succ[b]) = 1
    <3>1. foot' = [foot EXCEPT ![b] = Append(foot[b], i)] /\ UNCHANGED <<succ, head>>
      BY <2>1, <2>2
    <3> QED
      BY <1>1, <1>2, <2>2, <3>1, FootWired
  <2>3. CASE Len(succ[b]) # 1
    <3>1. /\ head' = [head EXCEPT ![succ[b][t]] = Append(head[succ[b][t]], i)]
          /\ UNCHANGED <<succ, foot>>
      BY <2>1, <2>3
    <3>2. /\ \A c \in 1 .. n : \A u \in 1 .. Len(sc[c]) : succ[c][u] = sc[b][t] => <<c, u>> = <<b, t>>
          /\ \A x \in DOMAIN succ \ (1 .. n) : succ[x][1] # sc[b][t]
      BY <1>1, <1>2, <1>4, <2>3, OnlyThere
    <3> QED
      BY <1>1, <1>2, <3>1, <3>2, HeadWired
  <2> QED
    BY <2>2, <2>3
<1> QED
  BY <1>3, <1>4

\* Every step keeps the counters where they belong.
LEMMA WiredStep ==
  ASSUME PadsUnshared,
         NEW n, NEW F, NEW sc, NEW N, NEW list, NEW ix, NEW first, NEW place,
         Profiled(n, F, sc, N, list, ix, first, place), Shape(n, F, sc, N, ix, first, place),
         Wired(n, F, sc, ix), [Next]_vars
  PROVE  Wired(n, F, sc, ix)'
<1>1. InstrumentEntry \/ InstrumentEdge \/ UNCHANGED <<succ, head, foot, i>>
  <2>1. CASE Begin \/ FinishInstrumentation \/ NextBlock \/ NextFunction \/ UNCHANGED vars
    BY <2>1 DEF Begin, FinishInstrumentation, NextBlock, NextFunction, vars, passVars
  <2>2. CASE Execute \/ Load
    BY <2>2 DEF Execute, Call, Take, End, Load, passVars
  <2> QED
    BY <2>1, <2>2 DEF Next, Instrument
<1>2. CASE InstrumentEntry
  BY <1>2, EntryWired
<1>3. CASE InstrumentEdge
  BY <1>3, EdgeWired
<1>4. CASE UNCHANGED <<succ, head, foot, i>>
  BY <1>4, WiredStays
<1> QED
  BY <1>1, <1>2, <1>3, <1>4

-----------------------------------------------------------------------------
(* The counts *)

\* The words that Bump changes: none, or one
LEMMA BumpNone ==
  ASSUME NEW N \in Nat, counters \in [1 .. N -> 0 .. Uncounted], Bump(<<>>)
  PROVE  counters' = counters
<1>1. \A c \in 1 .. N : (counters[c] + Cardinality({n \in DOMAIN <<>> : <<>>[n] = c})) % (Uncounted + 1) = counters[c]
  <2> TAKE c \in 1 .. N
  <2>1. Cardinality({n \in DOMAIN <<>> : <<>>[n] = c}) = 0
    BY FS_EmptySet
  <2>2. PICK x : x = counters[c] /\ x \in 0 .. Uncounted
    OBVIOUS
  <2>3. (x + 0) % (Uncounted + 1) = x
    BY <2>2, ModSmall, BoundsAssumption
  <2> QED
    BY <2>1, <2>2, <2>3
<1>2. PICK v : v = counters /\ v \in [1 .. N -> 0 .. Uncounted]
  OBVIOUS
<1>3. counters' = [c \in 1 .. N |-> v[c]]
  BY <1>1, <1>2 DEF Bump
<1> QED
  BY <1>2, <1>3

\* One: the word of that counter, which wraps.
LEMMA BumpOne ==
  ASSUME NEW N \in Nat, counters \in [1 .. N -> 0 .. Uncounted], NEW d \in 1 .. N, Bump(<<d>>)
  PROVE  counters' = [counters EXCEPT ![d] = (counters[d] + 1) % (Uncounted + 1)]
<1> DEFINE Times(c) == Cardinality({n \in DOMAIN <<d>> : <<d>>[n] = c})
<1>1. counters' = [c \in 1 .. N |-> (counters[c] + Times(c)) % (Uncounted + 1)]
  BY DEF Bump
<1>2. Times(d) = 1
  <2>1. {n \in DOMAIN <<d>> : <<d>>[n] = d} = {1}
    OBVIOUS
  <2> QED
    BY <2>1, FS_Singleton
<1>3. ASSUME NEW c \in 1 .. N, c # d
      PROVE  (counters[c] + Times(c)) % (Uncounted + 1) = counters[c]
  <2>1. {n \in DOMAIN <<d>> : <<d>>[n] = c} = {}
    BY <1>3
  <2>2. Times(c) = 0
    BY <2>1, FS_EmptySet
  <2>3. PICK x : x = counters[c] /\ x \in 0 .. Uncounted
    OBVIOUS
  <2>4. (x + 0) % (Uncounted + 1) = x
    BY <2>3, ModSmall, BoundsAssumption
  <2> QED
    BY <2>2, <2>3, <2>4
<1> HIDE DEF Times
<1>4. DOMAIN counters' = 1 .. N /\ \A c \in 1 .. N : counters'[c] = (counters[c] + Times(c)) % (Uncounted + 1)
  BY <1>1
<1>5. counters'[d] = (counters[d] + 1) % (Uncounted + 1) /\ \A c \in 1 .. N : c # d => counters'[c] = counters[c]
  BY <1>2, <1>3, <1>4
<1>6. counters' = [c \in 1 .. N |-> counters'[c]]
  BY <1>1
<1>7. PICK v, g : /\ v = counters /\ v \in [1 .. N -> 0 .. Uncounted] /\ g = counters'
                 /\ g = [c \in 1 .. N |-> g[c]] /\ g[d] = (v[d] + 1) % (Uncounted + 1)
                 /\ \A c \in 1 .. N : c # d => g[c] = v[c]
  BY <1>5, <1>6
<1>8. g = [v EXCEPT ![d] = (v[d] + 1) % (Uncounted + 1)]
  BY <1>7
<1> QED
  BY <1>7, <1>8

\* Slot z is taken, and its counter c counts it.
OneMore(z, c) ==
  /\ counters' = [counters EXCEPT ![c] = (counters[c] + 1) % (Uncounted + 1)]
  /\ taken' = [taken EXCEPT ![z] = taken[z] + 1]

\* Once instrumentation is done every slot has its counter.
LEMMA AllCounted ==
  ASSUME NEW n, NEW F, NEW sc, NEW N, NEW list, NEW ix, NEW first, NEW place,
         Profiled(n, F, sc, N, list, ix, first, place), Shape(n, F, sc, N, ix, first, place), pc = "run",
         NEW z \in SlotSet(n, F, sc)
  PROVE  ix[z] \in 1 .. N /\ Counted(ix[z], i) = <<ix[z]>>
<1>1. /\ N \in Nat /\ IsIndex(ix, list, N, SlotSet(n, F, sc)) /\ i = N + 1
  BY DEF Profiled, Fixed, Shape, Walk
<1>2. ix[z] \in 1 .. N
  BY <1>1 DEF IsIndex
<1>3. ix[z] < i
  BY <1>1, <1>2
<1> QED
  BY <1>2, <1>3 DEF Counted

\* A call counts the slot of the call.
LEMMA CallEffect ==
  ASSUME NEW n, NEW F, NEW sc, NEW N, NEW list, NEW ix, NEW first, NEW place,
         Profiled(n, F, sc, N, list, ix, first, place), Shape(n, F, sc, N, ix, first, place),
         Wired(n, F, sc, ix), NEW e \in Run!Entries(prog), Call(e)
  PROVE  \A z : z = <<0, e>> => z \in SlotSet(n, F, sc) /\ OneMore(z, ix[z])
<1>1. /\ Fixed(n, F, sc, N, list, ix, first, place) /\ Module(n, F, sc) /\ N \in Nat
      /\ counters \in [1 .. N -> 0 .. Uncounted]
  BY DEF Profiled, Fixed, Shape, RunTypes
<1>2. pc = "run" /\ Bump(head[e]) /\ taken' = [taken EXCEPT ![<<0, e>>] = @ + 1]
  BY DEF Call
<1>3. PICK f \in 1 .. Len(F) : e = F[f][1]
  <2>1. Run!Entries(prog) = {F[f][1] : f \in 1 .. Len(F)}
    BY DEF Profiled
  <2> QED
    BY <2>1
<1>4. PICK z : z = <<0, e>> /\ z \in SlotSet(n, F, sc)
  BY <1>1, <1>3, SlotTypes
<1>5. PICK c : c = ix[z] /\ c \in 1 .. N /\ Counted(c, i) = <<c>>
  BY <1>2, <1>4, AllCounted
<1>6. head[e] = <<c>>
  BY <1>3, <1>4, <1>5 DEF Wired
<1>7. counters' = [counters EXCEPT ![c] = (counters[c] + 1) % (Uncounted + 1)]
  BY <1>1, <1>2, <1>5, <1>6, BumpOne
<1> QED
  BY <1>2, <1>4, <1>5, <1>7 DEF OneMore

\* An edge of an old block counts its slot.
LEMMA TakeEffect ==
  ASSUME NEW n, NEW F, NEW sc, NEW N, NEW list, NEW ix, NEW first, NEW place,
         Profiled(n, F, sc, N, list, ix, first, place), Shape(n, F, sc, N, ix, first, place),
         Wired(n, F, sc, ix), NEW t, Take(t), at \in 1 .. n
  PROVE  /\ t \in 1 .. Len(sc[at])
         /\ \A z : z = <<at, t>> => z \in SlotSet(n, F, sc) /\ OneMore(z, ix[z])
<1>1. /\ Fixed(n, F, sc, N, list, ix, first, place) /\ Module(n, F, sc) /\ N \in Nat /\ Graph(n, sc, ix)
      /\ counters \in [1 .. N -> 0 .. Uncounted] /\ BlocksToInstrument = 1 .. n
  BY DEF Profiled, Fixed, Shape, RunTypes, BlocksToInstrument
<1>2. /\ pc = "run" /\ t \in DOMAIN succ[at] /\ Bump(foot[at] \o head[succ[at][t]])
      /\ taken' = [taken EXCEPT ![<<at, t>>] = @ + 1]
  BY <1>1 DEF Take
<1>3. PICK b : b = at /\ b \in 1 .. n
  OBVIOUS
<1>4. t \in 1 .. Len(sc[b])
  <2>1. b \in DOMAIN succ
    BY <1>1, <1>3, OldBlocks
  <2>2. PICK D, a : D = DOMAIN succ /\ a = succ[b] /\ a \in Seq(D) /\ Len(a) = Len(sc[b])
    BY <1>1, <1>3, <2>1 DEF Graph
  <2>3. t \in 1 .. Len(a)
    BY <1>2, <1>3, <2>2
  <2> QED
    BY <2>2, <2>3
<1>5. PICK z : z = <<b, t>> /\ z \in SlotSet(n, F, sc)
  BY <1>1, <1>3, <1>4, SlotTypes
<1>6. PICK c : c = ix[z] /\ c \in 1 .. N /\ Counted(c, i) = <<c>>
  BY <1>2, <1>5, AllCounted
<1>7. foot[b] \o head[succ[b][t]] = <<c>>
  BY <1>3, <1>4, <1>5, <1>6 DEF Wired
<1>8. counters' = [counters EXCEPT ![c] = (counters[c] + 1) % (Uncounted + 1)]
  <2>1. Bump(<<c>>)
    BY <1>2, <1>3, <1>7
  <2> QED
    BY <1>1, <1>6, <2>1, BumpOne
<1> QED
  BY <1>2, <1>3, <1>4, <1>5, <1>6, <1>8 DEF OneMore

\* The way out of a new block counts nothing.
LEMMA TakeNew ==
  ASSUME NEW n, NEW F, NEW sc, NEW N, NEW list, NEW ix, NEW first, NEW place,
         Profiled(n, F, sc, N, list, ix, first, place), Shape(n, F, sc, N, ix, first, place),
         Wired(n, F, sc, ix), NEW t, Take(t), at \notin 1 .. n
  PROVE  t = 1 /\ counters' = counters /\ taken' = taken
<1>1. /\ Fixed(n, F, sc, N, list, ix, first, place) /\ Module(n, F, sc) /\ N \in Nat /\ Graph(n, sc, ix)
      /\ counters \in [1 .. N -> 0 .. Uncounted] /\ BlocksToInstrument = 1 .. n
      /\ at \in DOMAIN succ \cup {Idle}
  BY DEF Profiled, Fixed, Shape, RunTypes, BlocksToInstrument
<1>2. /\ t \in DOMAIN succ[at] /\ Bump(foot[at] \o head[succ[at][t]])
      /\ taken' = taken /\ at # Idle
  BY <1>1 DEF Take
<1>3. PICK x : x = at /\ x \in DOMAIN succ \ (1 .. n)
  BY <1>1, <1>2
<1>4. t = 1
  <2>1. PICK b \in 1 .. n : \E u \in 1 .. Len(sc[b]) : succ[b][u] = x /\ succ[x] = <<sc[b][u]>>
    BY <1>1, <1>3, NewLeads
  <2>2. PICK d : succ[x] = <<d>>
    BY <2>1
  <2>3. DOMAIN <<d>> = {1}
    OBVIOUS
  <2> QED
    BY <1>2, <1>3, <2>2, <2>3
<1>5. foot[x] \o head[succ[x][1]] = <<>>
  BY <1>3 DEF Wired
<1>6. Bump(<<>>)
  BY <1>2, <1>3, <1>4, <1>5
<1>7. counters' = counters
  BY <1>1, <1>6, BumpNone
<1> QED
  BY <1>2, <1>4, <1>7

\* Each counter has the number of times its slot was taken, in a word.
CountsTrue(S, ix) == \A z \in S : counters[ix[z]] = taken[z] % (Uncounted + 1)

\* Nothing was taken, and the counters are zero.
LEMMA CountsInit ==
  ASSUME Init, NEW n, NEW F, NEW sc, NEW N, NEW list, NEW ix, NEW first, NEW place,
         Profiled(n, F, sc, N, list, ix, first, place), NEW S, S = SlotSet(n, F, sc)
  PROVE  CountsTrue(S, ix)
<1>1. /\ ix \in [S -> 1 .. N] /\ counters = [c \in 1 .. N |-> 0] /\ taken = [z \in S |-> 0]
  BY DEF Init, Profiled, Fixed, IsIndex
<1>2. 0 % (Uncounted + 1) = 0
  BY BoundsAssumption
<1>3. ASSUME NEW z \in S
      PROVE  counters[ix[z]] = 0 /\ taken[z] = 0
  BY <1>1
<1> QED
  BY <1>2, <1>3 DEF CountsTrue

\* Counting a slot in its counter and nowhere else keeps that.
LEMMA CountsMore ==
  ASSUME NEW S, NEW N, NEW list, NEW ix, IsIndex(ix, list, N, S), NEW z \in S, OneMore(z, ix[z]),
         counters \in [1 .. N -> 0 .. Uncounted], taken \in [S -> Nat], CountsTrue(S, ix)
  PROVE  CountsTrue(S, ix)'
<1>1. PICK c : c = ix[z] /\ c \in 1 .. N
  BY DEF IsIndex
<1>2. /\ counters' = [counters EXCEPT ![c] = (counters[c] + 1) % (Uncounted + 1)]
      /\ taken' = [taken EXCEPT ![z] = taken[z] + 1]
  BY <1>1 DEF OneMore
<1>3. ASSUME NEW y \in S
      PROVE  counters'[ix[y]] = taken'[y] % (Uncounted + 1)
  <2>1. CASE y = z
    <3>1. counters'[c] = (counters[c] + 1) % (Uncounted + 1) /\ taken'[z] = taken[z] + 1
      BY <1>1, <1>2
    <3>2. counters[c] = taken[z] % (Uncounted + 1)
      BY <1>1 DEF CountsTrue
    <3>3. PICK a, M : a = taken[z] /\ a \in Nat /\ M = Uncounted + 1 /\ M \in Nat \ {0}
      BY BoundsAssumption
    <3>4. ((a % M) + 1) % M = (a + 1) % M
      BY <3>3, ModNext
    <3> QED
      BY <1>1, <2>1, <3>1, <3>2, <3>3, <3>4
  <2>2. CASE y # z
    <3>1. ix[y] # c /\ ix[y] \in 1 .. N
      <4>1. list[ix[y]] = y /\ list[ix[z]] = z
        BY DEF IsIndex
      <4>2. ix[y] \in 1 .. N
        BY DEF IsIndex
      <4> QED
        BY <1>1, <2>2, <4>1, <4>2
    <3>2. counters'[ix[y]] = counters[ix[y]] /\ taken'[y] = taken[y]
      BY <1>2, <2>2, <3>1
    <3> QED
      BY <3>2 DEF CountsTrue
  <2> QED
    BY <2>1, <2>2
<1> QED
  BY <1>3 DEF CountsTrue

\* Every step keeps the counts.
LEMMA CountsStep ==
  ASSUME NEW n, NEW F, NEW sc, NEW N, NEW list, NEW ix, NEW first, NEW place,
         Profiled(n, F, sc, N, list, ix, first, place), Shape(n, F, sc, N, ix, first, place),
         Wired(n, F, sc, ix), [Next]_vars, NEW S, S = SlotSet(n, F, sc), CountsTrue(S, ix)
  PROVE  CountsTrue(S, ix)'
<1>1. /\ IsIndex(ix, list, N, S) /\ counters \in [1 .. N -> 0 .. Uncounted] /\ taken \in [S -> Nat]
  BY DEF Profiled, Fixed, Shape, RunTypes
<1>2. ASSUME NEW z \in S, OneMore(z, ix[z])
      PROVE  CountsTrue(S, ix)'
  BY <1>1, <1>2, CountsMore
<1>3. CASE UNCHANGED <<counters, taken>>
  BY <1>3 DEF CountsTrue
<1>4. CASE \E e \in Run!Entries(prog) : Call(e)
  BY <1>2, <1>4, CallEffect
<1>5. ASSUME NEW t, Take(t)
      PROVE  CountsTrue(S, ix)'
  <2>1. CASE at \in 1 .. n
    <3>1. \A z : z = <<at, t>> => z \in S /\ OneMore(z, ix[z])
      BY <1>5, <2>1, TakeEffect
    <3> QED
      BY <1>2, <3>1
  <2>2. CASE at \notin 1 .. n
    <3>1. UNCHANGED <<counters, taken>>
      BY <1>5, <2>2, TakeNew
    <3> QED
      BY <1>3, <3>1
  <2> QED
    BY <2>1, <2>2
<1>6. \/ UNCHANGED <<counters, taken>>
      \/ \E e \in Run!Entries(prog) : Call(e)
      \/ \E t : Take(t)
  <2>1. CASE Instrument \/ UNCHANGED vars
    BY <2>1 DEF Instrument, Begin, InstrumentEntry, FinishInstrumentation, InstrumentEdge, NextBlock,
                NextFunction, vars, runVars
  <2>2. CASE Execute \/ Load
    BY <2>2 DEF Execute, End, Load, runVars
  <2> QED
    BY <2>1, <2>2 DEF Next
<1> QED
  BY <1>3, <1>4, <1>5, <1>6

-----------------------------------------------------------------------------
(* The program as it was written *)

\* Where the original program is: behind a new block that leads there, perhaps
Seen == IF at \in BlocksToInstrument \cup {Idle} THEN at ELSE succ[at][1]

\* The counter that belongs to a slot
LEMMA SlotChoice ==
  ASSUME NEW list, NEW N, NEW S, NEW ix, IsIndex(ix, list, N, S), NEW z \in S
  PROVE  (CHOOSE c \in 1 .. N : list[c] = z) = ix[z]
<1>1. ix[z] \in 1 .. N /\ list[ix[z]] = z
  BY DEF IsIndex
<1>2. PICK d : d = CHOOSE c \in 1 .. N : list[c] = z
  OBVIOUS
<1>3. d \in 1 .. N /\ list[d] = z
  BY <1>1, <1>2
<1>4. ix[list[d]] = d
  BY <1>3 DEF IsIndex
<1> QED
  BY <1>2, <1>3, <1>4

\* The counts of the slots when u has those of the counters
CountsBy(list, N, S, u) == [z \in S |-> u[CHOOSE c \in 1 .. N : list[c] = z]]

\* They are those that the counters of the slots have.
LEMMA CountsByIndex ==
  ASSUME NEW list, NEW N, NEW S, NEW ix, IsIndex(ix, list, N, S), NEW u
  PROVE  /\ CountsBy(list, N, S, u) = [z \in S |-> CountsBy(list, N, S, u)[z]]
         /\ \A z \in S : CountsBy(list, N, S, u)[z] = u[ix[z]]
<1>1. PICK q : q = [z \in S |-> CHOOSE c \in 1 .. N : list[c] = z]
  OBVIOUS
<1>2. \A z \in S : q[z] = ix[z]
  BY <1>1, SlotChoice
<1>3. CountsBy(list, N, S, u) = [z \in S |-> u[q[z]]]
  BY <1>1 DEF CountsBy
<1> QED
  BY <1>2, <1>3

\* Counting a slot in the instrumented program and in the original
LEMMA CountOfMore ==
  ASSUME NEW n, NEW F, NEW sc, NEW N, NEW list, NEW ix, NEW first, NEW place,
         Profiled(n, F, sc, N, list, ix, first, place), Profiled(n, F, sc, N, list, ix, first, place)',
         NEW S, S = SlotSet(n, F, sc), counters \in [1 .. N -> 0 .. Uncounted],
         NEW z \in S, OneMore(z, ix[z])
  PROVE  CountOf' = [CountOf EXCEPT ![z] = (CountOf[z] + 1) % (Uncounted + 1)]
<1>1. PICK g, h, v, w : g = CountOf /\ h = CountOf' /\ v = counters /\ w = counters'
  OBVIOUS
<1>4. IsIndex(ix, list, N, S) /\ v \in [1 .. N -> 0 .. Uncounted]
  BY <1>1 DEF Profiled, Fixed
<1>0. IsIndex(ix, list, N, S)
  BY <1>4
<1>2. g = [y \in S |-> g[y]] /\ \A y \in S : g[y] = v[ix[y]]
  <2>1. SlotList = list /\ DOMAIN list = 1 .. N /\ Slots = S
    BY DEF Profiled, Fixed
  <2>2. g = CountsBy(list, N, S, v)
    BY <1>1, <2>1 DEF CountOf, CountsBy
  <2> QED
    BY <1>0, <2>2, CountsByIndex
<1>3. h = [y \in S |-> h[y]] /\ \A y \in S : h[y] = w[ix[y]]
  <2>1. SlotList' = list /\ DOMAIN list = 1 .. N /\ Slots' = S
    BY DEF Profiled, Fixed
  <2>2. h = CountsBy(list, N, S, w)
    BY <1>1, <2>1 DEF CountOf, CountsBy
  <2> QED
    BY <1>0, <2>2, CountsByIndex
<1>5. w = [v EXCEPT ![ix[z]] = (v[ix[z]] + 1) % (Uncounted + 1)]
  BY <1>1 DEF OneMore
<1>6. \A y \in S : ix[y] \in 1 .. N /\ (ix[y] = ix[z] => y = z)
  BY <1>4 DEF IsIndex
<1>7. h = [g EXCEPT ![z] = (g[z] + 1) % (Uncounted + 1)]
  BY <1>2, <1>3, <1>4, <1>5, <1>6
<1> QED
  BY <1>1, <1>7

\* The original at one of its blocks
LEMMA SeenAt ==
  ASSUME NEW n, NEW F, NEW sc, NEW N, NEW list, NEW ix, NEW first, NEW place,
         Profiled(n, F, sc, N, list, ix, first, place)
  PROVE  /\ at \in 1 .. n \cup {Idle} => Seen = at
         /\ at \notin 1 .. n \cup {Idle} => Seen = succ[at][1]
BY DEF Seen, BlocksToInstrument, Profiled

\* A call is a call in the original.
LEMMA OriginalCall ==
  ASSUME NEW n, NEW F, NEW sc, NEW N, NEW list, NEW ix, NEW first, NEW place,
         Profiled(n, F, sc, N, list, ix, first, place), Shape(n, F, sc, N, ix, first, place),
         Wired(n, F, sc, ix), Profiled(n, F, sc, N, list, ix, first, place)',
         NEW e \in Run!Entries(prog), Call(e)
  PROVE  Original!Call(e) /\ e \in Original!Entries(prog)
<1>1. Module(n, F, sc) /\ counters \in [1 .. N -> 0 .. Uncounted]
  BY DEF Profiled, Fixed, Shape, RunTypes
<1>2. at = Idle /\ at' = e /\ prog' = prog
  BY DEF Call
<1>3. e \in 1 .. n
  <2>1. PICK f \in 1 .. Len(F) : e = F[f][1]
    <3>1. Run!Entries(prog) = {F[f][1] : f \in 1 .. Len(F)}
      BY DEF Profiled
    <3> QED
      BY <3>1
  <2>2. Graph(n, sc, ix)
    BY DEF Shape
  <2> QED
    BY <1>1, <2>1, <2>2, EntryKnown
<1>4. Seen = Idle /\ Seen' = e
  <2>1. BlocksToInstrument' = 1 .. n
    BY DEF Profiled, BlocksToInstrument
  <2> QED
    BY <1>2, <1>3, <2>1 DEF Seen
<1>5. PICK z, S : z = <<0, e>> /\ S = SlotSet(n, F, sc)
  OBVIOUS
<1>6. z \in S /\ OneMore(z, ix[z])
  BY <1>5, CallEffect
<1>7. CountOf' = [CountOf EXCEPT ![z] = (CountOf[z] + 1) % (Uncounted + 1)]
  BY <1>1, <1>5, <1>6, CountOfMore
<1>8. Original!Call(e)
  BY <1>2, <1>4, <1>5, <1>7 DEF Original!Call, Original!Count, Original!Idle, Idle, Seen
<1>9. e \in Original!Entries(prog)
  BY DEF Original!Entries, Run!Entries
<1> QED
  BY <1>8, <1>9

\* An edge of an old block is that edge in the original.
LEMMA OriginalTake ==
  ASSUME NEW n, NEW F, NEW sc, NEW N, NEW list, NEW ix, NEW first, NEW place,
         Profiled(n, F, sc, N, list, ix, first, place), Shape(n, F, sc, N, ix, first, place),
         Wired(n, F, sc, ix), Profiled(n, F, sc, N, list, ix, first, place)',
         NEW t, Take(t), at \in 1 .. n
  PROVE  Seen # Idle /\ t \in DOMAIN prog.succ[Seen] /\ Original!Take(t)
<1>1. /\ Module(n, F, sc) /\ Graph(n, sc, ix) /\ counters \in [1 .. N -> 0 .. Uncounted]
      /\ prog.succ = sc
  BY DEF Profiled, Fixed, Shape, RunTypes
<1>2. at # Idle /\ at' = succ[at][t] /\ prog' = prog /\ succ' = succ
  BY DEF Take, passVars
<1>3. t \in 1 .. Len(sc[at])
  BY TakeEffect
<1>4. PICK b, d : b = at /\ b \in 1 .. n /\ d = sc[b][t]
  OBVIOUS
<1>5. d \in 1 .. n /\ DOMAIN sc[b] = 1 .. Len(sc[b])
  BY <1>1, <1>3, <1>4, ModuleTypes
<1>6. Seen = b
  BY <1>4, SeenAt
<1>7. Seen' = d
  <2>1. BlocksToInstrument' = 1 .. n
    BY DEF Profiled, BlocksToInstrument
  <2>2. PICK y : y = succ[b][t] /\ at' = y
    BY <1>2, <1>4
  <2>3. CASE y \in 1 .. n
    <3>1. y = d
      BY <1>1, <1>3, <1>4, <2>2, <2>3 DEF Graph
    <3> QED
      BY <1>5, <2>1, <2>2, <3>1 DEF Seen
  <2>4. CASE y \notin 1 .. n
    <3>1. succ[y] = <<d>>
      BY <1>1, <1>3, <1>4, <2>2, <2>4 DEF Graph
    <3>2. y # Idle
      <4>1. y \in DOMAIN succ
        BY <1>1, <1>3, <1>4, <2>2, OldLeads
      <4>2. PICK m \in Nat : DOMAIN succ = 1 .. m
        BY <1>1 DEF Graph
      <4> QED
        BY <4>1, <4>2 DEF Idle
    <3>3. Seen' = succ[y][1]
      BY <1>2, <2>1, <2>2, <2>4, <3>2 DEF Seen
    <3> QED
      BY <3>1, <3>3
  <2> QED
    BY <2>3, <2>4
<1>8. PICK z, S : z = <<b, t>> /\ S = SlotSet(n, F, sc)
  OBVIOUS
<1>9. z \in S /\ OneMore(z, ix[z])
  BY <1>4, <1>8, TakeEffect
<1>10. CountOf' = [CountOf EXCEPT ![z] = (CountOf[z] + 1) % (Uncounted + 1)]
  BY <1>1, <1>8, <1>9, CountOfMore
<1>11. b # Idle /\ t \in DOMAIN prog.succ[b] /\ d = prog.succ[b][t]
  BY <1>1, <1>2, <1>3, <1>4, <1>5
<1>12. Original!Take(t)
  BY <1>2, <1>6, <1>7, <1>8, <1>10, <1>11 DEF Original!Take, Original!Count, Original!Idle, Idle, Seen
<1> QED
  BY <1>6, <1>11, <1>12

\* Where the program does not move, nor a counter, the original does nothing.
LEMMA OriginalStutter ==
  ASSUME NEW n, NEW F, NEW sc, NEW N, NEW list, NEW ix, NEW first, NEW place,
         Profiled(n, F, sc, N, list, ix, first, place), Profiled(n, F, sc, N, list, ix, first, place)',
         prog' = prog, counters' = counters, Seen' = Seen
  PROVE  UNCHANGED Original!vars
<1>1. CountOf' = CountOf
  BY DEF CountOf, Profiled
<1> QED
  BY <1>1 DEF Original!vars, Seen

\* The way out of a new block is none in the original.
LEMMA OriginalNew ==
  ASSUME NEW n, NEW F, NEW sc, NEW N, NEW list, NEW ix, NEW first, NEW place,
         Profiled(n, F, sc, N, list, ix, first, place), Shape(n, F, sc, N, ix, first, place),
         Wired(n, F, sc, ix), Profiled(n, F, sc, N, list, ix, first, place)',
         NEW t, Take(t), at \notin 1 .. n
  PROVE  UNCHANGED Original!vars
<1>1. Module(n, F, sc) /\ Graph(n, sc, ix) /\ at \in DOMAIN succ \cup {Idle}
  BY DEF Profiled, Fixed, Shape, RunTypes
<1>2. at # Idle /\ at' = succ[at][t] /\ prog' = prog /\ succ' = succ
  BY DEF Take, passVars
<1>3. t = 1 /\ counters' = counters
  BY TakeNew
<1>4. PICK x : x = at /\ x \in DOMAIN succ \ (1 .. n)
  BY <1>1, <1>2
<1>5. PICK b \in 1 .. n : \E u \in 1 .. Len(sc[b]) : succ[b][u] = x /\ succ[x] = <<sc[b][u]>>
  BY <1>1, <1>4, NewLeads
<1>6. PICK u \in 1 .. Len(sc[b]) : succ[b][u] = x /\ succ[x] = <<sc[b][u]>>
  BY <1>5
<1>7. PICK d : d = sc[b][u] /\ d \in 1 .. n
  BY <1>1, ModuleTypes
<1>8. at' = d
  BY <1>2, <1>3, <1>4, <1>6, <1>7
<1>9. Seen = d
  <2>1. Seen = succ[x][1]
    BY <1>2, <1>4, SeenAt
  <2> QED
    BY <1>6, <1>7, <2>1
<1>10. Seen' = d
  <2>1. BlocksToInstrument' = 1 .. n
    BY DEF Profiled, BlocksToInstrument
  <2> QED
    BY <1>7, <1>8, <2>1 DEF Seen
<1> QED
  BY <1>2, <1>3, <1>9, <1>10, OriginalStutter

\* The end of a call is its end in the original.
LEMMA OriginalEnd ==
  ASSUME NEW n, NEW F, NEW sc, NEW N, NEW list, NEW ix, NEW first, NEW place,
         Profiled(n, F, sc, N, list, ix, first, place), Shape(n, F, sc, N, ix, first, place),
         Profiled(n, F, sc, N, list, ix, first, place)', End
  PROVE  Original!End
<1>1. at \in BlocksToInstrument /\ at' = Idle /\ prog' = prog /\ counters' = counters
  BY DEF End
<1>2. BlocksToInstrument = 1 .. n /\ n \in Nat
  BY ModuleTypes DEF Profiled, Fixed, BlocksToInstrument
<1>3. at # Idle
  BY <1>1, <1>2 DEF Idle
<1>4. Seen = at /\ Seen' = Idle
  BY <1>1 DEF Seen
<1>5. CountOf' = CountOf
  BY <1>1 DEF CountOf, Profiled
<1> QED
  BY <1>1, <1>3, <1>4, <1>5 DEF Original!End, Original!Idle, Idle, Seen

\* Instrumentation and the loader are no steps of the original.
LEMMA OriginalIdle ==
  ASSUME NEW n, NEW F, NEW sc, NEW N, NEW list, NEW ix, NEW first, NEW place,
         Profiled(n, F, sc, N, list, ix, first, place), Shape(n, F, sc, N, ix, first, place),
         Profiled(n, F, sc, N, list, ix, first, place)', Instrument \/ Load \/ UNCHANGED vars
  PROVE  UNCHANGED Original!vars
<1>1. prog' = prog /\ counters' = counters /\ at' = at
  <2>1. CASE Instrument
    BY <2>1 DEF Instrument, Begin, InstrumentEntry, FinishInstrumentation, InstrumentEdge, NextBlock,
                NextFunction, runVars
  <2>2. CASE Load
    BY <2>2 DEF Load, runVars
  <2>3. CASE UNCHANGED vars
    BY <2>3 DEF vars, runVars
  <2> QED
    BY <2>1, <2>2, <2>3
<1>2. Seen' = Seen
  <2>1. CASE Instrument
    <3>1. at = Idle
      BY <2>1 DEF Instrument, Begin, InstrumentEntry, FinishInstrumentation, InstrumentEdge, NextBlock,
                  NextFunction, Shape, RunTypes
    <3> QED
      BY <1>1, <3>1 DEF Seen
  <2>2. CASE Load
    BY <1>1, <2>2 DEF Load, Seen
  <2>3. CASE UNCHANGED vars
    BY <2>3 DEF vars, passVars, runVars, Seen, BlocksToInstrument
  <2> QED
    BY <2>1, <2>2, <2>3
<1> QED
  BY <1>1, <1>2, OriginalStutter

\* Every step of the instrumented program is one of the original, or none.
LEMMA OriginalStep ==
  ASSUME NEW n, NEW F, NEW sc, NEW N, NEW list, NEW ix, NEW first, NEW place,
         Profiled(n, F, sc, N, list, ix, first, place), Shape(n, F, sc, N, ix, first, place),
         Wired(n, F, sc, ix), [Next]_vars
  PROVE  [Original!Next]_Original!vars
<1>1. Profiled(n, F, sc, N, list, ix, first, place)'
  BY ShapeStep
<1>2. CASE \E e \in Run!Entries(prog) : Call(e)
  <2>1. PICK e \in Run!Entries(prog) : Call(e)
    BY <1>2
  <2>2. Original!Call(e) /\ e \in Original!Entries(prog)
    BY <1>1, <2>1, OriginalCall
  <2> QED
    BY <2>2 DEF Original!Next
<1>3. CASE \E t : Take(t)
  <2>1. PICK t : Take(t)
    BY <1>3
  <2>2. CASE at \in 1 .. n
    <3>1. Seen # Idle /\ t \in DOMAIN prog.succ[Seen] /\ Original!Take(t)
      BY <1>1, <2>1, <2>2, OriginalTake
    <3> QED
      BY <3>1 DEF Original!Next, Original!Idle, Idle, Seen
  <2>3. CASE at \notin 1 .. n
    BY <1>1, <2>1, <2>3, OriginalNew
  <2> QED
    BY <2>2, <2>3
<1>4. CASE End
  <2>1. Original!End
    BY <1>1, <1>4, OriginalEnd
  <2> QED
    BY <2>1 DEF Original!Next
<1>5. CASE Instrument \/ Load \/ UNCHANGED vars
  BY <1>1, <1>5, OriginalIdle
<1> QED
  BY <1>2, <1>3, <1>4, <1>5 DEF Next, Execute

\* The original begins where the instrumented program does.
LEMMA OriginalInit ==
  ASSUME Init
  PROVE  Original!Init
<1>1. PICK n, F, sc, N, list, ix, first, place : Profiled(n, F, sc, N, list, ix, first, place)
  BY ProfiledExists DEF Init
<1>2. PICK S : S = SlotSet(n, F, sc)
  OBVIOUS
<1>3. /\ Slots = S /\ SlotList = list /\ DOMAIN list = 1 .. N /\ NumEdges = N
      /\ IsIndex(ix, list, N, S)
  BY <1>1, <1>2 DEF Profiled, Fixed
<1>4. counters = [c \in 1 .. N |-> 0] /\ prog \in Programs /\ at = Idle
  BY <1>3 DEF Init
<1>5. CountOf = [z \in S |-> 0]
  <2>1. PICK g : g = CountOf
    OBVIOUS
  <2>2. g = CountsBy(list, N, S, counters)
    BY <1>3, <2>1 DEF CountOf, CountsBy
  <2>3. g = [z \in S |-> g[z]] /\ \A z \in S : g[z] = counters[ix[z]]
    BY <1>3, <2>2, CountsByIndex
  <2>4. \A z \in S : counters[ix[z]] = 0
    BY <1>3, <1>4 DEF IsIndex
  <2> QED
    BY <2>1, <2>3, <2>4
<1>6. Original!Slots(prog) = S
  BY <1>3 DEF Slots, Original!Slots, Run!Slots, Original!Entries, Run!Entries, Original!Blocks, Run!Blocks
<1> QED
  BY <1>4, <1>5, <1>6 DEF Original!Init, Original!Idle, Idle

\* What holds in every state: the shape, the counters in the code and their values
EdgeInv ==
  \E n, F, sc, N, list, ix, first, place :
    /\ Profiled(n, F, sc, N, list, ix, first, place) /\ Shape(n, F, sc, N, ix, first, place)
    /\ Wired(n, F, sc, ix) /\ CountsTrue(SlotSet(n, F, sc), ix)

\* It holds in the first states, of every module,
LEMMA EdgeInvInit ==
  ASSUME Init
  PROVE  EdgeInv
<1>1. PICK n, F, sc, N, list, ix, first, place :
        /\ Profiled(n, F, sc, N, list, ix, first, place) /\ Shape(n, F, sc, N, ix, first, place)
  BY InitShape DEF ShapeInv
<1>2. Wired(n, F, sc, ix)
  BY <1>1, InitWired DEF Shape
<1>3. CountsTrue(SlotSet(n, F, sc), ix)
  BY <1>1, CountsInit
<1> QED
  BY <1>1, <1>2, <1>3 DEF EdgeInv

\* and every step keeps it and is a step of the original, or none.
LEMMA EdgeInvStep ==
  ASSUME PadsUnshared, EdgeInv, [Next]_vars
  PROVE  EdgeInv' /\ [Original!Next]_Original!vars
<1>1. PICK n, F, sc, N, list, ix, first, place :
        /\ Profiled(n, F, sc, N, list, ix, first, place) /\ Shape(n, F, sc, N, ix, first, place)
        /\ Wired(n, F, sc, ix) /\ CountsTrue(SlotSet(n, F, sc), ix)
  BY DEF EdgeInv
<1>2. /\ Profiled(n, F, sc, N, list, ix, first, place)' /\ Shape(n, F, sc, N, ix, first, place)'
      /\ Wired(n, F, sc, ix)' /\ CountsTrue(SlotSet(n, F, sc), ix)'
  BY <1>1, ShapeStep, WiredStep, CountsStep
<1>3. [Original!Next]_Original!vars
  BY <1>1, OriginalStep
<1> QED
  BY <1>2, <1>3 DEF EdgeInv

\* When no landing pad that is reached from a branch is reached in another way, the
\* instrumented program runs as the original does, and the counter of each slot
\* counts it: each step of EdgeProfiling is one of ProgramRun, or none.
THEOREM RunsAsWritten ==
  ASSUME PadsUnshared
  PROVE  Spec => RunsOriginal
<1>1. Init => EdgeInv /\ Original!Init
  BY EdgeInvInit, OriginalInit
<1>2. EdgeInv /\ [Next]_vars => EdgeInv' /\ [Original!Next]_Original!vars
  BY EdgeInvStep
<1> QED
  BY <1>1, <1>2, PTL DEF Spec, RunsOriginal, Original!Spec

-----------------------------------------------------------------------------
(* The loader *)

\* The least of one number
LEMMA MinOne ==
  ASSUME NEW N \in Nat
  PROVE  Min({N, N}) = N
BY DEF Min

\* The places of an edge in the list of edges, and its slots
EdgePlaces(edges, N, e) == {c \in 1 .. N : edges[c] = e}
EdgeSlots(S, sc, e) == {z \in S : z[1] = e[1] /\ sc[z[1]][z[2]] = e[2]}

\* A call of a function has one place, its own.
LEMMA CallPlaces ==
  ASSUME NEW n, NEW F, NEW sc, NEW N, NEW list, NEW ix, NEW first, NEW place,
         Fixed(n, F, sc, N, list, ix, first, place), NEW edges, edges = EdgeList(F, sc),
         NEW c \in 1 .. N, NEW e, e = edges[c], e[1] = 0
  PROVE  EdgePlaces(edges, N, e) = {c} /\ list[c] = e
<1>1. IsIndex(ix, list, N, SlotSet(n, F, sc)) /\ SameOrder(edges, list, N, n, sc)
  BY DEF Fixed
<1>2. ASSUME NEW d \in 1 .. N, edges[d] = e
      PROVE  list[d] = e
  <2>1. list[d][1] = 0
    <3>1. CASE list[d][1] # 0
      <4>1. edges[d] = <<list[d][1], sc[list[d][1]][list[d][2]]>>
        BY <1>1, <3>1 DEF SameOrder
      <4>2. e[1] = list[d][1]
        BY <1>2, <4>1
      <4> QED
        BY <3>1, <4>2
    <3> QED
      BY <3>1
  <2> QED
    BY <1>1, <1>2, <2>1 DEF SameOrder
<1>3. list[c] = e
  BY <1>2
<1>4. \A d \in 1 .. N : edges[d] = e => d = c
  <2>1. \A d \in 1 .. N : ix[list[d]] = d
    BY <1>1 DEF IsIndex
  <2> QED
    BY <1>2, <1>3, <2>1
<1> QED
  BY <1>3, <1>4 DEF EdgePlaces

\* Another edge has a place for each of its slots.
LEMMA EdgePlacesSlots ==
  ASSUME NEW n, NEW F, NEW sc, NEW N, NEW list, NEW ix, NEW first, NEW place,
         Fixed(n, F, sc, N, list, ix, first, place), NEW edges, edges = EdgeList(F, sc),
         NEW c \in 1 .. N, NEW e, e = edges[c], e[1] # 0
  PROVE  EdgeSlots(SlotSet(n, F, sc), sc, e) = {list[d] : d \in EdgePlaces(edges, N, e)}
<1>1. IsIndex(ix, list, N, SlotSet(n, F, sc)) /\ SameOrder(edges, list, N, n, sc)
  BY DEF Fixed
<1>2. PICK S : S = SlotSet(n, F, sc)
  OBVIOUS
<1>3. \A d \in 1 .. N : /\ list[d][1] = 0 => edges[d] = list[d]
                        /\ list[d][1] # 0 => edges[d] = <<list[d][1], sc[list[d][1]][list[d][2]]>>
  BY <1>1 DEF SameOrder
<1>4. e = <<e[1], e[2]>>
  <2>1. list[c][1] # 0
    BY <1>3
  <2>2. e = <<list[c][1], sc[list[c][1]][list[c][2]]>>
    BY <1>3, <2>1
  <2> QED
    BY <2>2
<1>5. ASSUME NEW d \in 1 .. N, edges[d] = e
      PROVE  list[d] \in EdgeSlots(S, sc, e)
  <2>1. list[d][1] # 0
    BY <1>3, <1>5
  <2>2. e = <<list[d][1], sc[list[d][1]][list[d][2]]>>
    BY <1>3, <1>5, <2>1
  <2>3. list[d] \in S /\ list[d][1] = e[1] /\ sc[list[d][1]][list[d][2]] = e[2]
    BY <1>1, <1>2, <2>2 DEF IsIndex
  <2> QED
    BY <2>3 DEF EdgeSlots
<1>6. ASSUME NEW z \in EdgeSlots(S, sc, e)
      PROVE  \E d \in 1 .. N : edges[d] = e /\ z = list[d]
  <2>1. z \in S /\ z[1] = e[1] /\ sc[z[1]][z[2]] = e[2]
    BY DEF EdgeSlots
  <2>2. PICK d : d \in 1 .. N /\ list[d] = z
    BY <1>1, <1>2, <2>1 DEF IsIndex
  <2>3. edges[d] = <<z[1], sc[z[1]][z[2]]>>
    BY <1>3, <2>1, <2>2
  <2>4. edges[d] = e
    BY <1>4, <2>1, <2>3
  <2> QED
    BY <2>2, <2>4
<1> QED
  BY <1>2, <1>5, <1>6 DEF EdgePlaces

\* While no counter comes up to ~0U, each has the number of its slot.
LEMMA CountsExact ==
  ASSUME NEW S, NEW N, NEW list, NEW ix, IsIndex(ix, list, N, S), taken \in [S -> Nat],
         CountsTrue(S, ix), Slots = S, NoCounterSaturated
  PROVE  \A c \in 1 .. N : /\ counters[c] = taken[list[c]] /\ counters[c] \in Nat
                           /\ counters[c] # Uncounted
<1> TAKE c \in 1 .. N
<1>1. PICK z : z = list[c] /\ z \in S /\ ix[z] = c
  BY DEF IsIndex
<1>2. PICK a : a = taken[z] /\ a \in Nat /\ a < Uncounted
  BY <1>1 DEF NoCounterSaturated
<1>3. a \in 0 .. Uncounted /\ a # Uncounted /\ a + 0 = a
  BY <1>2, BoundsAssumption
<1>4. a % (Uncounted + 1) = a
  BY <1>3, ModSmall, BoundsAssumption
<1>5. counters[c] = a
  BY <1>1, <1>2, <1>4 DEF CountsTrue
<1> QED
  BY <1>1, <1>2, <1>3, <1>5

\* What readEdge adds up
LEMMA WeightSum ==
  ASSUME NEW N \in Nat, counters \in [1 .. N -> 0 .. Uncounted], NEW edges, DOMAIN edges = 1 .. N,
         \A c \in 1 .. N : counters[c] # Uncounted, NEW c \in 1 .. N
  PROVE  WeightOf(edges, c) = SumFunctionOnSet(counters, EdgePlaces(edges, N, edges[c]))
<1>1. Len(counters) = N
  OBVIOUS
<1>2. {n \in 1 .. Len(counters) : /\ n \in DOMAIN edges /\ edges[n] = edges[c]
                                  /\ counters[n] # Uncounted} = EdgePlaces(edges, N, edges[c])
  BY <1>1 DEF EdgePlaces
<1> QED
  BY <1>2 DEF WeightOf, MapThenSumSet, SumFunctionOnSet, FoldFunctionOnSet

\* How often an edge was taken, as a sum over the places of the edge
LEMMA TakenSum ==
  ASSUME NEW n, NEW F, NEW sc, NEW N, NEW list, NEW ix, NEW first, NEW place,
         Profiled(n, F, sc, N, list, ix, first, place),
         NEW edges, edges = EdgeList(F, sc), NEW c \in 1 .. N, NEW e, e = edges[c],
         \A d \in 1 .. N : counters[d] = taken[list[d]] /\ counters[d] \in Nat
  PROVE  EdgeTaken(e) = SumFunctionOnSet(counters, EdgePlaces(edges, N, e))
<1>1. /\ Fixed(n, F, sc, N, list, ix, first, place) /\ IsIndex(ix, list, N, SlotSet(n, F, sc))
      /\ Slots = SlotSet(n, F, sc) /\ prog.succ = sc /\ N \in Nat
  BY DEF Profiled, Fixed
<1>2. PICK A, g, h : A = EdgePlaces(edges, N, e) /\ g = counters /\ h = taken
  OBVIOUS
<1>3. \A d \in 1 .. N : g[d] \in Nat /\ h[list[d]] = g[d]
  BY <1>2
<1>4. CASE e[1] = 0
  <2>1. A = {c} /\ list[c] = e
    BY <1>1, <1>2, <1>4, CallPlaces
  <2>2. SumFunctionOnSet(g, {c}) = g[c]
    BY <1>3, SumOne
  <2>3. EdgeTaken(e) = h[e]
    BY <1>2, <1>4 DEF EdgeTaken
  <2> QED
    BY <1>2, <1>3, <2>1, <2>2, <2>3
<1>5. CASE e[1] # 0
  <2>1. PICK B : B = EdgeSlots(SlotSet(n, F, sc), sc, e)
    OBVIOUS
  <2>2. B = {list[d] : d \in A}
    BY <1>1, <1>2, <1>5, <2>1, EdgePlacesSlots
  <2>3. IsFiniteSet(A) /\ (\A d \in A : ix[list[d]] = d) /\ \A d \in A : g[d] \in Nat /\ h[list[d]] = g[d]
    <3>1. A \subseteq 1 .. N
      BY <1>2 DEF EdgePlaces
    <3>2. IsFiniteSet(1 .. N)
      BY <1>1, FS_Interval
    <3>3. IsFiniteSet(A)
      BY <3>1, <3>2, FS_Subset
    <3>4. \A d \in 1 .. N : ix[list[d]] = d
      BY <1>1 DEF IsIndex
    <3> QED
      BY <1>3, <3>1, <3>3, <3>4
  <2>4. SumFunctionOnSet(h, B) = SumFunctionOnSet(g, A)
    BY <2>2, <2>3, SumListed
  <2>5. {slot \in Slots : slot[1] = e[1] /\ prog.succ[slot[1]][slot[2]] = e[2]} = B
    BY <1>1, <2>1 DEF EdgeSlots
  <2>6. EdgeTaken(e) = SumFunctionOnSet(h, B)
    <3>1. EdgeTaken(e) = SumFunctionOnSet(taken,
            {slot \in Slots : slot[1] = e[1] /\ prog.succ[slot[1]][slot[2]] = e[2]})
      BY <1>5 DEF EdgeTaken, MapThenSumSet, SumFunctionOnSet, FoldFunctionOnSet
    <3> QED
      BY <1>2, <2>5, <3>1
  <2> QED
    BY <1>2, <2>4, <2>6
<1> QED
  BY <1>4, <1>5

\* What the loader makes of the counters
LEMMA LoadWeights ==
  ASSUME NEW n, NEW F, NEW sc, NEW N, NEW list, NEW ix, NEW first, NEW place,
         Profiled(n, F, sc, N, list, ix, first, place), Shape(n, F, sc, N, ix, first, place),
         CountsTrue(SlotSet(n, F, sc), ix), Load, NoCounterSaturated
  PROVE  /\ ~warned'
         /\ DOMAIN weight' = Range(EdgeList(F, sc))
         /\ \A e \in DOMAIN weight' : weight'[e] = EdgeTaken(e)
<1>1. PICK edges : edges = EdgeList(F, sc)
  OBVIOUS
<1>2. /\ prog.funcs = F /\ prog.succ = sc /\ N \in Nat /\ SameOrder(edges, list, N, n, sc)
      /\ IsIndex(ix, list, N, SlotSet(n, F, sc)) /\ Slots = SlotSet(n, F, sc)
      /\ counters \in [1 .. N -> 0 .. Uncounted] /\ taken \in [SlotSet(n, F, sc) -> Nat]
  BY <1>1 DEF Profiled, Fixed, Shape, RunTypes
<1>3. Len(edges) = N /\ DOMAIN edges = 1 .. N /\ Len(counters) = N
  <2>1. Len(edges) = N /\ DOMAIN edges = 1 .. N
    BY <1>2 DEF SameOrder
  <2>2. Len(counters) = N
    BY <1>2
  <2> QED
    BY <2>1, <2>2
<1>4. ReadCount(edges) = N
  BY <1>2, <1>3, MinOne DEF ReadCount
<1>5. \A c \in 1 .. N : counters[c] = taken[list[c]] /\ counters[c] \in Nat /\ counters[c] # Uncounted
  BY <1>2, CountsExact
<1>6. {c \in 1 .. N : counters[c] # Uncounted} = 1 .. N
  BY <1>5
<1>7. PICK E : E = {edges[c] : c \in 1 .. N}
  OBVIOUS
<1>8. /\ weight' = [e \in E |-> WeightOf(edges, CHOOSE c \in 1 .. N : edges[c] = e)]
      /\ warned' = (N # Len(counters))
  <2>1. PICK R : R = {c \in 1 .. ReadCount(edges) : counters[c] # Uncounted}
    OBVIOUS
  <2>2. R = 1 .. N
    BY <1>4, <1>6, <2>1
  <2>3. edges = EdgeList(prog.funcs, prog.succ)
    BY <1>1, <1>2
  <2>4. /\ weight' = [e \in {edges[c] : c \in R} |-> WeightOf(edges, CHOOSE c \in R : edges[c] = e)]
        /\ warned' = (ReadCount(edges) # Len(counters))
    BY <2>1, <2>3 DEF Load
  <2> QED
    BY <1>4, <1>7, <2>2, <2>4
<1>9. E = Range(edges)
  BY <1>3, <1>7 DEF Range
<1>10. ASSUME NEW e \in E
       PROVE  WeightOf(edges, CHOOSE c \in 1 .. N : edges[c] = e) = EdgeTaken(e)
  <2>1. \E c \in 1 .. N : edges[c] = e
    BY <1>7
  <2>2. PICK c : c = CHOOSE d \in 1 .. N : edges[d] = e
    OBVIOUS
  <2>3. c \in 1 .. N /\ e = edges[c]
    BY <2>1, <2>2
  <2>4. WeightOf(edges, c) = SumFunctionOnSet(counters, EdgePlaces(edges, N, e))
    BY <1>2, <1>3, <1>5, <2>3, WeightSum
  <2>5. EdgeTaken(e) = SumFunctionOnSet(counters, EdgePlaces(edges, N, e))
    BY <1>1, <1>5, <2>3, TakenSum
  <2> QED
    BY <2>2, <2>4, <2>5
<1> QED
  BY <1>1, <1>3, <1>8, <1>9, <1>10

\* How often an edge was taken, from the slots, the successors and their counts
TakenOf(S, sc, t, e) == IF e[1] = 0 THEN t[e] ELSE SumFunctionOnSet(t, EdgeSlots(S, sc, e))

\* EdgeTaken is that of the module and what was taken.
LEMMA TakenForm == \A e : EdgeTaken(e) = TakenOf(Slots, prog.succ, taken, e)
BY DEF EdgeTaken, TakenOf, EdgeSlots, MapThenSumSet, SumFunctionOnSet, FoldFunctionOnSet

\* It does not change when nothing is taken.
LEMMA TakenStays ==
  ASSUME prog' = prog, taken' = taken
  PROVE  \A e : EdgeTaken(e)' = EdgeTaken(e)
<1>1. (\A e : EdgeTaken(e) = TakenOf(Slots, prog.succ, taken, e))'
  BY TakenForm, PTL
<1>2. Slots' = Slots
  BY DEF Slots
<1> QED
  BY <1>1, <1>2, TakenForm

\* Every step keeps what was loaded, or loads it.
LEMMA LoadedStep ==
  ASSUME EdgeInv, LoadedExact, [Next]_vars
  PROVE  LoadedExact'
<1> SUFFICES ASSUME pc' = "done", NoCounterSaturated'
             PROVE  (/\ ~warned
                     /\ DOMAIN weight = Range(EdgeList(prog.funcs, prog.succ))
                     /\ \A e \in DOMAIN weight : weight[e] = EdgeTaken(e))'
  BY DEF LoadedExact
<1>1. Load \/ UNCHANGED vars
  <2>1. pc \in {"begin", "function", "block", "run", "done", "skipped"}
    <3>1. ShapeInv
      BY DEF EdgeInv, ShapeInv
    <3> QED
      BY <3>1, ShapeTypes DEF TypeOK
  <2> QED
    BY <2>1 DEF Next, Instrument, Begin, InstrumentEntry, FinishInstrumentation, InstrumentEdge, NextBlock,
                NextFunction, Execute, Call, Take, End
<1>2. CASE Load
  <2>1. PICK n, F, sc, N, list, ix, first, place :
          /\ Profiled(n, F, sc, N, list, ix, first, place) /\ Shape(n, F, sc, N, ix, first, place)
          /\ CountsTrue(SlotSet(n, F, sc), ix)
    BY DEF EdgeInv
  <2>2. prog' = prog /\ taken' = taken
    BY <1>2 DEF Load, runVars
  <2>3. NoCounterSaturated
    BY <2>2 DEF NoCounterSaturated, Slots
  <2>4. /\ ~warned'
        /\ DOMAIN weight' = Range(EdgeList(F, sc))
        /\ \A e \in DOMAIN weight' : weight'[e] = EdgeTaken(e)
    BY <1>2, <2>1, <2>3, LoadWeights
  <2>5. \A e : EdgeTaken(e)' = EdgeTaken(e)
    BY <2>2, TakenStays
  <2>6. prog.funcs = F /\ prog.succ = sc
    BY <2>1 DEF Profiled
  <2> QED
    BY <2>2, <2>4, <2>5, <2>6
<1>3. CASE UNCHANGED vars
  <2>1. /\ pc' = pc /\ prog' = prog /\ taken' = taken /\ weight' = weight /\ warned' = warned
    BY <1>3 DEF vars, runVars, loadVars
  <2>2. pc = "done" /\ NoCounterSaturated
    BY <2>1 DEF NoCounterSaturated, Slots
  <2>3. \A e : EdgeTaken(e)' = EdgeTaken(e)
    BY <2>1, TakenStays
  <2> QED
    BY <2>1, <2>2, <2>3 DEF LoadedExact
<1> QED
  BY <1>1, <1>2, <1>3

\* While no counter came up to ~0U, the loaded weight of every edge is the number of
\* times the program took it, there is a weight for every edge and no warning, for
\* every module in which no landing pad that is reached from a branch is reached in
\* another way.
THEOREM WeightsAreExact ==
  ASSUME PadsUnshared
  PROVE  Spec => []LoadedExact
<1>1. Init => EdgeInv /\ LoadedExact
  BY EdgeInvInit DEF Init, LoadedExact
<1>2. EdgeInv /\ LoadedExact /\ [Next]_vars => EdgeInv' /\ LoadedExact'
  BY EdgeInvStep, LoadedStep
<1> QED
  BY <1>1, <1>2, PTL DEF Spec
=============================================================================
