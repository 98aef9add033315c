------------------------ MODULE EdgeProfilingProofs -------------------------
(***************************************************************************)
(* The types of EdgeProfiling, for every module: instrumentation, which    *)
(* splits blocks in the lists that it walks, uses in the end exactly the   *)
(* counters that it reserved at its start.                                 *)
(*                                                                         *)
(* The lists of edges and slots are nested folds. The first part says what *)
(* they have at each place: the slots of the functions come one after the  *)
(* other, and in each those of its call and its blocks. The invariant,     *)
(* Shape, then says where the walk is: the blocks of the original function *)
(* are in the list in their order, with new blocks between them, and the   *)
(* number of counters used is that of the slots before the walk.           *)
(***************************************************************************)
EXTENDS EdgeProfiling, LibraryFacts

-----------------------------------------------------------------------------
(* The lists that instrumentation and the loader follow *)

\* The functions and successors of a module with n blocks
Module(n, F, sc) ==
  /\ n \in Nat /\ sc \in [1 .. n -> Seq(1 .. n)]
  /\ F \in Seq(Seq(1 .. n)) /\ \A f \in 1 .. Len(F) : Len(F[f]) \in Nat \ {0}
  /\ \A b \in 1 .. n : \E f \in 1 .. Len(F) : \E k \in 1 .. Len(F[f]) : F[f][k] = b
  /\ \A f, g \in 1 .. Len(F) : \A k \in 1 .. Len(F[f]), l \in 1 .. Len(F[g]) :
       F[f][k] = F[g][l] => f = g /\ k = l
  /\ \A b \in 1 .. n : \A t \in 1 .. Len(sc[b]) : \A f \in 1 .. Len(F) : sc[b][t] # F[f][1]

\* The types of its parts
LEMMA ModuleTypes ==
  ASSUME NEW n, NEW F, NEW sc, Module(n, F, sc)
  PROVE  /\ n \in Nat /\ Len(F) \in Nat /\ DOMAIN F = 1 .. Len(F) /\ DOMAIN sc = 1 .. n
         /\ \A f \in 1 .. Len(F) :
              /\ F[f] \in Seq(1 .. n) /\ Len(F[f]) \in Nat \ {0} /\ DOMAIN F[f] = 1 .. Len(F[f])
              /\ \A k \in 1 .. Len(F[f]) : F[f][k] \in 1 .. n
         /\ \A b \in 1 .. n :
              /\ sc[b] \in Seq(1 .. n) /\ Len(sc[b]) \in Nat /\ DOMAIN sc[b] = 1 .. Len(sc[b])
              /\ \A t \in 1 .. Len(sc[b]) : sc[b][t] \in 1 .. n
<1>1. PICK B : B = 1 .. n
  OBVIOUS
<1>2. n \in Nat /\ sc \in [B -> Seq(B)] /\ F \in Seq(Seq(B)) /\ \A f \in 1 .. Len(F) : Len(F[f]) \in Nat \ {0}
  BY <1>1 DEF Module
<1>3. Len(F) \in Nat /\ DOMAIN F = 1 .. Len(F) /\ DOMAIN sc = B
  BY <1>2
<1>4. ASSUME NEW f \in 1 .. Len(F)
      PROVE  /\ F[f] \in Seq(B) /\ DOMAIN F[f] = 1 .. Len(F[f])
             /\ \A k \in 1 .. Len(F[f]) : F[f][k] \in B
  <2>1. PICK a : a = F[f] /\ a \in Seq(B)
    BY <1>2, ElementOfSeq
  <2>2. DOMAIN a = 1 .. Len(a)
    BY <2>1
  <2>3. \A k \in 1 .. Len(a) : a[k] \in B
    BY <2>1, ElementOfSeq
  <2> QED
    BY <2>1, <2>2, <2>3
<1>5. ASSUME NEW b \in B
      PROVE  /\ sc[b] \in Seq(B) /\ Len(sc[b]) \in Nat /\ DOMAIN sc[b] = 1 .. Len(sc[b])
             /\ \A t \in 1 .. Len(sc[b]) : sc[b][t] \in B
  <2>1. PICK a : a = sc[b] /\ a \in Seq(B)
    BY <1>2
  <2>2. DOMAIN a = 1 .. Len(a) /\ Len(a) \in Nat
    BY <2>1
  <2>3. \A t \in 1 .. Len(a) : a[t] \in B
    BY <2>1, ElementOfSeq
  <2> QED
    BY <2>1, <2>2, <2>3
<1> QED
  BY <1>1, <1>2, <1>3, <1>4, <1>5

\* A block is in one place.
LEMMA ModuleOnce ==
  ASSUME NEW n, NEW F, NEW sc, Module(n, F, sc), NEW f \in 1 .. Len(F), NEW g \in 1 .. Len(F),
         NEW k \in 1 .. Len(F[f]), NEW l \in 1 .. Len(F[g]), F[f][k] = F[g][l]
  PROVE  f = g /\ k = l
<1>1. \A x, y \in 1 .. Len(F) : \A u \in 1 .. Len(F[x]), w \in 1 .. Len(F[y]) :
        F[x][u] = F[y][w] => x = y /\ u = w
  BY DEF Module
<1> QED
  BY <1>1, Zenon

\* Each module of Programs, which is well formed, is one.
LEMMA ProgramIsModule ==
  ASSUME NEW p \in Programs
  PROVE  \E n : n = Cardinality(Run!Blocks(p)) /\ Run!Blocks(p) = 1 .. n /\ Module(n, p.funcs, p.succ)
<1>0. WellFormed(p)
  BY ProgramsAssumption
<1>1. PICK n, F, sc : n = Cardinality(Run!Blocks(p)) /\ F = p.funcs /\ sc = p.succ
  OBVIOUS
<1>2. PICK B : B = Run!Blocks(p) /\ B = DOMAIN sc
  BY <1>1 DEF Run!Blocks
<1>3. /\ IsFiniteSet(B) /\ sc \in [1 .. n -> Seq(B \ Run!Entries(p))]
      /\ F \in Seq(Seq(B) \ {<<>>})
      /\ \A b \in B : \E f \in DOMAIN F : b \in Range(F[f])
      /\ \A f, g \in DOMAIN F : \A k \in DOMAIN F[f], l \in DOMAIN F[g] :
           F[f][k] = F[g][l] => f = g /\ k = l
  BY <1>0, <1>1, <1>2 DEF WellFormed
<1>4. n \in Nat /\ B = 1 .. n
  BY <1>1, <1>2, <1>3, FS_CardinalityType
<1>5. DOMAIN F = 1 .. Len(F) /\ \A f \in DOMAIN F : F[f] \in Seq(B) /\ F[f] # <<>> /\ F[f] \in Seq(B) \ {<<>>}
  BY <1>3
<1>6. ASSUME NEW f \in 1 .. Len(F)
      PROVE  Len(F[f]) \in Nat \ {0} /\ DOMAIN F[f] = 1 .. Len(F[f])
  <2>1. PICK a : a = F[f] /\ a \in Seq(B) /\ a # <<>>
    BY <1>5
  <2>2. Len(a) \in Nat /\ Len(a) # 0 /\ DOMAIN a = 1 .. Len(a)
    BY <2>1
  <2> QED
    BY <2>1, <2>2
<1>7. F \in Seq(Seq(1 .. n))
  <2>1. F \in [1 .. Len(F) -> Seq(B)] /\ Len(F) \in Nat
    BY <1>3, <1>5
  <2> QED
    BY <1>4, <2>1
<1>8. ASSUME NEW b \in 1 .. n
      PROVE  \E f \in 1 .. Len(F) : \E k \in 1 .. Len(F[f]) : F[f][k] = b
  <2>1. PICK f \in DOMAIN F : b \in Range(F[f])
    BY <1>3, <1>4
  <2>2. PICK k \in DOMAIN F[f] : F[f][k] = b
    BY <2>1 DEF Range
  <2> QED
    BY <1>5, <1>6, <2>2
<1>9. \A f, g \in 1 .. Len(F) : \A k \in 1 .. Len(F[f]), l \in 1 .. Len(F[g]) :
        F[f][k] = F[g][l] => f = g /\ k = l
  <2>1. ASSUME NEW f \in 1 .. Len(F), NEW g \in 1 .. Len(F),
               NEW k \in 1 .. Len(F[f]), NEW l \in 1 .. Len(F[g]), F[f][k] = F[g][l]
        PROVE  f = g /\ k = l
    <3>1. f \in DOMAIN F /\ g \in DOMAIN F /\ k \in DOMAIN F[f] /\ l \in DOMAIN F[g]
      BY <1>5, <1>6, Zenon
    <3> QED
      BY <1>3, <2>1, <3>1, Zenon
  <2> QED
    BY <2>1, Zenon
<1>10. ASSUME NEW b \in 1 .. n, NEW t \in 1 .. Len(sc[b]), NEW f \in 1 .. Len(F)
       PROVE  sc[b][t] # F[f][1]
  <2>1. F[f][1] \in Run!Entries(p)
    BY <1>1, <1>5 DEF Run!Entries
  <2>2. sc[b] \in Seq(B \ Run!Entries(p))
    BY <1>3
  <2>3. sc[b][t] \in B \ Run!Entries(p)
    BY <2>2
  <2> QED
    BY <2>1, <2>3
<1>11. sc \in [1 .. n -> Seq(1 .. n)]
  <2>1. ASSUME NEW b \in 1 .. n PROVE sc[b] \in Seq(B)
    <3>1. sc[b] \in Seq(B \ Run!Entries(p))
      BY <1>3
    <3> QED
      BY <3>1
  <2>2. sc = [b \in 1 .. n |-> sc[b]]
    BY <1>3
  <2> QED
    BY <1>4, <2>1, <2>2
<1>12. \A f \in 1 .. Len(F) : Len(F[f]) \in Nat \ {0}
  BY <1>6
<1> QED
  <2>1. Module(n, F, sc)
    BY <1>4, <1>7, <1>8, <1>9, <1>10, <1>11, <1>12 DEF Module
  <2> QED
    BY <1>1, <1>2, <1>4, <2>1

\* first[f] slots come before those of function f, and in[f][k] of its own,
\* with the call, before those of its block k.
Sized(F, sc, first, in) ==
  /\ first \in [1 .. Len(F) + 1 -> Nat] /\ first[1] = 0
  /\ \A f \in 1 .. Len(F) :
       /\ in[f] \in [1 .. Len(F[f]) + 1 -> Nat] /\ in[f][1] = 0
       /\ \A k \in 1 .. Len(F[f]) : in[f][k + 1] = in[f][k] + Len(sc[F[f][k]])
       /\ first[f + 1] = (first[f] + 1) + in[f][Len(F[f]) + 1]

\* There are such numbers.
LEMMA SizesExist ==
  ASSUME NEW n, NEW F, NEW sc, Module(n, F, sc)
  PROVE  \E first, in : Sized(F, sc, first, in)
<1> DEFINE A(f) == [k \in 1 .. Len(F[f]) |-> sc[F[f][k]]]
           in == [f \in 1 .. Len(F) |-> CHOOSE o : IsOffsets(A(f), o)]
           \* a sequence of the length that function f has
           W == [f \in 1 .. Len(F) |-> [x \in 1 .. 1 + in[f][Len(F[f]) + 1] |-> x]]
<1>0. Len(F) \in Nat /\ \A f \in 1 .. Len(F) : F[f] \in Seq(1 .. n) /\ Len(F[f]) \in Nat
  BY DEF Module
<1>1. ASSUME NEW f \in 1 .. Len(F)
      PROVE  /\ IsOffsets(A(f), in[f]) /\ Len(A(f)) = Len(F[f])
             /\ \A k \in 1 .. Len(F[f]) : A(f)[k] = sc[F[f][k]] /\ Len(A(f)[k]) \in Nat
  <2>1. \A k \in 1 .. Len(F[f]) : F[f][k] \in 1 .. n
    <3>1. PICK a : a = F[f] /\ a \in Seq(1 .. n)
      BY <1>0
    <3>2. \A k \in 1 .. Len(a) : a[k] \in 1 .. n
      BY <3>1, ElementOfSeq
    <3> QED
      BY <3>1, <3>2
  <2>2. \A k \in 1 .. Len(F[f]) : Len(sc[F[f][k]]) \in Nat
    BY <2>1 DEF Module
  <2>3. Len(A(f)) = Len(F[f])
    BY <1>0
  <2>4. \A k \in 1 .. Len(A(f)) : Len(A(f)[k]) \in Nat
    BY <2>2, <2>3
  <2>5. PICK a : a = A(f)
    OBVIOUS
  <2>6. \E o : IsOffsets(a, o)
    <3>1. Len(a) \in Nat /\ \A k \in 1 .. Len(a) : Len(a[k]) \in Nat
      BY <1>0, <2>3, <2>4, <2>5
    <3> QED
      BY <3>1, OffsetsExist
  <2>7. in[f] = CHOOSE o : IsOffsets(a, o)
    BY <2>5
  <2>8. IsOffsets(a, in[f])
    <3> HIDE DEF in
    <3> QED
      BY <2>6, <2>7
  <2> QED
    BY <2>2, <2>3, <2>5, <2>8
<1>2. ASSUME NEW f \in 1 .. Len(F)
      PROVE  /\ in[f] \in [1 .. Len(F[f]) + 1 -> Nat] /\ in[f][1] = 0
             /\ \A k \in 1 .. Len(F[f]) : in[f][k + 1] = in[f][k] + Len(sc[F[f][k]])
  <2> HIDE DEF in
  <2> QED
    BY <1>1 DEF IsOffsets
<1> HIDE DEF in
<1>3. ASSUME NEW f \in 1 .. Len(F)
      PROVE  in[f][Len(F[f]) + 1] \in Nat
  <2>1. PICK l : l = Len(F[f]) /\ l \in Nat
    BY <1>0
  <2>2. l + 1 \in 1 .. l + 1
    BY <2>1
  <2> QED
    BY <1>2, <2>1, <2>2
<1>4. Len(W) = Len(F) /\ \A f \in 1 .. Len(F) : Len(W[f]) = 1 + in[f][Len(F[f]) + 1] /\ Len(W[f]) \in Nat
  <2>1. Len(W) = Len(F)
    BY <1>0
  <2>2. ASSUME NEW f \in 1 .. Len(F)
        PROVE  Len(W[f]) = 1 + in[f][Len(F[f]) + 1] /\ Len(W[f]) \in Nat
    <3>1. PICK o : o = 1 + in[f][Len(F[f]) + 1] /\ o \in Nat
      BY <1>3
    <3>2. W[f] = [x \in 1 .. o |-> x]
      BY <3>1
    <3>3. Len([x \in 1 .. o |-> x]) = o
      BY <3>1
    <3> QED
      BY <3>1, <3>2, <3>3
  <2> QED
    BY <2>1, <2>2
<1> HIDE DEF W
<1>5. PICK first : IsOffsets(W, first)
  BY <1>0, <1>4, OffsetsExist
<1>6. first \in [1 .. Len(F) + 1 -> Nat] /\ first[1] = 0
  BY <1>4, <1>5 DEF IsOffsets
<1>7. ASSUME NEW f \in 1 .. Len(F)
      PROVE  first[f + 1] = (first[f] + 1) + in[f][Len(F[f]) + 1]
  <2>1. PICK a, b : a = first[f] /\ b = in[f][Len(F[f]) + 1]
    OBVIOUS
  <2>2. f \in 1 .. Len(F) + 1
    BY <1>0
  <2>3. a \in Nat /\ b \in Nat
    BY <1>3, <1>6, <2>1, <2>2
  <2>4. Len(W) = Len(F) /\ Len(W[f]) = 1 + b
    BY <1>4, <2>1
  <2>5. first[f + 1] = first[f] + Len(W[f])
    BY <1>5, <2>4 DEF IsOffsets
  <2>6. first[f + 1] = a + (1 + b)
    BY <2>1, <2>4, <2>5, Zenon
  <2>7. a + (1 + b) = (a + 1) + b
    BY <2>3
  <2> QED
    BY <2>1, <2>6, <2>7, Zenon
<1>8. Sized(F, sc, first, in)
  BY <1>2, <1>6, <1>7 DEF Sized
<1> QED
  BY <1>8

\* W has what e has for each function, and behind it what v has for its blocks.
Listed(S, n, F, sc, first, in, v, e, W) ==
  /\ Module(n, F, sc) /\ Sized(F, sc, first, in)
  /\ \A b \in 1 .. n : v[b] \in Seq(S) /\ Len(v[b]) = Len(sc[b])
  /\ \A f \in 1 .. Len(F) : e[f] \in S
  /\ W = [f \in 1 .. Len(F) |-> <<e[f]>> \o FlattenSeq([k \in 1 .. Len(F[f]) |-> v[F[f][k]]])]

\* Such a list has two levels: functions, and the blocks of each.
LEMMA ListedLevels ==
  ASSUME NEW S, NEW n, NEW F, NEW sc, NEW first, NEW in, NEW v, NEW e, NEW W,
         Listed(S, n, F, sc, first, in, v, e, W)
  PROVE  \E A : /\ Levels(S, Len(F), e, A, in, first, W)
                /\ \A f \in 1 .. Len(F) :
                     /\ Len(A[f]) = Len(F[f])
                     /\ \A k \in 1 .. Len(F[f]) : A[f][k] = v[F[f][k]]
<1> DEFINE A == [f \in 1 .. Len(F) |-> [k \in 1 .. Len(F[f]) |-> v[F[f][k]]]]
<1>0. /\ Len(F) \in Nat /\ F \in Seq(Seq(1 .. n))
      /\ \A f \in 1 .. Len(F) : F[f] \in Seq(1 .. n) /\ Len(F[f]) \in Nat
  BY DEF Listed, Module
<1>1. ASSUME NEW f \in 1 .. Len(F)
      PROVE  /\ A[f] \in Seq(Seq(S)) /\ Len(A[f]) = Len(F[f])
             /\ \A k \in 1 .. Len(F[f]) : A[f][k] = v[F[f][k]]
  <2>1. PICK l : l = Len(F[f]) /\ l \in Nat
    BY <1>0
  <2>2. A[f] = [k \in 1 .. l |-> v[F[f][k]]]
    BY <2>1
  <2>3. ASSUME NEW k \in 1 .. l PROVE v[F[f][k]] \in Seq(S)
    <3>1. F[f][k] \in 1 .. n
      BY <1>0, <2>1, ElementOfSeq
    <3> QED
      BY <3>1 DEF Listed
  <2> HIDE DEF A
  <2>4. A[f] \in [1 .. l -> Seq(S)] /\ Len(A[f]) = l
    BY <2>1, <2>2, <2>3
  <2>5. A[f] \in Seq(Seq(S))
    BY <2>1, <2>4
  <2> QED
    BY <2>1, <2>2, <2>4, <2>5
<1>2. ASSUME NEW f \in 1 .. Len(F)
      PROVE  IsOffsets(A[f], in[f])
  <2>1. \A k \in 1 .. Len(F[f]) : F[f][k] \in 1 .. n
    BY <1>0, ElementOfSeq
  <2>2. \A k \in 1 .. Len(F[f]) : Len(A[f][k]) = Len(sc[F[f][k]])
    BY <1>1, <2>1 DEF Listed
  <2>3. Sized(F, sc, first, in)
    BY DEF Listed
  <2>4. /\ in[f] \in [1 .. Len(F[f]) + 1 -> Nat] /\ in[f][1] = 0
        /\ \A k \in 1 .. Len(F[f]) : in[f][k + 1] = in[f][k] + Len(sc[F[f][k]])
    BY <2>3 DEF Sized
  <2> HIDE DEF A
  <2> QED
    BY <1>1, <2>2, <2>4 DEF IsOffsets
<1>3. ASSUME NEW f \in 1 .. Len(F)
      PROVE  W[f] = <<e[f]>> \o FlattenSeq(A[f]) /\ W[f] \in Seq(S) /\ e[f] \in S
  <2>1. W[f] = <<e[f]>> \o FlattenSeq(A[f])
    <3>1. W[f] = <<e[f]>> \o FlattenSeq([k \in 1 .. Len(F[f]) |-> v[F[f][k]]])
      BY DEF Listed
    <3> QED
      BY <3>1
  <2> HIDE DEF A
  <2>2. PICK a, o : a = A[f] /\ o = in[f]
    OBVIOUS
  <2>3. a \in Seq(Seq(S)) /\ IsOffsets(a, o)
    BY <1>1, <1>2, <2>2
  <2>4. FlattenSeq(a) \in Seq(S)
    BY <2>3, FlattenAt, SMT
  <2>5. PICK d, fl : d = e[f] /\ fl = FlattenSeq(a)
    OBVIOUS
  <2>6. d \in S /\ fl \in Seq(S)
    BY <2>4, <2>5 DEF Listed
  <2>7. <<d>> \o fl \in Seq(S)
    BY <2>6
  <2> QED
    BY <2>1, <2>2, <2>5, <2>6, <2>7, Zenon
<1> HIDE DEF A
<1>4. W \in Seq(Seq(S)) /\ Len(W) = Len(F)
  <2>1. PICK N : N = Len(F) /\ N \in Nat
    BY <1>0
  <2>2. W = [f \in 1 .. N |-> W[f]]
    BY <2>1 DEF Listed
  <2>3. W \in [1 .. N -> Seq(S)]
    BY <1>3, <2>1, <2>2
  <2>4. W \in Seq(Seq(S)) /\ Len(W) = N
    BY <2>1, <2>3
  <2> QED
    BY <2>1, <2>4
<1>5. ASSUME NEW f \in 1 .. Len(F)
      PROVE  first[f + 1] = (first[f] + 1) + in[f][Len(A[f]) + 1]
  BY <1>1 DEF Listed, Sized
<1>6. first \in [1 .. Len(F) + 1 -> Nat] /\ first[1] = 0
  BY DEF Listed, Sized
<1>7. Levels(S, Len(F), e, A, in, first, W)
  BY <1>0, <1>1, <1>2, <1>3, <1>4, <1>5, <1>6 DEF Levels
<1> QED
  BY <1>1, <1>7

\* What is at each place of the list
Listing(r, F, sc, first, in, v, e) ==
  \A f \in 1 .. Len(F) :
    /\ r[first[f] + 1] = e[f]
    /\ \A k \in 1 .. Len(F[f]) : \A t \in 1 .. Len(sc[F[f][k]]) : \A c :
         c = ((first[f] + 1) + in[f][k]) + t => r[c] = v[F[f][k]][t]

\* Where such a list has what the functions and the blocks have
LEMMA ListAt ==
  ASSUME NEW S, NEW n, NEW F, NEW sc, NEW first, NEW in, NEW v, NEW e, NEW W,
         Listed(S, n, F, sc, first, in, v, e, W)
  PROVE  /\ FlattenSeq(W) \in Seq(S) /\ Len(FlattenSeq(W)) = first[Len(F) + 1]
         /\ Listing(FlattenSeq(W), F, sc, first, in, v, e)
<1>1. PICK A : /\ Levels(S, Len(F), e, A, in, first, W)
               /\ \A f \in 1 .. Len(F) :
                     /\ Len(A[f]) = Len(F[f])
                     /\ \A k \in 1 .. Len(F[f]) : A[f][k] = v[F[f][k]]
  BY ListedLevels
<1>2. PICK N, r : N = Len(F) /\ r = FlattenSeq(W)
  OBVIOUS
<1>3. Levels(S, N, e, A, in, first, W)
  BY <1>1, <1>2
<1>4. r \in Seq(S) /\ Len(r) = first[N + 1] /\ LaidOut(r, N, e, A, in, first)
  BY <1>2, <1>3, TwoLevels
<1>5. ASSUME NEW f \in 1 .. N, NEW k \in 1 .. Len(F[f]), NEW t \in 1 .. Len(sc[F[f][k]]),
             NEW c, c = ((first[f] + 1) + in[f][k]) + t
      PROVE  r[c] = v[F[f][k]][t]
  <2>1. k \in 1 .. Len(A[f]) /\ A[f][k] = v[F[f][k]]
    BY <1>1, <1>2
  <2>2. F[f][k] \in 1 .. n
    <3>1. F[f] \in Seq(1 .. n)
      BY <1>2 DEF Listed, Module
    <3> QED
      BY <3>1, ElementOfSeq
  <2>3. t \in 1 .. Len(A[f][k])
    <3>1. Len(v[F[f][k]]) = Len(sc[F[f][k]])
      BY <2>2 DEF Listed
    <3>2. Len(A[f][k]) = Len(sc[F[f][k]])
      BY <2>1, <3>1, Zenon
    <3>3. PICK l : l = Len(sc[F[f][k]])
      OBVIOUS
    <3>4. t \in 1 .. l /\ Len(A[f][k]) = l
      BY <3>2, <3>3
    <3> QED
      BY <3>4, Zenon
  <2>4. r[c] = A[f][k][t]
    <3>1. \A m \in 1 .. Len(A[f]) : \A x \in 1 .. Len(A[f][m]) : \A d :
            d = ((first[f] + 1) + in[f][m]) + x => r[d] = A[f][m][x]
      BY <1>4, Zenon DEF LaidOut
    <3>2. \A x \in 1 .. Len(A[f][k]) : \A d :
            d = ((first[f] + 1) + in[f][k]) + x => r[d] = A[f][k][x]
      BY <2>1, <3>1, Zenon
    <3> QED
      BY <1>5, <2>3, <3>2, Zenon
  <2> QED
    BY <2>1, <2>4
<1>6. \A f \in 1 .. N : r[first[f] + 1] = e[f]
  BY <1>4 DEF LaidOut
<1>7. Listing(r, F, sc, first, in, v, e)
  BY <1>2, <1>5, <1>6 DEF Listing
<1> QED
  BY <1>2, <1>4, <1>7

\* Every place is that of a call or of a successor, and these are all places.
Covered(N, F, sc, first, in) ==
  /\ \A c \in 1 .. N : \E f \in 1 .. Len(F) :
       \/ c = first[f] + 1
       \/ \E k \in 1 .. Len(F[f]) : \E t \in 1 .. Len(sc[F[f][k]]) :
            c = ((first[f] + 1) + in[f][k]) + t
  /\ \A f \in 1 .. Len(F) :
       /\ first[f] + 1 \in 1 .. N
       /\ \A k \in 1 .. Len(F[f]) : \A t \in 1 .. Len(sc[F[f][k]]) : \A c :
            c = ((first[f] + 1) + in[f][k]) + t => c \in 1 .. N

\* All of that holds of the numbers that were chosen.
LEMMA PlacesCover ==
  ASSUME NEW S, NEW n, NEW F, NEW sc, NEW first, NEW in, NEW v, NEW e, NEW W,
         Listed(S, n, F, sc, first, in, v, e, W)
  PROVE  Covered(first[Len(F) + 1], F, sc, first, in)
<1>1. PICK A : /\ Levels(S, Len(F), e, A, in, first, W)
               /\ \A f \in 1 .. Len(F) :
                     /\ Len(A[f]) = Len(F[f])
                     /\ \A k \in 1 .. Len(F[f]) : A[f][k] = v[F[f][k]]
  BY ListedLevels
<1>2. PICK N : N = Len(F) /\ N \in Nat
  BY <1>1 DEF Levels
<1>3. /\ IsOffsets(W, first) /\ W \in Seq(Seq(S)) /\ Len(W) = N
      /\ \A f \in 1 .. N : W[f] \in Seq(S) /\ Len(W[f]) \in Nat
  <2>1. Levels(S, N, e, A, in, first, W)
    BY <1>1, <1>2
  <2>2. IsOffsets(W, first)
    BY <2>1, TwoLevels
  <2>3. W \in Seq(Seq(S)) /\ Len(W) = N
    BY <2>1 DEF Levels
  <2>4. \A f \in 1 .. N : W[f] \in Seq(S)
    BY <2>3, ElementOfSeq
  <2> QED
    BY <2>2, <2>3, <2>4
<1>4. ASSUME NEW f \in 1 .. N
      PROVE  /\ first[f] \in Nat
             /\ in[f][Len(A[f]) + 1] \in Nat /\ Len(W[f]) = 1 + in[f][Len(A[f]) + 1]
             /\ IsOffsets(A[f], in[f]) /\ Len(A[f]) \in Nat
             /\ \A k \in 1 .. Len(A[f]) : Len(A[f][k]) \in Nat
             /\ Len(A[f]) = Len(F[f])
             /\ \A k \in 1 .. Len(F[f]) : Len(A[f][k]) = Len(sc[F[f][k]])
  <2>1. IsOffsets(A[f], in[f]) /\ A[f] \in Seq(Seq(S))
    BY <1>1, <1>2 DEF Levels
  <2>2. Len(A[f]) \in Nat /\ \A k \in 1 .. Len(A[f]) : Len(A[f][k]) \in Nat
    <3>1. PICK a : a = A[f] /\ a \in Seq(Seq(S))
      BY <2>1
    <3>2. \A k \in 1 .. Len(a) : a[k] \in Seq(S)
      BY <3>1, ElementOfSeq
    <3>3. Len(a) \in Nat /\ \A k \in 1 .. Len(a) : Len(a[k]) \in Nat
      BY <3>1, <3>2
    <3> QED
      BY <3>1, <3>3
  <2>3. PICK a, b : a = first[f] /\ b = in[f][Len(A[f]) + 1]
    OBVIOUS
  <2>4. a \in Nat
    <3>1. f \in 1 .. N + 1
      BY <1>2
    <3> QED
      BY <1>2, <2>3, <3>1 DEF Listed, Sized
  <2>5. b \in Nat
    <3>1. Len(A[f]) + 1 \in 1 .. Len(A[f]) + 1
      BY <2>2
    <3> QED
      BY <2>1, <2>3, <3>1 DEF IsOffsets
  <2>6. first[f + 1] = (a + 1) + b
    BY <1>1, <1>2, <2>3 DEF Levels
  <2>7. first[f + 1] = a + Len(W[f])
    BY <1>3, <2>3 DEF IsOffsets
  <2>8. Len(W[f]) = 1 + b
    <3>1. PICK l : l = Len(W[f]) /\ l \in Nat
      BY <1>3
    <3>2. (a + 1) + b = a + l
      BY <2>6, <2>7, <3>1
    <3>3. l = 1 + b
      BY <2>4, <2>5, <3>1, <3>2
    <3> QED
      BY <3>1, <3>3
  <2>9. Len(A[f]) = Len(F[f])
    BY <1>1, <1>2
  <2>10. ASSUME NEW k \in 1 .. Len(F[f])
         PROVE  Len(A[f][k]) = Len(sc[F[f][k]])
    <3>1. F[f][k] \in 1 .. n
      <4>1. F[f] \in Seq(1 .. n)
        BY <1>2 DEF Listed, Module
      <4> QED
        BY <4>1, ElementOfSeq
    <3>2. A[f][k] = v[F[f][k]]
      BY <1>1, <1>2
    <3> QED
      BY <3>1, <3>2 DEF Listed
  <2> QED
    BY <2>1, <2>2, <2>3, <2>4, <2>5, <2>8, <2>9, <2>10
<1>5. ASSUME NEW c \in 1 .. first[N + 1]
      PROVE  \E f \in 1 .. N :
              \/ c = first[f] + 1
              \/ \E k \in 1 .. Len(F[f]) : \E t \in 1 .. Len(sc[F[f][k]]) :
                   c = ((first[f] + 1) + in[f][k]) + t
  <2>0. PICK f \in 1 .. N : \E x \in 1 .. Len(W[f]) : c = first[f] + x
    <3>1. /\ Len(W) \in Nat /\ (\A m \in 1 .. Len(W) : Len(W[m]) \in Nat)
          /\ IsOffsets(W, first) /\ c \in 1 .. first[Len(W) + 1]
      BY <1>2, <1>3
    <3>2. \E m \in 1 .. Len(W) : \E x \in 1 .. Len(W[m]) : c = first[m] + x
      BY <3>1, FlattenCovers
    <3> QED
      BY <1>3, <3>2
  <2>1. PICK x \in 1 .. Len(W[f]) : c = first[f] + x
    BY <2>0
  <2>2. CASE x = 1
    BY <2>1, <2>2
  <2>3. CASE x # 1
    <3>1. PICK b : b = in[f][Len(A[f]) + 1] /\ b \in Nat /\ Len(W[f]) = 1 + b
      BY <1>4
    <3>2. PICK y \in 1 .. b : x = 1 + y
      <4>1. x \in 1 .. 1 + b
        BY <3>1
      <4>2. x - 1 \in 1 .. b /\ x = 1 + (x - 1)
        BY <2>3, <3>1, <4>1
      <4> QED
        BY <4>2
    <3>3. PICK a, o : a = A[f] /\ o = in[f]
      OBVIOUS
    <3>4. /\ Len(a) \in Nat /\ (\A m \in 1 .. Len(a) : Len(a[m]) \in Nat)
          /\ IsOffsets(a, o) /\ y \in 1 .. o[Len(a) + 1]
      BY <1>4, <3>1, <3>2, <3>3
    <3>10. PICK k \in 1 .. Len(a) : \E t \in 1 .. Len(a[k]) : y = o[k] + t
      BY <3>4, FlattenCovers
    <3>5. PICK t \in 1 .. Len(a[k]) : y = o[k] + t
      BY <3>10
    <3>6. k \in 1 .. Len(F[f]) /\ t \in 1 .. Len(sc[F[f][k]])
      BY <1>4, <3>3, <3>5
    <3>7. c = ((first[f] + 1) + in[f][k]) + t
      <4>1. PICK p, q : p = first[f] /\ q = o[k]
        OBVIOUS
      <4>2. k \in 1 .. Len(a) + 1
        BY <3>4, <3>5
      <4>3. p \in Nat /\ q \in Nat /\ t \in Int
        <5>1. q \in Nat
          BY <3>4, <4>1, <4>2 DEF IsOffsets
        <5>2. p \in Nat
          BY <1>4, <4>1
        <5> QED
          BY <5>1, <5>2
      <4>4. c = p + (1 + (q + t))
        BY <2>1, <3>2, <3>5, <4>1
      <4>5. p + (1 + (q + t)) = ((p + 1) + q) + t
        BY <4>3
      <4> QED
        BY <3>3, <4>1, <4>4, <4>5
    <3> QED
      BY <3>6, <3>7
  <2> QED
    BY <2>2, <2>3
<1>6. ASSUME NEW f \in 1 .. N
      PROVE  /\ first[f] + 1 \in 1 .. first[N + 1]
             /\ \A k \in 1 .. Len(F[f]) : \A t \in 1 .. Len(sc[F[f][k]]) :
                   ((first[f] + 1) + in[f][k]) + t \in 1 .. first[N + 1]
  <2>1. ASSUME NEW x \in 1 .. Len(W[f])
        PROVE  first[f] + x \in 1 .. first[N + 1]
    <3>1. /\ Len(W) \in Nat /\ (\A m \in 1 .. Len(W) : Len(W[m]) \in Nat)
          /\ IsOffsets(W, first) /\ f \in 1 .. Len(W)
      BY <1>2, <1>3
    <3>2. first[f] + x \in 1 .. first[Len(W) + 1]
      BY <3>1, OffsetInside
    <3> QED
      BY <1>3, <3>2
  <2>2. PICK b : b = in[f][Len(A[f]) + 1] /\ b \in Nat /\ Len(W[f]) = 1 + b
    BY <1>4
  <2>3. 1 \in 1 .. Len(W[f]) /\ \A y \in 1 .. b : 1 + y \in 1 .. Len(W[f])
    BY <2>2
  <2>4. ASSUME NEW k \in 1 .. Len(F[f]), NEW t \in 1 .. Len(sc[F[f][k]])
        PROVE  ((first[f] + 1) + in[f][k]) + t \in 1 .. first[N + 1]
    <3>1. PICK a, o : a = A[f] /\ o = in[f]
      OBVIOUS
    <3>2. /\ Len(a) \in Nat /\ (\A m \in 1 .. Len(a) : Len(a[m]) \in Nat)
          /\ IsOffsets(a, o) /\ k \in 1 .. Len(a) /\ t \in 1 .. Len(a[k])
      BY <1>4, <3>1
    <3>3. o[k] + t \in 1 .. o[Len(a) + 1]
      BY <3>2, OffsetInside
    <3>4. first[f] + (1 + (o[k] + t)) \in 1 .. first[N + 1]
      BY <2>1, <2>2, <2>3, <3>1, <3>3
    <3>5. PICK p, q : p = first[f] /\ q = o[k]
      OBVIOUS
    <3>6. k \in 1 .. Len(a) + 1
      BY <3>2
    <3>7. p \in Nat /\ q \in Nat /\ t \in Int
      <4>1. q \in Nat
        BY <3>2, <3>5, <3>6 DEF IsOffsets
      <4>2. p \in Nat
        BY <1>4, <3>5
      <4>3. t \in Int
        BY <3>2
      <4> QED
        BY <4>1, <4>2, <4>3, Zenon
    <3>8. p + (1 + (q + t)) = ((p + 1) + q) + t
      BY <3>7
    <3> QED
      BY <3>1, <3>4, <3>5, <3>8
  <2> QED
    BY <2>1, <2>3, <2>4
<1>8. ASSUME NEW f \in 1 .. N, NEW k \in 1 .. Len(F[f]), NEW t \in 1 .. Len(sc[F[f][k]]),
             NEW c, c = ((first[f] + 1) + in[f][k]) + t
      PROVE  c \in 1 .. first[N + 1]
  BY <1>6, <1>8, Zenon
<1>9. \A f \in 1 .. N : first[f] + 1 \in 1 .. first[N + 1]
  BY <1>6
<1>7. PICK M : M = first[N + 1]
  OBVIOUS
<1>10. \A f \in 1 .. N : \A k \in 1 .. Len(F[f]) : \A t \in 1 .. Len(sc[F[f][k]]) : \A c :
         c = ((first[f] + 1) + in[f][k]) + t => c \in 1 .. M
  BY <1>7, <1>8, Zenon
<1>11. \A c \in 1 .. M : \E f \in 1 .. N :
         \/ c = first[f] + 1
         \/ \E k \in 1 .. Len(F[f]) : \E t \in 1 .. Len(sc[F[f][k]]) :
              c = ((first[f] + 1) + in[f][k]) + t
  BY <1>5, <1>7
<1>12. \A f \in 1 .. N : first[f] + 1 \in 1 .. M
  BY <1>7, <1>9
<1>13. ASSUME NEW L, L = N
       PROVE  /\ \A c \in 1 .. M : \E f \in 1 .. L :
                   \/ c = first[f] + 1
                   \/ \E k \in 1 .. Len(F[f]) : \E t \in 1 .. Len(sc[F[f][k]]) :
                        c = ((first[f] + 1) + in[f][k]) + t
              /\ \A f \in 1 .. L :
                   /\ first[f] + 1 \in 1 .. M
                   /\ \A k \in 1 .. Len(F[f]) : \A t \in 1 .. Len(sc[F[f][k]]) : \A c :
                        c = ((first[f] + 1) + in[f][k]) + t => c \in 1 .. M
  BY <1>10, <1>11, <1>12, <1>13, Zenon
<1>14. Covered(M, F, sc, first, in)
  BY <1>2, <1>13, Zenon DEF Covered
<1> QED
  BY <1>2, <1>7, <1>14

\* The slots of a module, and the list of them in the order of their counters
SlotSet(n, F, sc) ==
  {<<0, F[f][1]>> : f \in 1 .. Len(F)} \cup UNION {{<<b, t>> : t \in 1 .. Len(sc[b])} : b \in 1 .. n}

SlotsInOrder(F, sc) ==
  FlattenSeq([f \in DOMAIN F |->
    << <<0, F[f][1]>> >> \o
      FlattenSeq([m \in DOMAIN F[f] |-> [t \in DOMAIN sc[F[f][m]] |-> <<F[f][m], t>>]])])

\* The list has each slot once.
Enumerates(list, N, S) ==
  /\ N \in Nat /\ Len(list) = N /\ DOMAIN list = 1 .. N
  /\ \A c \in 1 .. N : list[c] \in S
  /\ \A c, d \in 1 .. N : list[c] = list[d] => c = d
  /\ \A slot \in S : \E c \in 1 .. N : list[c] = slot

\* first[f] slots come before those of function f, and place[f][k] before those
\* of its block k.
Sizes(N, F, sc, first, place) ==
  /\ first[1] = 0 /\ first[Len(F) + 1] = N
  /\ \A f \in 1 .. Len(F) :
       /\ first[f] \in Nat /\ first[f + 1] \in Nat
       /\ place[f][1] = first[f] + 1 /\ first[f + 1] = place[f][Len(F[f]) + 1]
       /\ \A k \in 1 .. Len(F[f]) :
            /\ place[f][k] \in Nat /\ place[f][k + 1] \in Nat
            /\ place[f][k + 1] = place[f][k] + Len(sc[F[f][k]])

CallsAt(list, N, F, first) ==
  \A f \in 1 .. Len(F) : \A c : c = first[f] + 1 => c \in 1 .. N /\ list[c] = <<0, F[f][1]>>

EdgesAt(list, N, F, sc, place) ==
  \A f \in 1 .. Len(F) : \A k \in 1 .. Len(F[f]) : \A t \in 1 .. Len(sc[F[f][k]]) : \A c :
    c = place[f][k] + t => c \in 1 .. N /\ list[c] = <<F[f][k], t>>

\* What v and e have when the list is that of the slots
SlotValues(n, F, sc, v, e) ==
  /\ \A f \in 1 .. Len(F) : e[f] = <<0, F[f][1]>>
  /\ \A b \in 1 .. n : \A t \in 1 .. Len(sc[b]) : v[b][t] = <<b, t>>

\* SlotsInOrder is such a list.
LEMMA SlotsListed ==
  ASSUME NEW n, NEW F, NEW sc, Module(n, F, sc), NEW first, NEW in, Sized(F, sc, first, in)
  PROVE  \E v, e, W : /\ Listed(SlotSet(n, F, sc), n, F, sc, first, in, v, e, W)
                      /\ SlotsInOrder(F, sc) = FlattenSeq(W)
                      /\ SlotValues(n, F, sc, v, e)
<1> DEFINE S == SlotSet(n, F, sc)
           v == [b \in 1 .. n |-> [t \in 1 .. Len(sc[b]) |-> <<b, t>>]]
           e == [f \in 1 .. Len(F) |-> <<0, F[f][1]>>]
           W == [f \in 1 .. Len(F) |-> <<e[f]>> \o FlattenSeq([k \in 1 .. Len(F[f]) |-> v[F[f][k]]])]
<1>1. ASSUME NEW b \in 1 .. n
      PROVE  /\ v[b] \in Seq(S) /\ Len(v[b]) = Len(sc[b])
             /\ \A t \in 1 .. Len(sc[b]) : v[b][t] = <<b, t>>
  <2>1. PICK l : l = Len(sc[b]) /\ l \in Nat
    BY ModuleTypes
  <2>2. \A t \in 1 .. l : <<b, t>> \in S
    BY <2>1 DEF SlotSet
  <2>3. v[b] = [t \in 1 .. l |-> <<b, t>>]
    BY <2>1
  <2> HIDE DEF S, v
  <2>4. v[b] \in Seq(S) /\ Len(v[b]) = l
    BY <2>1, <2>2, <2>3
  <2> QED
    BY <2>1, <2>3, <2>4
<1>2. \A f \in 1 .. Len(F) : e[f] \in S /\ e[f] = <<0, F[f][1]>>
  BY DEF SlotSet
<1>3. SlotsInOrder(F, sc) = FlattenSeq(W)
  <2>1. DOMAIN F = 1 .. Len(F) /\ \A f \in 1 .. Len(F) : F[f] \in Seq(1 .. n) /\ DOMAIN F[f] = 1 .. Len(F[f])
    BY DEF Module
  <2>2. ASSUME NEW f \in 1 .. Len(F)
        PROVE  [m \in DOMAIN F[f] |-> [t \in DOMAIN sc[F[f][m]] |-> <<F[f][m], t>>]]
                 = [k \in 1 .. Len(F[f]) |-> v[F[f][k]]]
    <3>1. \A m \in 1 .. Len(F[f]) : F[f][m] \in 1 .. n
      BY <2>1, ElementOfSeq
    <3>2. \A b \in 1 .. n : DOMAIN sc[b] = 1 .. Len(sc[b])
      BY DEF Module
    <3>3. \A m \in 1 .. Len(F[f]) : [t \in DOMAIN sc[F[f][m]] |-> <<F[f][m], t>>] = v[F[f][m]]
      BY <3>1, <3>2
    <3> HIDE DEF v
    <3> QED
      BY <2>1, <3>3
  <2> HIDE DEF v, e
  <2>3. \A f \in 1 .. Len(F) :
          << <<0, F[f][1]>> >> \o FlattenSeq([m \in DOMAIN F[f] |-> [t \in DOMAIN sc[F[f][m]] |-> <<F[f][m], t>>]])
            = <<e[f]>> \o FlattenSeq([k \in 1 .. Len(F[f]) |-> v[F[f][k]]])
    BY <1>2, <2>2
  <2>4. [f \in DOMAIN F |-> << <<0, F[f][1]>> >> \o FlattenSeq([m \in DOMAIN F[f] |-> [t \in DOMAIN sc[F[f][m]] |-> <<F[f][m], t>>]])] = W
    BY <2>1, <2>3
  <2> HIDE DEF W
  <2> QED
    BY <2>4 DEF SlotsInOrder
<1>4. Listed(S, n, F, sc, first, in, v, e, W)
  <2> HIDE DEF S, v, e
  <2> QED
    BY <1>1, <1>2 DEF Listed
<1> HIDE DEF S, v, e, W
<1>5. S = SlotSet(n, F, sc)
  BY DEF S
<1>6. SlotValues(n, F, sc, v, e)
  BY <1>1, <1>2 DEF SlotValues
<1> QED
  BY <1>3, <1>4, <1>5, <1>6

\* It numbers the slots, and says where those of each function and block are.
LEMMA SlotsNumbered ==
  ASSUME NEW n, NEW F, NEW sc, Module(n, F, sc), NEW first, NEW in, Sized(F, sc, first, in)
  PROVE  \E N, list, place :
           /\ N = first[Len(F) + 1] /\ list = SlotsInOrder(F, sc)
           /\ Enumerates(list, N, SlotSet(n, F, sc)) /\ Sizes(N, F, sc, first, place)
           /\ CallsAt(list, N, F, first) /\ EdgesAt(list, N, F, sc, place)
<1> DEFINE place == [f \in 1 .. Len(F) |-> [k \in 1 .. Len(F[f]) + 1 |-> (first[f] + 1) + in[f][k]]]
<1>1. PICK v, e, W : /\ Listed(SlotSet(n, F, sc), n, F, sc, first, in, v, e, W)
                     /\ SlotsInOrder(F, sc) = FlattenSeq(W)
                     /\ SlotValues(n, F, sc, v, e)
  BY SlotsListed
<1>2. PICK N, list, S : N = first[Len(F) + 1] /\ list = SlotsInOrder(F, sc) /\ S = SlotSet(n, F, sc)
  OBVIOUS
<1>3. list \in Seq(S) /\ Len(list) = N /\ Listing(list, F, sc, first, in, v, e)
  BY <1>1, <1>2, ListAt
<1>4. N \in Nat /\ DOMAIN list = 1 .. N /\ \A c \in 1 .. N : list[c] \in S
  BY <1>3, ElementOfSeq
<1>5. Covered(N, F, sc, first, in)
  BY <1>1, <1>2, PlacesCover
<1>6. Len(F) \in Nat /\ \A f \in 1 .. Len(F) : /\ Len(F[f]) \in Nat \ {0}
                                               /\ \A k \in 1 .. Len(F[f]) : F[f][k] \in 1 .. n
  BY ModuleTypes
<1>7. ASSUME NEW f \in 1 .. Len(F)
      PROVE  /\ list[first[f] + 1] = <<0, F[f][1]>>
             /\ \A k \in 1 .. Len(F[f]) : \A t \in 1 .. Len(sc[F[f][k]]) : \A c :
                  c = ((first[f] + 1) + in[f][k]) + t => list[c] = <<F[f][k], t>>
  <2>1. list[first[f] + 1] = <<0, F[f][1]>>
    BY <1>1, <1>3 DEF Listing, SlotValues
  <2>2. ASSUME NEW k \in 1 .. Len(F[f]), NEW t \in 1 .. Len(sc[F[f][k]]), NEW c,
               c = ((first[f] + 1) + in[f][k]) + t
        PROVE  list[c] = <<F[f][k], t>>
    <3>1. list[c] = v[F[f][k]][t]
      <4>1. Listing(list, F, sc, first, in, v, e)
        BY <1>3
      <4>2. \A x \in 1 .. Len(F[f]) : \A y \in 1 .. Len(sc[F[f][x]]) : \A z :
              z = ((first[f] + 1) + in[f][x]) + y => list[z] = v[F[f][x]][y]
        BY <4>1 DEF Listing
      <4> QED
        BY <2>2, <4>2, Zenon
    <3>2. v[F[f][k]][t] = <<F[f][k], t>>
      BY <1>1, <1>6 DEF SlotValues
    <3> QED
      BY <3>1, <3>2, Zenon
  <2> QED
    BY <2>1, <2>2
\* Every place has a slot of its own.
<1>8. ASSUME NEW c \in 1 .. N, NEW d \in 1 .. N, list[c] = list[d]
      PROVE  c = d
  <2> DEFINE CallAt(x) == \E f \in 1 .. Len(F) : x = first[f] + 1 /\ list[x] = <<0, F[f][1]>>
             EdgeAt(x) == \E f \in 1 .. Len(F) : \E k \in 1 .. Len(F[f]) :
                            \E t \in 1 .. Len(sc[F[f][k]]) :
                              x = ((first[f] + 1) + in[f][k]) + t /\ list[x] = <<F[f][k], t>>
  <2>1. ASSUME NEW x \in 1 .. N
        PROVE  CallAt(x) \/ EdgeAt(x)
    <3>1. PICK f \in 1 .. Len(F) :
            \/ x = first[f] + 1
            \/ \E k \in 1 .. Len(F[f]) : \E t \in 1 .. Len(sc[F[f][k]]) :
                   x = ((first[f] + 1) + in[f][k]) + t
      BY <1>5, Zenon DEF Covered
    <3>2. CASE x = first[f] + 1
      BY <1>7, <3>2
    <3>3. CASE \E k \in 1 .. Len(F[f]) : \E t \in 1 .. Len(sc[F[f][k]]) :
                 x = ((first[f] + 1) + in[f][k]) + t
      <4>1. PICK k \in 1 .. Len(F[f]) : \E t \in 1 .. Len(sc[F[f][k]]) :
                 x = ((first[f] + 1) + in[f][k]) + t
        BY <3>3, Zenon
      <4>2. PICK t \in 1 .. Len(sc[F[f][k]]) : x = ((first[f] + 1) + in[f][k]) + t
        BY <4>1, Zenon
      <4>3. list[x] = <<F[f][k], t>>
        BY <1>7, <4>2, Zenon
      <4> QED
        BY <4>2, <4>3, Zenon
    <3> QED
      BY <3>1, <3>2, <3>3
  <2>2. CASE CallAt(c) /\ CallAt(d)
    <3>1. PICK f \in 1 .. Len(F) : c = first[f] + 1 /\ list[c] = <<0, F[f][1]>>
      BY <2>2
    <3>2. PICK g \in 1 .. Len(F) : d = first[g] + 1 /\ list[d] = <<0, F[g][1]>>
      BY <2>2
    <3>3. PICK o : o = 1
      OBVIOUS
    <3>4. F[f][o] = F[g][o] /\ o \in 1 .. Len(F[f]) /\ o \in 1 .. Len(F[g])
      BY <1>6, <1>8, <3>1, <3>2, <3>3
    <3>5. f = g
      BY <3>4, ModuleOnce, Zenon
    <3> QED
      BY <3>1, <3>2, <3>5
  <2>3. ASSUME NEW x \in 1 .. N, NEW y \in 1 .. N, CallAt(x), EdgeAt(y)
        PROVE  list[x] # list[y]
    <3>1. PICK f \in 1 .. Len(F) : list[x] = <<0, F[f][1]>>
      BY <2>3
    <3>2. PICK g \in 1 .. Len(F) : \E k \in 1 .. Len(F[g]) : \E t \in 1 .. Len(sc[F[g][k]]) :
                                    list[y] = <<F[g][k], t>>
      BY <2>3
    <3>3. PICK k \in 1 .. Len(F[g]) : \E t : list[y] = <<F[g][k], t>>
      BY <3>2
    <3>4. F[g][k] \in 1 .. n /\ n \in Nat
      BY <1>6, ModuleTypes
    <3> QED
      BY <3>1, <3>3, <3>4
  <2>4. CASE EdgeAt(c) /\ EdgeAt(d)
    <3>1. PICK f, k, t : /\ f \in 1 .. Len(F) /\ k \in 1 .. Len(F[f])
             /\ c = ((first[f] + 1) + in[f][k]) + t /\ list[c] = <<F[f][k], t>>
      BY <2>4
    <3>2. PICK g, l, u : /\ g \in 1 .. Len(F) /\ l \in 1 .. Len(F[g])
             /\ d = ((first[g] + 1) + in[g][l]) + u /\ list[d] = <<F[g][l], u>>
      BY <2>4
    <3>3. F[f][k] = F[g][l] /\ t = u
      BY <1>8, <3>1, <3>2
    <3>4. f = g /\ k = l
      <4>1. f \in 1 .. Len(F) /\ g \in 1 .. Len(F) /\ k \in 1 .. Len(F[f]) /\ l \in 1 .. Len(F[g])
            /\ F[f][k] = F[g][l]
        BY <3>1, <3>2, <3>3
      <4>2. \A x, y \in 1 .. Len(F) : \A q \in 1 .. Len(F[x]), r \in 1 .. Len(F[y]) :
              F[x][q] = F[y][r] => x = y /\ q = r
        BY Zenon DEF Module
      <4> QED
        BY <4>1, <4>2, Zenon
    <3> QED
      BY <3>1, <3>2, <3>3, <3>4
  <2> HIDE DEF CallAt, EdgeAt
  <2> QED
    BY <1>8, <2>1, <2>2, <2>3, <2>4
<1>9. ASSUME NEW slot \in S
      PROVE  \E c \in 1 .. N : list[c] = slot
  <2>1. CASE \E f \in 1 .. Len(F) : slot = <<0, F[f][1]>>
    BY <1>5, <1>7, <2>1 DEF Covered
  <2>2. CASE \E b \in 1 .. n : \E t \in 1 .. Len(sc[b]) : slot = <<b, t>>
    <3>1. PICK b \in 1 .. n : \E t \in 1 .. Len(sc[b]) : slot = <<b, t>>
      BY <2>2
    <3>2. PICK f \in 1 .. Len(F) : \E k \in 1 .. Len(F[f]) : F[f][k] = b
      BY DEF Module
    <3>3. PICK k \in 1 .. Len(F[f]) : F[f][k] = b
      BY <3>2
    <3>4. PICK t \in 1 .. Len(sc[F[f][k]]) : slot = <<F[f][k], t>>
      BY <3>1, <3>3
    <3>5. PICK c : c = ((first[f] + 1) + in[f][k]) + t
      OBVIOUS
    <3>6. c \in 1 .. N
      BY <1>5, <3>5, Zenon DEF Covered
    <3>7. list[c] = <<F[f][k], t>>
      BY <1>7, <3>5, Zenon
    <3> QED
      BY <3>4, <3>6, <3>7
  <2> QED
    BY <1>2, <2>1, <2>2 DEF SlotSet
<1>10. ASSUME NEW f \in 1 .. Len(F)
       PROVE  /\ first[f] \in Nat /\ first[f + 1] \in Nat
              /\ place[f][1] = first[f] + 1 /\ first[f + 1] = place[f][Len(F[f]) + 1]
              /\ \A k \in 1 .. Len(F[f]) : 
                   /\ place[f][k] \in Nat /\ place[f][k + 1] \in Nat
                   /\ place[f][k + 1] = place[f][k] + Len(sc[F[f][k]])
                   /\ place[f][k] = (first[f] + 1) + in[f][k]
  <2>0. f \in 1 .. Len(F) + 1 /\ f + 1 \in 1 .. Len(F) + 1
    BY <1>6
  <2>1. first[f] \in Nat /\ first[f + 1] \in Nat
    BY <2>0 DEF Sized
  <2>2. PICK L : L = Len(F[f]) /\ L \in Nat \ {0}
    BY <1>6
  <2>3. \A k \in 1 .. L + 1 : place[f][k] = (first[f] + 1) + in[f][k]
    BY <2>2
  <2>4. /\ in[f] \in [1 .. L + 1 -> Nat] /\ in[f][1] = 0
        /\ \A k \in 1 .. L : in[f][k + 1] = in[f][k] + Len(sc[F[f][k]])
        /\ first[f + 1] = (first[f] + 1) + in[f][L + 1]
    BY <2>2 DEF Sized
  <2> HIDE DEF place
  <2>5. place[f][1] = first[f] + 1 /\ first[f + 1] = place[f][L + 1]
    <3>1. 1 \in 1 .. L + 1 /\ L + 1 \in 1 .. L + 1
      BY <2>2
    <3>2. place[f][1] = (first[f] + 1) + 0
      BY <2>3, <2>4, <3>1
    <3> QED
      BY <2>1, <2>3, <2>4, <3>1, <3>2
  <2>6. ASSUME NEW k \in 1 .. L
        PROVE  /\ place[f][k] \in Nat /\ place[f][k + 1] \in Nat
               /\ place[f][k + 1] = place[f][k] + Len(sc[F[f][k]])
    <3>1. k \in 1 .. L + 1 /\ k + 1 \in 1 .. L + 1
      BY <2>2
    <3>2. PICK a, b, c : a = first[f] /\ b = in[f][k] /\ c = Len(sc[F[f][k]])
      OBVIOUS
    <3>3. c \in Nat
      <4>1. F[f][k] \in 1 .. n
        BY <1>6, <2>2
      <4> QED
        BY <3>2, <4>1, ModuleTypes
    <3>4. a \in Nat /\ b \in Nat
      BY <2>1, <2>4, <3>1, <3>2
    <3>5. place[f][k] = (a + 1) + b /\ place[f][k + 1] = (a + 1) + (b + c)
      BY <2>3, <2>4, <3>1, <3>2
    <3>6. (a + 1) + (b + c) = ((a + 1) + b) + c /\ (a + 1) + b \in Nat /\ (a + 1) + (b + c) \in Nat
      BY <3>3, <3>4
    <3> QED
      BY <3>2, <3>5, <3>6
  <2>7. \A k \in 1 .. L : place[f][k] = (first[f] + 1) + in[f][k]
    BY <2>2, <2>3
  <2> QED
    BY <2>1, <2>2, <2>5, <2>6, <2>7
<1> HIDE DEF place
<1>11. ASSUME NEW f \in 1 .. Len(F), NEW k \in 1 .. Len(F[f]), NEW t \in 1 .. Len(sc[F[f][k]]),
              NEW c, c = place[f][k] + t
       PROVE  c \in 1 .. N /\ list[c] = <<F[f][k], t>>
  <2>1. c = ((first[f] + 1) + in[f][k]) + t
    BY <1>10, <1>11
  <2>2. c \in 1 .. N
    BY <1>5, <2>1, Zenon DEF Covered
  <2>3. list[c] = <<F[f][k], t>>
    BY <1>7, <2>1, Zenon
  <2> QED
    BY <2>2, <2>3
<1>12. \A f \in 1 .. Len(F) : \A c : c = first[f] + 1 => c \in 1 .. N /\ list[c] = <<0, F[f][1]>>
  BY <1>5, <1>7 DEF Covered
<1>13. first[1] = 0
  BY DEF Sized
<1>14. ASSUME NEW f \in 1 .. Len(F)
       PROVE  /\ first[f] \in Nat /\ first[f + 1] \in Nat
              /\ place[f][1] = first[f] + 1 /\ first[f + 1] = place[f][Len(F[f]) + 1]
              /\ \A k \in 1 .. Len(F[f]) :
                   /\ place[f][k] \in Nat /\ place[f][k + 1] \in Nat
                   /\ place[f][k + 1] = place[f][k] + Len(sc[F[f][k]])
  BY <1>10
<1>15. EdgesAt(list, N, F, sc, place)
  BY <1>11, Zenon DEF EdgesAt
<1>16. CallsAt(list, N, F, first)
  BY <1>12, Zenon DEF CallsAt
<1>17. Sizes(N, F, sc, first, place)
  BY <1>2, <1>13, <1>14, Zenon DEF Sizes
<1>18. Enumerates(list, N, SlotSet(n, F, sc))
  BY <1>2, <1>3, <1>4, <1>8, <1>9 DEF Enumerates
<1> QED
  BY <1>2, <1>15, <1>16, <1>17, <1>18

\* What v has when the list is that of the edges
EdgeValues(n, F, sc, v, e) ==
  /\ \A f \in 1 .. Len(F) : e[f] = <<0, F[f][1]>>
  /\ \A b \in 1 .. n : \A t \in 1 .. Len(sc[b]) : v[b][t] = <<b, sc[b][t]>>

\* So is the list of edges that the profile file follows.
LEMMA EdgesListed ==
  ASSUME NEW n, NEW F, NEW sc, Module(n, F, sc), NEW first, NEW in, Sized(F, sc, first, in)
  PROVE  \E S, v, e, W : /\ Listed(S, n, F, sc, first, in, v, e, W)
                         /\ EdgeList(F, sc) = FlattenSeq(W)
                         /\ EdgeValues(n, F, sc, v, e)
<1> DEFINE S == (0 .. n) \X (1 .. n)
           v == [b \in 1 .. n |-> [t \in 1 .. Len(sc[b]) |-> <<b, sc[b][t]>>]]
           e == [f \in 1 .. Len(F) |-> <<0, F[f][1]>>]
           W == [f \in 1 .. Len(F) |-> <<e[f]>> \o FlattenSeq([k \in 1 .. Len(F[f]) |-> v[F[f][k]]])]
<1>1. ASSUME NEW b \in 1 .. n
      PROVE  /\ v[b] \in Seq(S) /\ Len(v[b]) = Len(sc[b])
             /\ \A t \in 1 .. Len(sc[b]) : v[b][t] = <<b, sc[b][t]>>
  <2>1. PICK l : l = Len(sc[b]) /\ l \in Nat /\ \A t \in 1 .. l : sc[b][t] \in 1 .. n
    BY ModuleTypes
  <2>2. \A t \in 1 .. l : <<b, sc[b][t]>> \in S
    BY <2>1
  <2>3. v[b] = [t \in 1 .. l |-> <<b, sc[b][t]>>]
    BY <2>1
  <2> HIDE DEF S, v
  <2>4. v[b] \in Seq(S) /\ Len(v[b]) = l
    BY <2>1, <2>2, <2>3
  <2> QED
    BY <2>1, <2>3, <2>4
<1>2. ASSUME NEW f \in 1 .. Len(F)
      PROVE  e[f] \in S /\ e[f] = <<0, F[f][1]>>
  <2>1. Len(F[f]) \in Nat \ {0} /\ n \in Nat /\ \A k \in 1 .. Len(F[f]) : F[f][k] \in 1 .. n
    BY ModuleTypes
  <2>2. 1 \in 1 .. Len(F[f])
    BY <2>1
  <2>3. F[f][1] \in 1 .. n
    BY <2>1, <2>2
  <2> QED
    BY <2>1, <2>3
<1>3. EdgeList(F, sc) = FlattenSeq(W)
  <2>1. DOMAIN F = 1 .. Len(F) /\ \A f \in 1 .. Len(F) : F[f] \in Seq(1 .. n) /\ DOMAIN F[f] = 1 .. Len(F[f])
    BY ModuleTypes
  <2>2. ASSUME NEW f \in 1 .. Len(F)
        PROVE  [m \in DOMAIN F[f] |-> [t \in DOMAIN sc[F[f][m]] |-> <<F[f][m], sc[F[f][m]][t]>>]]
                 = [k \in 1 .. Len(F[f]) |-> v[F[f][k]]]
    <3>1. \A m \in 1 .. Len(F[f]) : F[f][m] \in 1 .. n
      BY <2>1, ElementOfSeq
    <3>2. \A b \in 1 .. n : DOMAIN sc[b] = 1 .. Len(sc[b])
      BY ModuleTypes
    <3>3. \A m \in 1 .. Len(F[f]) : [t \in DOMAIN sc[F[f][m]] |-> <<F[f][m], sc[F[f][m]][t]>>] = v[F[f][m]]
      BY <3>1, <3>2
    <3> HIDE DEF v
    <3> QED
      BY <2>1, <3>3
  <2> HIDE DEF v, e
  <2>3. \A f \in 1 .. Len(F) : EdgesOf(F[f], sc) = <<e[f]>> \o FlattenSeq([k \in 1 .. Len(F[f]) |-> v[F[f][k]]])
    BY <1>2, <2>2 DEF EdgesOf
  <2>4. [f \in DOMAIN F |-> EdgesOf(F[f], sc)] = W
    BY <2>1, <2>3
  <2> HIDE DEF W
  <2> QED
    BY <2>4 DEF EdgeList
<1>4. Listed(S, n, F, sc, first, in, v, e, W)
  <2> HIDE DEF S, v, e
  <2> QED
    BY <1>1, <1>2 DEF Listed
<1> HIDE DEF S, v, e, W
<1>6. EdgeValues(n, F, sc, v, e)
  BY <1>1, <1>2 DEF EdgeValues
<1> QED
  BY <1>3, <1>4, <1>6

\* The edges are those of the slots, in their order.
SameOrder(edges, list, N, n, sc) ==
  /\ Len(edges) = N /\ DOMAIN edges = 1 .. N
  /\ \A c \in 1 .. N :
       /\ list[c][1] = 0 => edges[c] = list[c]
       /\ list[c][1] # 0 => edges[c] = <<list[c][1], sc[list[c][1]][list[c][2]]>>

\* The n-th weight in the file is for the edge of the n-th slot.
LEMMA EdgesInOrder ==
  ASSUME NEW n, NEW F, NEW sc, Module(n, F, sc), NEW first, NEW in, Sized(F, sc, first, in)
  PROVE  SameOrder(EdgeList(F, sc), SlotsInOrder(F, sc), first[Len(F) + 1], n, sc)
<1>1. PICK S, v, e, W : /\ Listed(S, n, F, sc, first, in, v, e, W)
                        /\ EdgeList(F, sc) = FlattenSeq(W)
                        /\ EdgeValues(n, F, sc, v, e)
  BY EdgesListed
<1>2. PICK S2, v2, e2, W2 : /\ Listed(S2, n, F, sc, first, in, v2, e2, W2)
                            /\ SlotsInOrder(F, sc) = FlattenSeq(W2)
                            /\ SlotValues(n, F, sc, v2, e2)
  BY SlotsListed
<1>3. PICK N, list, edges : N = first[Len(F) + 1] /\ list = SlotsInOrder(F, sc) /\ edges = EdgeList(F, sc)
  OBVIOUS
<1>4. edges \in Seq(S) /\ Len(edges) = N /\ Listing(edges, F, sc, first, in, v, e)
  BY <1>1, <1>3, ListAt
<1>5. Listing(list, F, sc, first, in, v2, e2)
  BY <1>2, <1>3, ListAt
<1>6. Covered(N, F, sc, first, in)
  BY <1>1, <1>3, PlacesCover
<1>7. DOMAIN edges = 1 .. N
  BY <1>4
<1>8. ASSUME NEW c \in 1 .. N
      PROVE  /\ list[c][1] = 0 => edges[c] = list[c]
             /\ list[c][1] # 0 => edges[c] = <<list[c][1], sc[list[c][1]][list[c][2]]>>
  <2>1. PICK f \in 1 .. Len(F) :
            \/ c = first[f] + 1
            \/ \E k \in 1 .. Len(F[f]) : \E t \in 1 .. Len(sc[F[f][k]]) :
                   c = ((first[f] + 1) + in[f][k]) + t
    BY <1>6, Zenon DEF Covered
  <2>2. CASE c = first[f] + 1
    <3>1. edges[c] = e[f] /\ list[c] = e2[f]
      BY <1>4, <1>5, <2>2 DEF Listing
    <3>2. e[f] = <<0, F[f][1]>> /\ e2[f] = <<0, F[f][1]>>
      BY <1>1, <1>2, Zenon DEF EdgeValues, SlotValues
    <3>3. edges[c] = list[c] /\ list[c][1] = 0
      BY <3>1, <3>2
    <3> QED
      BY <3>3
  <2>3. CASE \E k \in 1 .. Len(F[f]) : \E t \in 1 .. Len(sc[F[f][k]]) :
               c = ((first[f] + 1) + in[f][k]) + t
    <3>1. PICK k \in 1 .. Len(F[f]) : \E t \in 1 .. Len(sc[F[f][k]]) :
                 c = ((first[f] + 1) + in[f][k]) + t
      BY <2>3, Zenon
    <3>2. PICK t \in 1 .. Len(sc[F[f][k]]) : c = ((first[f] + 1) + in[f][k]) + t
      BY <3>1, Zenon
    <3>3. edges[c] = v[F[f][k]][t]
      <4>1. Listing(edges, F, sc, first, in, v, e)
        BY <1>4
      <4>2. \A x \in 1 .. Len(F[f]) : \A y \in 1 .. Len(sc[F[f][x]]) : \A z :
              z = ((first[f] + 1) + in[f][x]) + y => edges[z] = v[F[f][x]][y]
        BY <4>1 DEF Listing
      <4> QED
        BY <3>2, <4>2, Zenon
    <3>4. list[c] = v2[F[f][k]][t]
      <4>1. Listing(list, F, sc, first, in, v2, e2)
        BY <1>5
      <4>2. \A x \in 1 .. Len(F[f]) : \A y \in 1 .. Len(sc[F[f][x]]) : \A z :
              z = ((first[f] + 1) + in[f][x]) + y => list[z] = v2[F[f][x]][y]
        BY <4>1 DEF Listing
      <4> QED
        BY <3>2, <4>2, Zenon
    <3>5. F[f][k] \in 1 .. n /\ n \in Nat
      BY ModuleTypes
    <3>6. edges[c] = <<F[f][k], sc[F[f][k]][t]>>
      BY <1>1, <3>3, <3>5, Zenon DEF EdgeValues
    <3>7. list[c] = <<F[f][k], t>>
      BY <1>2, <3>4, <3>5, Zenon DEF SlotValues
    <3>8. list[c][1] = F[f][k] /\ list[c][2] = t /\ F[f][k] # 0
      BY <3>5, <3>7
    <3> QED
      BY <3>6, <3>8
  <2> QED
    BY <2>1, <2>2, <2>3
<1>9. SameOrder(edges, list, N, n, sc)
  BY <1>4, <1>7, <1>8 DEF SameOrder
<1> QED
  BY <1>3, <1>9

\* The counter of each slot
IsIndex(ix, list, N, S) ==
  /\ ix \in [S -> 1 .. N]
  /\ \A slot \in S : list[ix[slot]] = slot
  /\ \A c \in 1 .. N : list[c] \in S /\ ix[list[c]] = c

\* What is fixed: the module, its slots and their counters
Fixed(n, F, sc, N, list, ix, first, place) ==
  /\ Module(n, F, sc) /\ N \in Nat /\ Len(list) = N /\ DOMAIN list = 1 .. N
  /\ IsIndex(ix, list, N, SlotSet(n, F, sc))
  /\ Sizes(N, F, sc, first, place)
  /\ CallsAt(list, N, F, first) /\ EdgesAt(list, N, F, sc, place)
  /\ SameOrder(EdgeList(F, sc), list, N, n, sc)

\* The module that is profiled
Profiled(n, F, sc, N, list, ix, first, place) ==
  /\ Fixed(n, F, sc, N, list, ix, first, place)
  /\ prog \in Programs /\ prog.funcs = F /\ prog.succ = sc
  /\ Run!Blocks(prog) = 1 .. n /\ Cardinality(Run!Blocks(prog)) = n
  /\ Slots = SlotSet(n, F, sc) /\ Run!Entries(prog) = {F[f][1] : f \in 1 .. Len(F)}
  /\ SlotList = list /\ NumEdges = N

\* A list with each slot once gives each a counter.
LEMMA IndexExists ==
  ASSUME NEW list, NEW N, NEW S, Enumerates(list, N, S)
  PROVE  \E ix : IsIndex(ix, list, N, S)
<1> DEFINE ix == [slot \in S |-> CHOOSE c \in 1 .. N : list[c] = slot]
<1>1. ASSUME NEW slot \in S
      PROVE  ix[slot] \in 1 .. N /\ list[ix[slot]] = slot
  <2>1. ix[slot] = CHOOSE c \in 1 .. N : list[c] = slot
    OBVIOUS
  <2>2. \E c \in 1 .. N : list[c] = slot
    BY DEF Enumerates
  <2> HIDE DEF ix
  <2> QED
    BY <2>1, <2>2
<1>2. ix = [slot \in S |-> ix[slot]]
  OBVIOUS
<1> HIDE DEF ix
<1>3. ASSUME NEW c \in 1 .. N
      PROVE  list[c] \in S /\ ix[list[c]] = c
  <2>1. list[c] \in S
    BY DEF Enumerates
  <2>2. ix[list[c]] \in 1 .. N /\ list[ix[list[c]]] = list[c]
    BY <1>1, <2>1
  <2> QED
    BY <2>1, <2>2 DEF Enumerates
<1>4. ix \in [S -> 1 .. N]
  BY <1>1, <1>2
<1>5. IsIndex(ix, list, N, S)
  BY <1>1, <1>3, <1>4 DEF IsIndex
<1> QED
  BY <1>5

\* Every module has all of that.
LEMMA FixedExists ==
  ASSUME NEW n, NEW F, NEW sc, Module(n, F, sc)
  PROVE  \E N, list, ix, first, place :
           /\ Fixed(n, F, sc, N, list, ix, first, place)
           /\ list = SlotsInOrder(F, sc) /\ N = Len(EdgeList(F, sc))
<1>1. PICK first, in : Sized(F, sc, first, in)
  BY SizesExist
<1>2. PICK N, list, place :
           /\ N = first[Len(F) + 1] /\ list = SlotsInOrder(F, sc)
           /\ Enumerates(list, N, SlotSet(n, F, sc)) /\ Sizes(N, F, sc, first, place)
           /\ CallsAt(list, N, F, first) /\ EdgesAt(list, N, F, sc, place)
  BY <1>1, SlotsNumbered
<1>3. PICK ix : IsIndex(ix, list, N, SlotSet(n, F, sc))
  BY <1>2, IndexExists
<1>4. SameOrder(EdgeList(F, sc), list, N, n, sc)
  BY <1>1, <1>2, EdgesInOrder
<1>5. N = Len(EdgeList(F, sc)) /\ N \in Nat /\ Len(list) = N /\ DOMAIN list = 1 .. N
  BY <1>2, <1>4 DEF SameOrder, Enumerates
<1>6. Fixed(n, F, sc, N, list, ix, first, place)
  BY <1>2, <1>3, <1>4, <1>5 DEF Fixed
<1> QED
  BY <1>2, <1>5, <1>6

\* So does the module that is profiled.
LEMMA ProfiledExists ==
  ASSUME prog \in Programs
  PROVE  \E n, F, sc, N, list, ix, first, place : Profiled(n, F, sc, N, list, ix, first, place)
<1>1. PICK p : p = prog /\ p \in Programs
  OBVIOUS
<1>2. PICK n : n = Cardinality(Run!Blocks(p)) /\ Run!Blocks(p) = 1 .. n /\ Module(n, p.funcs, p.succ)
  BY <1>1, ProgramIsModule
<1>3. PICK F, sc : F = p.funcs /\ sc = p.succ
  OBVIOUS
<1>4. Module(n, F, sc)
  BY <1>2, <1>3
<1>5. PICK N, list, ix, first, place :
           /\ Fixed(n, F, sc, N, list, ix, first, place)
           /\ list = SlotsInOrder(F, sc) /\ N = Len(EdgeList(F, sc))
  BY <1>4, FixedExists
<1>6. /\ DOMAIN F = 1 .. Len(F) /\ DOMAIN sc = 1 .. n
      /\ \A f \in 1 .. Len(F) : DOMAIN F[f] = 1 .. Len(F[f])
      /\ \A b \in 1 .. n : DOMAIN sc[b] = 1 .. Len(sc[b])
  BY <1>4, ModuleTypes
<1>7. Run!Entries(p) = {F[f][1] : f \in 1 .. Len(F)}
  BY <1>3, <1>6 DEF Run!Entries
<1>8. Run!Slots(p) = SlotSet(n, F, sc)
  <2>1. UNION {{<<b, t>> : t \in DOMAIN sc[b]} : b \in 1 .. n} = UNION {{<<b, t>> : t \in 1 .. Len(sc[b])} : b \in 1 .. n}
    BY <1>6
  <2>2. {<<0, e>> : e \in Run!Entries(p)} = {<<0, F[f][1]>> : f \in 1 .. Len(F)}
    BY <1>7
  <2>3. Run!Slots(p) = {<<0, e>> : e \in Run!Entries(p)} \cup UNION {{<<b, t>> : t \in DOMAIN sc[b]} : b \in 1 .. n}
    <3>1. PICK B : B = Run!Blocks(p)
      OBVIOUS
    <3>2. Run!Slots(p) = {<<0, e>> : e \in Run!Entries(p)} \cup UNION {{<<b, t>> : t \in DOMAIN sc[b]} : b \in B}
      BY <1>3, <3>1 DEF Run!Slots
    <3>3. B = 1 .. n
      BY <1>2, <3>1
    <3> QED
      BY <3>2, <3>3
  <2> QED
    BY <2>1, <2>2, <2>3, Zenon DEF SlotSet
<1>9. SlotList = list /\ NumEdges = N
  <2>1. SlotList = SlotsInOrder(F, sc)
    BY <1>1, <1>3, Zenon DEF SlotList, SlotsInOrder
  <2>2. NumEdges = Len(EdgeList(F, sc))
    BY <1>1, <1>3, Zenon DEF NumEdges
  <2> QED
    BY <1>5, <2>1, <2>2
<1>10. /\ prog \in Programs /\ prog.funcs = F /\ prog.succ = sc
       /\ Run!Blocks(prog) = 1 .. n /\ Cardinality(Run!Blocks(prog)) = n
       /\ Slots = SlotSet(n, F, sc) /\ Run!Entries(prog) = {F[f][1] : f \in 1 .. Len(F)}
  BY <1>1, <1>2, <1>3, <1>7, <1>8 DEF Slots
<1>11. Profiled(n, F, sc, N, list, ix, first, place)
  BY <1>5, <1>9, <1>10 DEF Profiled
<1> QED
  BY <1>11

-----------------------------------------------------------------------------
(* The invariant *)

\* An old block has as many successors as it had, and each leads to where it
\* did, or to a new block that leads there; edges that the pass has not come to
\* are as they were. Each new block is on an edge of an old one.
Graph(n, sc, ix) ==
  /\ \E m \in Nat : n <= m /\ DOMAIN succ = 1 .. m
  /\ DOMAIN head = DOMAIN succ /\ DOMAIN foot = DOMAIN succ
  /\ \A b \in DOMAIN succ : head[b] \in Seq(Nat) /\ foot[b] \in Seq(Nat)
  /\ \A b \in DOMAIN succ : succ[b] \in Seq(DOMAIN succ)
  /\ \A b \in 1 .. n : \A t \in 1 .. Len(sc[b]) :
       /\ succ[b][t] \in 1 .. n => succ[b][t] = sc[b][t]
       /\ succ[b][t] \notin 1 .. n => succ[succ[b][t]] = <<sc[b][t]>>
       /\ ~(ix[<<b, t>>] < i) => succ[b][t] = sc[b][t]
  /\ \A b \in 1 .. n : Len(succ[b]) = Len(sc[b])
  /\ \A x \in DOMAIN succ \ (1 .. n) : \E b \in 1 .. n : \E t \in 1 .. Len(sc[b]) : succ[b][t] = x

\* Every block is in the list of some function.
Layouts(F) ==
  /\ DOMAIN layout = 1 .. Len(F)
  /\ \A f \in 1 .. Len(F) : layout[f] \in Seq(DOMAIN succ)
  /\ \A b \in DOMAIN succ : \E f \in 1 .. Len(F) : \E k \in 1 .. Len(layout[f]) : layout[f][k] = b

Walk(n, F, sc, N, first, place) ==
  /\ i \in 1 .. N + 1
  /\ pc \in {"begin", "function", "block", "run", "done", "skipped"}
  /\ pc \in {"begin", "skipped"} => fi = 1
  /\ pc \in {"begin", "function", "skipped"} =>
       /\ fi \in 1 .. Len(F) + 1 /\ i = first[fi] + 1
       /\ \A f \in fi .. Len(F) : layout[f] = F[f]
  /\ pc = "block" =>
       /\ fi \in 1 .. Len(F)
       /\ \A f \in fi + 1 .. Len(F) : layout[f] = F[f]
       /\ Here(layout[fi], n, F[fi], sc, place[fi], bi, s, i)
  /\ pc \in {"run", "done"} => i = N + 1

RunTypes(n, F, sc, N) ==
  /\ taken \in [SlotSet(n, F, sc) -> Nat] /\ counters \in [1 .. N -> 0 .. Uncounted]
  /\ at \in DOMAIN succ \cup {Idle} /\ (pc # "run" => at = Idle)
  /\ warned \in BOOLEAN

Shape(n, F, sc, N, ix, first, place) ==
  /\ Graph(n, sc, ix) /\ Layouts(F) /\ Walk(n, F, sc, N, first, place) /\ RunTypes(n, F, sc, N)

ShapeInv ==
  \E n, F, sc, N, list, ix, first, place :
    /\ Profiled(n, F, sc, N, list, ix, first, place)
    /\ Shape(n, F, sc, N, ix, first, place)

-----------------------------------------------------------------------------
(* The steps of the pass *)

\* The walk relies on what holds of each function of the module.
LEMMA FunctionOf ==
  ASSUME NEW n, NEW F, NEW sc, NEW N, NEW list, NEW ix, NEW first, NEW place,
         Fixed(n, F, sc, N, list, ix, first, place), NEW f \in 1 .. Len(F)
  PROVE  /\ Function(n, F[f], sc, place[f], Len(F[f]))
         /\ first[f] \in Nat /\ first[f + 1] \in Nat /\ place[f][1] = first[f] + 1
         /\ first[f + 1] = place[f][Len(F[f]) + 1]
         /\ F[f] \in Seq(1 .. n)
<1>1. Module(n, F, sc) /\ Sizes(N, F, sc, first, place)
  BY DEF Fixed
<1>2. n \in Nat /\ Len(F[f]) \in Nat \ {0} /\ F[f] \in Seq(1 .. n) /\ \A k \in 1 .. Len(F[f]) : F[f][k] \in 1 .. n
  BY <1>1, ModuleTypes
<1>3. \A k \in 1 .. Len(F[f]) : Len(sc[F[f][k]]) \in Nat
  BY <1>1, <1>2, ModuleTypes
<1>4. Function(n, F[f], sc, place[f], Len(F[f]))
  BY <1>1, <1>2, <1>3 DEF Sizes, Function
<1> QED
  BY <1>1, <1>2, <1>4 DEF Sizes

\* The shape that the module has before the pass
LEMMA InitShape ==
  ASSUME Init
  PROVE  ShapeInv
<1>0. prog \in Programs
  BY DEF Init
<1>1. PICK n, F, sc, N, list, ix, first, place : Profiled(n, F, sc, N, list, ix, first, place)
  BY <1>0, ProfiledExists
<1>2. Fixed(n, F, sc, N, list, ix, first, place) /\ Module(n, F, sc) /\ N \in Nat
  BY <1>1 DEF Profiled, Fixed
<1>3. /\ prog.funcs = F /\ prog.succ = sc /\ Run!Blocks(prog) = 1 .. n
      /\ Slots = SlotSet(n, F, sc) /\ NumEdges = N
  BY <1>1 DEF Profiled
<1>4. /\ layout = F /\ succ = sc /\ pc = "begin" /\ fi = 1 /\ i = 1
      /\ head = [b \in 1 .. n |-> <<>>] /\ foot = [b \in 1 .. n |-> <<>>]
      /\ counters = [c \in 1 .. N |-> 0] /\ taken = [slot \in SlotSet(n, F, sc) |-> 0]
      /\ at = Idle /\ warned = FALSE
  BY <1>3 DEF Init
<1>5. /\ n \in Nat /\ Len(F) \in Nat /\ DOMAIN F = 1 .. Len(F) /\ DOMAIN sc = 1 .. n
      /\ \A f \in 1 .. Len(F) : F[f] \in Seq(1 .. n)
      /\ \A b \in 1 .. n : sc[b] \in Seq(1 .. n) /\ \A t \in 1 .. Len(sc[b]) : sc[b][t] \in 1 .. n
  BY <1>2, ModuleTypes
<1>6. Graph(n, sc, ix)
  <2>1. \E m \in Nat : n <= m /\ DOMAIN succ = 1 .. m
    BY <1>4, <1>5
  <2>2. DOMAIN succ \ (1 .. n) = {} /\ DOMAIN succ = 1 .. n
    BY <1>4, <1>5
  <2>3. \A b \in DOMAIN succ : head[b] \in Seq(Nat) /\ foot[b] \in Seq(Nat)
    BY <1>4, <2>2
  <2>4. DOMAIN head = DOMAIN succ /\ DOMAIN foot = DOMAIN succ
    BY <1>4, <2>2
  <2>5. \A b \in DOMAIN succ : succ[b] \in Seq(DOMAIN succ)
    BY <1>4, <1>5, <2>2
  <2>6. \A b \in 1 .. n : \A t \in 1 .. Len(sc[b]) :
          /\ succ[b][t] \in 1 .. n => succ[b][t] = sc[b][t]
          /\ succ[b][t] \notin 1 .. n => succ[succ[b][t]] = <<sc[b][t]>>
          /\ ~(ix[<<b, t>>] < i) => succ[b][t] = sc[b][t]
    BY <1>4, <1>5
  <2>7. \A b \in 1 .. n : Len(succ[b]) = Len(sc[b])
    BY <1>4
  <2> QED
    BY <2>1, <2>2, <2>3, <2>4, <2>5, <2>6, <2>7 DEF Graph
<1>7. Layouts(F)
  <2>1. \A b \in 1 .. n : \E f \in 1 .. Len(F) : \E k \in 1 .. Len(F[f]) : F[f][k] = b
    BY <1>2 DEF Module
  <2> QED
    BY <1>4, <1>5, <2>1 DEF Layouts
<1>8. Walk(n, F, sc, N, first, place)
  <2>1. first[1] = 0
    BY <1>2 DEF Fixed, Sizes
  <2>2. i \in 1 .. N + 1 /\ fi \in 1 .. Len(F) + 1 /\ i = first[fi] + 1
    BY <1>2, <1>4, <1>5, <2>1
  <2>3. pc = "begin" /\ fi = 1 /\ \A f \in fi .. Len(F) : layout[f] = F[f]
    BY <1>4
  <2> QED
    BY <2>2, <2>3 DEF Walk
<1>9. RunTypes(n, F, sc, N)
  <2>1. 0 \in 0 .. Uncounted /\ 0 \in Nat
    BY BoundsAssumption
  <2>2. taken \in [SlotSet(n, F, sc) -> Nat] /\ counters \in [1 .. N -> 0 .. Uncounted]
    BY <1>4, <2>1
  <2> QED
    BY <1>4, <2>2 DEF RunTypes
<1>10. Shape(n, F, sc, N, ix, first, place)
  BY <1>6, <1>7, <1>8, <1>9 DEF Shape
<1> QED
  BY <1>1, <1>10 DEF ShapeInv

\* Nothing that is fixed changes.
LEMMA ProfiledStays ==
  ASSUME NEW n, NEW F, NEW sc, NEW N, NEW list, NEW ix, NEW first, NEW place,
         Profiled(n, F, sc, N, list, ix, first, place), prog' = prog
  PROVE  Profiled(n, F, sc, N, list, ix, first, place)'
BY DEF Profiled, Slots, SlotList, NumEdges

\* The slots and their counters
LEMMA SlotTypes ==
  ASSUME NEW n, NEW F, NEW sc, NEW N, NEW list, NEW ix, NEW first, NEW place,
         Fixed(n, F, sc, N, list, ix, first, place)
  PROVE  /\ \A b \in 1 .. n : \A t \in 1 .. Len(sc[b]) :
              <<b, t>> \in SlotSet(n, F, sc) /\ ix[<<b, t>>] \in 1 .. N
         /\ \A f \in 1 .. Len(F) :
              <<0, F[f][1]>> \in SlotSet(n, F, sc) /\ ix[<<0, F[f][1]>>] \in 1 .. N
<1>1. IsIndex(ix, list, N, SlotSet(n, F, sc))
  BY DEF Fixed
<1>2. PICK S : S = SlotSet(n, F, sc)
  OBVIOUS
<1>3. \A slot \in S : ix[slot] \in 1 .. N
  BY <1>1, <1>2 DEF IsIndex
<1>4. \A b \in 1 .. n : \A t \in 1 .. Len(sc[b]) : <<b, t>> \in S
  BY <1>2 DEF SlotSet
<1>5. \A f \in 1 .. Len(F) : <<0, F[f][1]>> \in S
  BY <1>2 DEF SlotSet
<1> QED
  BY <1>2, <1>3, <1>4, <1>5

\* The counter of a call is the first of its function.
LEMMA CallIndex ==
  ASSUME NEW n, NEW F, NEW sc, NEW N, NEW list, NEW ix, NEW first, NEW place,
         Fixed(n, F, sc, N, list, ix, first, place)
  PROVE  \A f \in 1 .. Len(F) : \A c : c = first[f] + 1 => c \in 1 .. N /\ ix[<<0, F[f][1]>>] = c
<1> SUFFICES ASSUME NEW f \in 1 .. Len(F), NEW c, c = first[f] + 1
             PROVE  c \in 1 .. N /\ ix[<<0, F[f][1]>>] = c
  OBVIOUS
<1>1. IsIndex(ix, list, N, SlotSet(n, F, sc)) /\ CallsAt(list, N, F, first)
  BY DEF Fixed
<1>2. c \in 1 .. N /\ list[c] = <<0, F[f][1]>>
  BY <1>1, Zenon DEF CallsAt
<1> QED
  BY <1>1, <1>2, Zenon DEF IsIndex

\* Where the conjuncts of the invariant stay as they are
LEMMA GraphStays ==
  ASSUME NEW n, NEW sc, NEW ix, Graph(n, sc, ix), UNCHANGED <<succ, head, foot, i>>
  PROVE  Graph(n, sc, ix)'
BY DEF Graph

\* The lists stay when no block is made.
LEMMA LayoutsStay ==
  ASSUME NEW F, Layouts(F), UNCHANGED <<succ, layout>>
  PROVE  Layouts(F)'
BY DEF Layouts

\* What the program and the loader have stays during the pass.
LEMMA RunTypesStay ==
  ASSUME NEW n, NEW F, NEW sc, NEW N, RunTypes(n, F, sc, N), DOMAIN succ \subseteq DOMAIN succ',
         UNCHANGED <<counters, at, taken, warned>>, at = Idle \/ UNCHANGED pc
  PROVE  RunTypes(n, F, sc, N)'
BY DEF RunTypes

\* New counters in the blocks
LEMMA GraphCounted ==
  ASSUME NEW n, NEW F, NEW sc, NEW N, NEW list, NEW ix, NEW first, NEW place,
         Fixed(n, F, sc, N, list, ix, first, place), Graph(n, sc, ix), i \in 1 .. N,
         succ' = succ, i' = i + 1, DOMAIN head' = DOMAIN succ, DOMAIN foot' = DOMAIN succ,
         \A b \in DOMAIN succ : head'[b] \in Seq(Nat) /\ foot'[b] \in Seq(Nat)
  PROVE  Graph(n, sc, ix)'
<1>1. N \in Nat
  BY DEF Fixed
<1>2. ASSUME NEW b \in 1 .. n, NEW t \in 1 .. Len(sc[b]), ~(ix[<<b, t>>] < i')
      PROVE  ~(ix[<<b, t>>] < i)
  <2>1. ix[<<b, t>>] \in 1 .. N
    BY SlotTypes
  <2> QED
    BY <1>1, <1>2, <2>1
<1>3. \A b \in 1 .. n : \A t \in 1 .. Len(sc[b]) :
        /\ succ[b][t] \in 1 .. n => succ[b][t] = sc[b][t]
        /\ succ[b][t] \notin 1 .. n => succ[succ[b][t]] = <<sc[b][t]>>
        /\ ~(ix[<<b, t>>] < i') => succ[b][t] = sc[b][t]
  BY <1>2 DEF Graph
<1> QED
  BY <1>3 DEF Graph

\* The function that the pass comes to
LEMMA EntryShape ==
  ASSUME NEW n, NEW F, NEW sc, NEW N, NEW list, NEW ix, NEW first, NEW place,
         Profiled(n, F, sc, N, list, ix, first, place), Shape(n, F, sc, N, ix, first, place),
         InstrumentEntry
  PROVE  Shape(n, F, sc, N, ix, first, place)'
<1>1. /\ Fixed(n, F, sc, N, list, ix, first, place) /\ Module(n, F, sc) /\ N \in Nat
      /\ Graph(n, sc, ix) /\ Layouts(F) /\ Walk(n, F, sc, N, first, place) /\ RunTypes(n, F, sc, N)
  BY DEF Profiled, Fixed, Shape
<1>2. /\ pc = "function" /\ fi <= Len(layout)
      /\ head' = [head EXCEPT ![layout[fi][1]] = Append(@, i)]
      /\ i' = i + 1 /\ bi' = 1 /\ s' = 1 /\ pc' = "block"
      /\ layout' = layout /\ succ' = succ /\ foot' = foot /\ fi' = fi
      /\ counters' = counters /\ at' = at /\ taken' = taken /\ warned' = warned
  BY DEF InstrumentEntry, runVars, loadVars
<1>3. Len(F) \in Nat /\ DOMAIN layout = 1 .. Len(F)
  BY <1>1, ModuleTypes DEF Layouts
<1>4. /\ fi \in 1 .. Len(F) + 1 /\ i = first[fi] + 1 /\ \A f \in fi .. Len(F) : layout[f] = F[f]
  BY <1>1, <1>2 DEF Walk
<1>5. Len(layout) = Len(F)
  BY <1>1, <1>3
<1>6. fi \in 1 .. Len(F) /\ fi \in fi .. Len(F)
  BY <1>2, <1>3, <1>4, <1>5
<1>7. PICK f : f = fi
  OBVIOUS
<1>8. f \in 1 .. Len(F) /\ layout[f] = F[f] /\ i = first[f] + 1
  BY <1>4, <1>6, <1>7
<1>9. /\ Function(n, F[f], sc, place[f], Len(F[f]))
      /\ first[f] \in Nat /\ place[f][1] = first[f] + 1 /\ F[f] \in Seq(1 .. n)
  BY <1>1, <1>8, FunctionOf
<1>10. i \in 1 .. N
  <2>1. CallsAt(list, N, F, first)
    BY <1>1 DEF Fixed
  <2> QED
    BY <1>8, <2>1, Zenon DEF CallsAt
<1>11. PICK e : e = F[f][1] /\ e \in 1 .. n
  BY <1>9 DEF Function
<1>12. e \in DOMAIN head /\ DOMAIN head = DOMAIN succ /\ DOMAIN foot = DOMAIN succ
  <2>1. n \in Nat
    BY <1>1, ModuleTypes
  <2> QED
    BY <1>1, <1>11, <2>1 DEF Graph
<1>13. Graph(n, sc, ix)'
  <2>1. head' = [head EXCEPT ![e] = Append(@, i)]
    BY <1>2, <1>7, <1>8, <1>11
  <2>2. DOMAIN head' = DOMAIN succ /\ DOMAIN foot' = DOMAIN succ
    BY <1>2, <1>12, <2>1
  <2>3. ASSUME NEW b \in DOMAIN succ
        PROVE  head'[b] \in Seq(Nat) /\ foot'[b] \in Seq(Nat)
    <3>1. head[b] \in Seq(Nat) /\ foot[b] \in Seq(Nat)
      BY <1>1 DEF Graph
    <3>2. head'[b] = head[b] \/ head'[b] = Append(head[b], i)
      BY <1>12, <2>1
    <3> QED
      BY <1>2, <1>10, <3>1, <3>2
  <2> QED
    BY <1>1, <1>2, <1>10, <2>2, <2>3, GraphCounted
<1>14. Layouts(F)'
  BY <1>1, <1>2, LayoutsStay
<1>15. Walk(n, F, sc, N, first, place)'
  <2>1. i' \in 1 .. N + 1
    BY <1>1, <1>2, <1>10
  <2>2. \A g \in f + 1 .. Len(F) : layout'[g] = F[g]
    <3>1. \A g \in f + 1 .. Len(F) : g \in f .. Len(F)
      BY <1>3, <1>8
    <3> QED
      BY <1>2, <1>4, <1>7, <3>1
  <2>3. i' = place[f][1] + 1
    BY <1>2, <1>8, <1>9
  <2>4. Here(F[f], n, F[f], sc, place[f], 1, 1, i')
    BY <1>9, <2>3, HereStart
  <2>5. fi' = f /\ layout'[f] = F[f]
    BY <1>2, <1>7, <1>8
  <2>6. Here(layout'[fi'], n, F[fi'], sc, place[fi'], bi', s', i')
    BY <1>2, <2>4, <2>5
  <2> QED
    BY <1>2, <1>8, <2>1, <2>2, <2>5, <2>6 DEF Walk
<1>16. RunTypes(n, F, sc, N)'
  <2>1. at = Idle
    BY <1>1, <1>2 DEF RunTypes
  <2> QED
    BY <1>1, <1>2, <2>1, RunTypesStay
<1> QED
  BY <1>13, <1>14, <1>15, <1>16 DEF Shape

\* The pass starts, or does not for want of main.
LEMMA BeginShape ==
  ASSUME NEW n, NEW F, NEW sc, NEW N, NEW list, NEW ix, NEW first, NEW place,
         Profiled(n, F, sc, N, list, ix, first, place), Shape(n, F, sc, N, ix, first, place),
         Begin
  PROVE  Shape(n, F, sc, N, ix, first, place)'
<1>1. Graph(n, sc, ix) /\ Layouts(F) /\ Walk(n, F, sc, N, first, place) /\ RunTypes(n, F, sc, N)
  BY DEF Shape
<1>2. /\ pc = "begin" /\ pc' \in {"function", "skipped"}
      /\ layout' = layout /\ succ' = succ /\ head' = head /\ foot' = foot /\ fi' = fi /\ i' = i
      /\ counters' = counters /\ at' = at /\ taken' = taken /\ warned' = warned
  BY DEF Begin, passVars, runVars, loadVars
<1>3. at = Idle
  BY <1>1, <1>2 DEF RunTypes
<1>4. Graph(n, sc, ix)' /\ Layouts(F)' /\ RunTypes(n, F, sc, N)'
  BY <1>1, <1>2, <1>3, GraphStays, LayoutsStay, RunTypesStay
<1>5. Walk(n, F, sc, N, first, place)'
  BY <1>1, <1>2 DEF Walk
<1> QED
  BY <1>4, <1>5 DEF Shape

\* Behind the last function every counter is used.
LEMMA FinishShape ==
  ASSUME NEW n, NEW F, NEW sc, NEW N, NEW list, NEW ix, NEW first, NEW place,
         Profiled(n, F, sc, N, list, ix, first, place), Shape(n, F, sc, N, ix, first, place),
         FinishInstrumentation
  PROVE  Shape(n, F, sc, N, ix, first, place)'
<1>1. /\ Fixed(n, F, sc, N, list, ix, first, place) /\ Module(n, F, sc) /\ N \in Nat
      /\ Graph(n, sc, ix) /\ Layouts(F) /\ Walk(n, F, sc, N, first, place) /\ RunTypes(n, F, sc, N)
  BY DEF Profiled, Fixed, Shape
<1>2. /\ pc = "function" /\ fi > Len(layout) /\ pc' = "run"
      /\ layout' = layout /\ succ' = succ /\ head' = head /\ foot' = foot /\ fi' = fi /\ i' = i
      /\ counters' = counters /\ at' = at /\ taken' = taken /\ warned' = warned
  BY DEF FinishInstrumentation, passVars, runVars, loadVars
<1>3. at = Idle
  BY <1>1, <1>2 DEF RunTypes
<1>4. Graph(n, sc, ix)' /\ Layouts(F)' /\ RunTypes(n, F, sc, N)'
  BY <1>1, <1>2, <1>3, GraphStays, LayoutsStay, RunTypesStay
<1>5. Len(F) \in Nat /\ DOMAIN layout = 1 .. Len(F)
  BY <1>1, ModuleTypes DEF Layouts
<1>6. Len(layout) = Len(F)
  BY <1>5
<1>7. fi \in 1 .. Len(F) + 1 /\ i = first[fi] + 1
  BY <1>1, <1>2 DEF Walk
<1>8. fi = Len(F) + 1
  BY <1>2, <1>5, <1>6, <1>7
<1>9. first[Len(F) + 1] = N
  BY <1>1 DEF Fixed, Sizes
<1>10. i' = N + 1
  BY <1>2, <1>7, <1>8, <1>9
<1>11. Walk(n, F, sc, N, first, place)'
  BY <1>1, <1>2, <1>10 DEF Walk
<1> QED
  BY <1>4, <1>11 DEF Shape

\* What holds at any place of the list of a function
LEMMA BlockFacts ==
  ASSUME NEW n, NEW F, NEW sc, NEW N, NEW list, NEW ix, NEW first, NEW place,
         Profiled(n, F, sc, N, list, ix, first, place), Shape(n, F, sc, N, ix, first, place),
         pc = "block"
  PROVE  /\ fi \in 1 .. Len(F) /\ Len(layout[fi]) \in Nat /\ layout[fi] \in Seq(DOMAIN succ)
         /\ \A f : f = fi =>
              /\ Function(n, F[f], sc, place[f], Len(F[f]))
              /\ Here(layout[f], n, F[f], sc, place[f], bi, s, i)
         /\ at = Idle /\ i \in 1 .. N + 1 /\ BlocksToInstrument = 1 .. n
<1>1. /\ Fixed(n, F, sc, N, list, ix, first, place)
      /\ Graph(n, sc, ix) /\ Layouts(F) /\ Walk(n, F, sc, N, first, place) /\ RunTypes(n, F, sc, N)
      /\ BlocksToInstrument = 1 .. n
  BY DEF Profiled, Shape, BlocksToInstrument
<1>2. fi \in 1 .. Len(F) /\ Here(layout[fi], n, F[fi], sc, place[fi], bi, s, i) /\ i \in 1 .. N + 1
  BY <1>1 DEF Walk
<1>3. layout[fi] \in Seq(DOMAIN succ)
  BY <1>1, <1>2 DEF Layouts
<1>4. Len(layout[fi]) \in Nat
  BY <1>3
<1>5. Function(n, F[fi], sc, place[fi], Len(F[fi]))
  BY <1>1, <1>2, FunctionOf
<1>6. at = Idle
  BY <1>1 DEF RunTypes
<1> QED
  BY <1>1, <1>2, <1>3, <1>4, <1>5, <1>6

\* The next block of the function
LEMMA NextBlockShape ==
  ASSUME NEW n, NEW F, NEW sc, NEW N, NEW list, NEW ix, NEW first, NEW place,
         Profiled(n, F, sc, N, list, ix, first, place), Shape(n, F, sc, N, ix, first, place),
         NextBlock
  PROVE  Shape(n, F, sc, N, ix, first, place)'
<1>1. /\ Fixed(n, F, sc, N, list, ix, first, place)
      /\ Graph(n, sc, ix) /\ Layouts(F) /\ Walk(n, F, sc, N, first, place) /\ RunTypes(n, F, sc, N)
  BY DEF Profiled, Shape
<1>2. /\ pc = "block" /\ bi <= Len(layout[fi]) /\ bi' = bi + 1 /\ s' = 1
      /\ block \in BlocksToInstrument => s > Len(succ[block])
      /\ pc' = pc /\ layout' = layout /\ succ' = succ /\ head' = head /\ foot' = foot /\ fi' = fi /\ i' = i
      /\ counters' = counters /\ at' = at /\ taken' = taken /\ warned' = warned
  BY DEF NextBlock, NextPlace, runVars, loadVars
<1>3. PICK f, l : f = fi /\ l = layout[fi]
  OBVIOUS
<1>4. /\ f \in 1 .. Len(F) /\ Function(n, F[f], sc, place[f], Len(F[f]))
      /\ Here(l, n, F[f], sc, place[f], bi, s, i) /\ BlocksToInstrument = 1 .. n
  BY <1>2, <1>3, BlockFacts
<1>5. l[bi] \in 1 .. n => s > Len(sc[l[bi]])
  <2>1. block = l[bi]
    BY <1>3 DEF block
  <2>2. l[bi] \in 1 .. n => Len(succ[l[bi]]) = Len(sc[l[bi]])
    BY <1>1 DEF Graph
  <2> QED
    BY <1>2, <1>4, <2>1, <2>2
<1>6. Here(l, n, F[f], sc, place[f], bi + 1, 1, i)
  <2>1. bi <= Len(l)
    BY <1>2, <1>3
  <2> QED
    BY <1>4, <1>5, <2>1, HereNext
<1>7. Here(layout'[fi'], n, F[fi'], sc, place[fi'], bi', s', i')
  BY <1>2, <1>3, <1>6
<1>8. Graph(n, sc, ix)' /\ Layouts(F)' /\ RunTypes(n, F, sc, N)'
  BY <1>1, <1>2, GraphStays, LayoutsStay, RunTypesStay
<1>9. Walk(n, F, sc, N, first, place)'
  BY <1>1, <1>2, <1>7 DEF Walk
<1> QED
  BY <1>8, <1>9 DEF Shape

\* The next function
LEMMA NextFunctionShape ==
  ASSUME NEW n, NEW F, NEW sc, NEW N, NEW list, NEW ix, NEW first, NEW place,
         Profiled(n, F, sc, N, list, ix, first, place), Shape(n, F, sc, N, ix, first, place),
         NextFunction
  PROVE  Shape(n, F, sc, N, ix, first, place)'
<1>1. /\ Fixed(n, F, sc, N, list, ix, first, place) /\ Module(n, F, sc)
      /\ Graph(n, sc, ix) /\ Layouts(F) /\ Walk(n, F, sc, N, first, place) /\ RunTypes(n, F, sc, N)
  BY DEF Profiled, Fixed, Shape
<1>2. /\ pc = "block" /\ bi > Len(layout[fi]) /\ fi' = fi + 1 /\ pc' = "function"
      /\ layout' = layout /\ succ' = succ /\ head' = head /\ foot' = foot /\ i' = i
      /\ counters' = counters /\ at' = at /\ taken' = taken /\ warned' = warned
  BY DEF NextFunction, runVars, loadVars
<1>3. PICK f, l : f = fi /\ l = layout[fi]
  OBVIOUS
<1>4. /\ f \in 1 .. Len(F) /\ Function(n, F[f], sc, place[f], Len(F[f]))
      /\ Here(l, n, F[f], sc, place[f], bi, s, i) /\ at = Idle /\ Len(l) \in Nat
  BY <1>2, <1>3, BlockFacts
<1>5. i = place[f][Len(F[f]) + 1] + 1
  <2>1. bi > Len(l)
    BY <1>2, <1>3
  <2> QED
    BY <1>4, <2>1, HereEnd
<1>6. i = first[f + 1] + 1
  BY <1>1, <1>4, <1>5, FunctionOf
<1>7. Len(F) \in Nat
  BY <1>1, ModuleTypes
<1>8. fi' \in 1 .. Len(F) + 1 /\ i' = first[fi'] + 1
  BY <1>2, <1>3, <1>4, <1>6, <1>7
<1>9. \A g \in fi' .. Len(F) : layout'[g] = F[g]
  <2>1. \A g \in fi + 1 .. Len(F) : layout[g] = F[g]
    BY <1>1, <1>2 DEF Walk
  <2> QED
    BY <1>2, <2>1
<1>10. Graph(n, sc, ix)' /\ Layouts(F)' /\ RunTypes(n, F, sc, N)'
  BY <1>1, <1>2, <1>4, GraphStays, LayoutsStay, RunTypesStay
<1>11. Walk(n, F, sc, N, first, place)'
  <2>1. i' \in 1 .. N + 1
    BY <1>1, <1>2 DEF Walk
  <2> QED
    BY <1>2, <1>8, <1>9, <2>1 DEF Walk
<1> QED
  BY <1>10, <1>11 DEF Shape

-----------------------------------------------------------------------------
(* A new block in an edge *)

\* new is old, with m blocks, with block m + 1 put into successor t of b.
IsSplit(new, old, m, b, t) ==
  /\ DOMAIN new = 1 .. m + 1
  /\ new[m + 1] = <<old[b][t]>>
  /\ \A c \in 1 .. m : c # b => new[c] = old[c]
  /\ new[b][t] = m + 1 /\ Len(new[b]) = Len(old[b])
  /\ \A u \in 1 .. Len(old[b]) : u # t => new[b][u] = old[b][u]
  /\ \A c \in 1 .. m + 1 : new[c] \in Seq(1 .. m + 1)

\* Split does that.
LEMMA SplitFacts ==
  ASSUME NEW m \in Nat, DOMAIN succ = 1 .. m, \A c \in 1 .. m : succ[c] \in Seq(1 .. m),
         NEW b \in 1 .. m, NEW t \in 1 .. Len(succ[b])
  PROVE  NewBlock = m + 1 /\ IsSplit(Split(b, t), succ, m, b, t)
<1>1. NewBlock = m + 1
  <2>1. Cardinality(1 .. m) = m
    BY FS_Interval
  <2> QED
    BY <2>1 DEF NewBlock
<1>2. PICK B, a, l, x : B = 1 .. m + 1 /\ a = succ[b] /\ l = Len(a) /\ x = m + 1
  OBVIOUS
<1>3. /\ a \in Seq(1 .. m) /\ l \in Nat /\ DOMAIN a = 1 .. l /\ t \in 1 .. l
      /\ x \in B /\ a[t] \in B /\ \A c \in 1 .. m : c \in B /\ c # x
  <2>1. a \in Seq(1 .. m)
    BY <1>2
  <2>2. l \in Nat /\ DOMAIN a = 1 .. l /\ t \in 1 .. l
    BY <1>2, <2>1
  <2>3. x \in B /\ \A c \in 1 .. m : c \in B /\ c # x
    BY <1>2
  <2>4. a[t] \in 1 .. m
    BY <1>2, <2>1, <2>2, ElementOfSeq
  <2> QED
    BY <2>1, <2>2, <2>3, <2>4
<1>4. DOMAIN succ \cup {x} = B
  <2>1. \A y \in B : y \in 1 .. m \/ y = x
    BY <1>2
  <2>2. \A y \in 1 .. m : y \in B
    BY <1>3
  <2> QED
    BY <1>3, <2>1, <2>2
<1>5. PICK new : new = Split(b, t)
  OBVIOUS
<1>6. new = [c \in B |-> IF c = x THEN <<a[t]>> ELSE IF c = b THEN [a EXCEPT ![t] = x] ELSE succ[c]]
  BY <1>1, <1>2, <1>4, <1>5 DEF Split
<1>7. DOMAIN new = B /\ new[x] = <<a[t]>> /\ \A c \in 1 .. m : c # b => new[c] = succ[c]
  BY <1>3, <1>6
<1>8. PICK r : r = [a EXCEPT ![t] = x]
  OBVIOUS
<1>9. new[b] = r
  BY <1>3, <1>6, <1>8
<1>10. a \in Seq(B)
  <2>1. 1 .. m \subseteq B
    BY <1>3
  <2> QED
    BY <1>3, <2>1, WiderSeq
<1>11. /\ r \in Seq(B) /\ Len(r) = l /\ r[t] = x
       /\ \A u \in 1 .. l : u # t => r[u] = a[u]
  BY <1>2, <1>3, <1>8, <1>10
<1>12. ASSUME NEW c \in B
       PROVE  new[c] \in Seq(B)
  <2>1. CASE c = x
    <3>1. PICK d : d = a[t] /\ d \in B
      BY <1>3
    <3>2. <<d>> \in Seq(B)
      BY <3>1
    <3> QED
      BY <1>7, <2>1, <3>1, <3>2
  <2>2. CASE c = b
    BY <1>9, <1>11, <2>2
  <2>3. CASE c # x /\ c # b
    <3>1. c \in 1 .. m
      BY <1>2, <2>3
    <3>2. PICK d : d = succ[c] /\ d \in Seq(1 .. m)
      BY <3>1
    <3>3. 1 .. m \subseteq B
      BY <1>3
    <3>4. d \in Seq(B)
      BY <3>2, <3>3, WiderSeq
    <3> QED
      BY <1>7, <2>3, <3>1, <3>2, <3>4
  <2> QED
    BY <2>1, <2>2, <2>3
<1>13. IsSplit(new, succ, m, b, t)
  BY <1>2, <1>7, <1>9, <1>11, <1>12 DEF IsSplit
<1> QED
  BY <1>1, <1>5, <1>13

\* A split keeps what the invariant says of the blocks.
LEMMA GraphSplit ==
  ASSUME NEW n, NEW F, NEW sc, NEW N, NEW list, NEW ix, NEW first, NEW place,
         Fixed(n, F, sc, N, list, ix, first, place), Graph(n, sc, ix), i \in 1 .. N,
         NEW b \in 1 .. n, NEW t \in 1 .. Len(sc[b]), ix[<<b, t>>] = i,
         NEW m \in Nat, DOMAIN succ = 1 .. m, IsSplit(succ', succ, m, b, t), i' = i + 1,
         DOMAIN head' = 1 .. m + 1, DOMAIN foot' = 1 .. m + 1,
         \A c \in 1 .. m + 1 : head'[c] \in Seq(Nat) /\ foot'[c] \in Seq(Nat)
  PROVE  Graph(n, sc, ix)'
<1>1. N \in Nat /\ n \in Nat /\ Module(n, F, sc)
  BY ModuleTypes DEF Fixed
<1>2. n <= m
  BY <1>1 DEF Graph
<1>3. /\ DOMAIN succ' = 1 .. m + 1
      /\ succ'[m + 1] = <<succ[b][t]>>
      /\ \A c \in 1 .. m : c # b => succ'[c] = succ[c]
      /\ succ'[b][t] = m + 1 /\ Len(succ'[b]) = Len(succ[b])
      /\ \A u \in 1 .. Len(succ[b]) : u # t => succ'[b][u] = succ[b][u]
      /\ \A c \in 1 .. m + 1 : succ'[c] \in Seq(1 .. m + 1)
  BY DEF IsSplit
<1>4. succ[b][t] = sc[b][t] /\ \A c \in 1 .. n : Len(succ[c]) = Len(sc[c])
  <2>1. ~(ix[<<b, t>>] < i)
    BY <1>1
  <2> QED
    BY <2>1 DEF Graph
<1>5. ASSUME NEW c \in 1 .. n, NEW u \in 1 .. Len(sc[c])
      PROVE  \/ c = b /\ u = t
             \/ succ'[c][u] = succ[c][u] /\ (c # b \/ u # t)
  <2>1. c \in 1 .. m
    BY <1>1, <1>2
  <2>2. u \in 1 .. Len(succ[c])
    BY <1>4
  <2> QED
    BY <1>3, <2>1, <2>2
<1>6. ASSUME NEW c \in 1 .. n, NEW u \in 1 .. Len(sc[c])
      PROVE  /\ succ'[c][u] \in 1 .. n => succ'[c][u] = sc[c][u]
             /\ succ'[c][u] \notin 1 .. n => succ'[succ'[c][u]] = <<sc[c][u]>>
             /\ ~(ix[<<c, u>>] < i') => succ'[c][u] = sc[c][u]
  <2>1. CASE c = b /\ u = t
    <3>1. succ'[c][u] = m + 1 /\ m + 1 \notin 1 .. n
      BY <1>1, <1>2, <1>3, <2>1
    <3>2. succ'[m + 1] = <<sc[c][u]>>
      BY <1>3, <1>4, <2>1
    <3>3. ix[<<c, u>>] < i'
      BY <1>1, <2>1
    <3> QED
      BY <3>1, <3>2, <3>3
  <2>2. CASE succ'[c][u] = succ[c][u] /\ (c # b \/ u # t)
    <3>1. /\ succ[c][u] \in 1 .. n => succ[c][u] = sc[c][u]
          /\ succ[c][u] \notin 1 .. n => succ[succ[c][u]] = <<sc[c][u]>>
          /\ ~(ix[<<c, u>>] < i) => succ[c][u] = sc[c][u]
      BY DEF Graph
    <3>2. ~(ix[<<c, u>>] < i') => ~(ix[<<c, u>>] < i)
      <4>1. ix[<<c, u>>] \in 1 .. N
        BY SlotTypes
      <4> QED
        BY <1>1, <4>1
    <3>3. PICK d : d = succ[c][u]
      OBVIOUS
    <3>4. d \notin 1 .. n => succ'[d] = succ[d]
      <4>1. d \in 1 .. m
        <5>1. c \in 1 .. m
          BY <1>1, <1>2
        <5>3. u \in 1 .. Len(succ[c])
          BY <1>4
        <5>2. succ[c] \in Seq(1 .. m)
          BY <5>1 DEF Graph
        <5> QED
          BY <3>3, <5>2, <5>3, ElementOfSeq
      <4> QED
        BY <1>3, <4>1
    <3> QED
      BY <2>2, <3>1, <3>2, <3>3, <3>4
  <2> QED
    BY <1>5, <2>1, <2>2
<1>7. \A c \in 1 .. n : Len(succ'[c]) = Len(sc[c])
  <2>1. \A c \in 1 .. n : c \in 1 .. m
    BY <1>1, <1>2
  <2> QED
    BY <1>3, <1>4, <2>1
<1>8. ASSUME NEW x \in (1 .. m + 1) \ (1 .. n)
      PROVE  \E c \in 1 .. n : \E u \in 1 .. Len(sc[c]) : succ'[c][u] = x
  <2>1. CASE x = m + 1
    BY <1>3, <2>1
  <2>2. CASE x # m + 1
    <3>1. x \in DOMAIN succ \ (1 .. n)
      BY <2>2
    <3>2. PICK c \in 1 .. n : \E u \in 1 .. Len(sc[c]) : succ[c][u] = x
      BY <3>1 DEF Graph
    <3>3. PICK u \in 1 .. Len(sc[c]) : succ[c][u] = x
      BY <3>2
    <3>4. c # b \/ u # t
      <4>1. sc[b][t] \in 1 .. n
        BY <1>1, ModuleTypes
      <4> QED
        BY <1>4, <3>1, <3>3, <4>1
    <3> QED
      BY <1>5, <3>3, <3>4
  <2> QED
    BY <2>1, <2>2
<1>9. n <= m + 1 /\ m + 1 \in Nat
  BY <1>1, <1>2
<1> QED
  BY <1>3, <1>6, <1>7, <1>8, <1>9 DEF Graph

\* The list of a function with a new block in it
LEMMA LayoutsSplit ==
  ASSUME NEW F, Layouts(F), NEW m \in Nat, DOMAIN succ = 1 .. m, DOMAIN succ' = 1 .. m + 1,
         NEW f \in 1 .. Len(F), NEW p \in 1 .. Len(layout[f]) + 1,
         layout' = [layout EXCEPT ![f] = InsertAt(@, p, m + 1)]
  PROVE  Layouts(F)'
<1>1. PICK B, l, L, x, r : /\ B = 1 .. m + 1 /\ l = layout[f] /\ L = Len(l) /\ x = m + 1
                           /\ r = InsertAt(l, p, x)
  OBVIOUS
<1>2. \A g \in 1 .. Len(F) : layout[g] \in Seq(B)
  <2>1. ASSUME NEW g \in 1 .. Len(F) PROVE layout[g] \in Seq(B)
    <3>1. PICK d : d = layout[g] /\ d \in Seq(1 .. m)
      BY DEF Layouts
    <3>2. 1 .. m \subseteq B
      BY <1>1
    <3> QED
      BY <3>1, <3>2, WiderSeq
  <2> QED
    BY <2>1
<1>3. l \in Seq(B) /\ x \in B /\ L \in Nat /\ Len(l) = L /\ p \in 1 .. L + 1
  BY <1>1, <1>2
<1>4. r \in Seq(B) /\ Inserted(r, l, L, p, x)
  BY <1>1, <1>3, InsertAtFacts
<1>5. /\ Len(r) = L + 1
      /\ \A j \in 1 .. p - 1 : r[j] = l[j]
      /\ r[p] = x
      /\ \A j \in p .. L : r[j + 1] = l[j]
  BY <1>4 DEF Inserted
<1>6. DOMAIN layout = 1 .. Len(F)
  BY DEF Layouts
<1>7. layout' = [layout EXCEPT ![f] = r]
  BY <1>1
<1>8. layout'[f] = r /\ \A g \in 1 .. Len(F) : g # f => layout'[g] = layout[g]
  BY <1>6, <1>7
<1>9. DOMAIN layout' = 1 .. Len(F)
  BY <1>6, <1>7
<1>10. \A g \in 1 .. Len(F) : layout'[g] \in Seq(B)
  BY <1>2, <1>4, <1>8
<1>11. ASSUME NEW c \in B
       PROVE  \E g \in 1 .. Len(F) : \E k \in 1 .. Len(layout'[g]) : layout'[g][k] = c
  <2>1. CASE c = x
    <3>1. p \in 1 .. Len(r)
      BY <1>3, <1>5
    <3> QED
      BY <1>5, <1>8, <2>1, <3>1
  <2>2. CASE c # x
    <3>1. c \in DOMAIN succ
      BY <1>1, <2>2
    <3>2. PICK g \in 1 .. Len(F) : \E k \in 1 .. Len(layout[g]) : layout[g][k] = c
      BY <3>1 DEF Layouts
    <3>3. PICK k \in 1 .. Len(layout[g]) : layout[g][k] = c
      BY <3>2
    <3>4. CASE g # f
      BY <1>8, <3>3, <3>4
    <3>5. CASE g = f
      <4>1. k \in 1 .. L /\ l[k] = c
        BY <1>1, <3>3, <3>5
      <4>2. CASE k < p
        <5>1. k \in 1 .. p - 1 /\ k \in 1 .. L + 1
          BY <1>3, <4>1, <4>2
        <5> QED
          BY <1>5, <1>8, <4>1, <5>1
      <4>3. CASE ~(k < p)
        <5>1. k \in p .. L /\ k + 1 \in 1 .. L + 1
          BY <1>3, <4>1, <4>3
        <5> QED
          BY <1>5, <1>8, <4>1, <5>1
      <4> QED
        BY <4>2, <4>3
    <3> QED
      BY <3>4, <3>5
  <2> QED
    BY <2>1, <2>2
<1> QED
  BY <1>1, <1>9, <1>10, <1>11 DEF Layouts

\* The edge that the walk is at: where it leads, and its counter
LEMMA EdgeFacts ==
  ASSUME NEW n, NEW F, NEW sc, NEW N, NEW list, NEW ix, NEW first, NEW place,
         Profiled(n, F, sc, N, list, ix, first, place), Shape(n, F, sc, N, ix, first, place),
         pc = "block", bi <= Len(layout[fi]), block \in BlocksToInstrument, s <= Len(succ[block])
  PROVE  /\ block \in 1 .. n /\ s \in 1 .. Len(sc[block]) /\ Len(succ[block]) = Len(sc[block])
         /\ ix[<<block, s>>] = i /\ i \in 1 .. N
         /\ succ[block][s] = sc[block][s] /\ sc[block][s] \in 1 .. n
         /\ \A f : f = fi =>
              \E k \in 1 .. Len(F[f]), m \in Nat :
                /\ AtOld(layout[f], n, F[f], sc, place[f], k, m, bi, s, i)
                /\ F[f][k] = block /\ s <= Len(sc[F[f][k]])
<1>1. /\ Fixed(n, F, sc, N, list, ix, first, place) /\ Module(n, F, sc) /\ N \in Nat
      /\ Graph(n, sc, ix)
  BY DEF Profiled, Fixed, Shape
<1>2. PICK f, l, b : f = fi /\ l = layout[fi] /\ b = block
  OBVIOUS
<1>3. /\ f \in 1 .. Len(F) /\ Function(n, F[f], sc, place[f], Len(F[f])) /\ Len(l) \in Nat
      /\ Here(l, n, F[f], sc, place[f], bi, s, i) /\ b \in 1 .. n
  BY <1>2, BlockFacts
<1>4. b = l[bi] /\ bi <= Len(l)
  BY <1>2 DEF block
<1>5. bi \in Nat \ {0}
  <2>1. PICK k \in 1 .. Len(F[f]), m \in Nat :
          AtOld(l, n, F[f], sc, place[f], k, m, bi, s, i) \/ AtNew(l, n, F[f], place[f], k, m, bi, i)
    BY <1>3, Zenon DEF Here
  <2>2. bi \in 1 .. Len(l) \/ bi \in 1 .. Len(l) + 1
    BY <2>1 DEF AtOld, AtNew
  <2> QED
    BY <1>3, <2>2
<1>6. bi \in 1 .. Len(l) /\ l[bi] \in 1 .. n
  BY <1>3, <1>4, <1>5
<1>7. PICK k \in 1 .. Len(F[f]), m \in Nat : AtOld(l, n, F[f], sc, place[f], k, m, bi, s, i)
  BY <1>3, <1>6, HereOld
<1>8. /\ l[bi] = F[f][k] /\ s \in 1 .. Len(sc[F[f][k]]) + 1 /\ i = place[f][k] + s
  BY <1>7 DEF AtOld
<1>9. b = F[f][k]
  BY <1>4, <1>8
<1>10. Len(succ[b]) = Len(sc[b])
  BY <1>1, <1>3 DEF Graph
<1>11. s \in 1 .. Len(sc[b])
  <2>1. PICK L : L = Len(sc[b]) /\ L \in Nat
    BY <1>1, <1>3, ModuleTypes
  <2>2. s \in 1 .. L + 1 /\ s <= L
    BY <1>2, <1>8, <1>9, <1>10, <2>1
  <2>3. s \in 1 .. L
    BY <2>1, <2>2
  <2> QED
    BY <2>1, <2>3
<1>12. s \in 1 .. Len(sc[F[f][k]]) /\ i = place[f][k] + s
  BY <1>8, <1>9, <1>11
<1>13. i \in 1 .. N /\ ix[<<F[f][k], s>>] = i
  <2>1. PICK t, c : t = s /\ c = i
    OBVIOUS
  <2>2. /\ Fixed(n, F, sc, N, list, ix, first, place) /\ f \in 1 .. Len(F) /\ k \in 1 .. Len(F[f])
        /\ t \in 1 .. Len(sc[F[f][k]]) /\ c = place[f][k] + t
    BY <1>1, <1>3, <1>12, <2>1
  <2>3. c \in 1 .. N /\ ix[<<F[f][k], t>>] = c
    <3>1. IsIndex(ix, list, N, SlotSet(n, F, sc)) /\ EdgesAt(list, N, F, sc, place)
      BY <2>2 DEF Fixed
    <3>2. c \in 1 .. N /\ list[c] = <<F[f][k], t>>
      BY <2>2, <3>1, Zenon DEF EdgesAt
    <3> QED
      BY <3>1, <3>2, Zenon DEF IsIndex
  <2> QED
    BY <2>1, <2>3
<1>14. ix[<<b, s>>] = i
  BY <1>9, <1>13
<1>15. ~(ix[<<b, s>>] < i)
  BY <1>1, <1>13, <1>14
<1>16. succ[b][s] = sc[b][s]
  BY <1>1, <1>3, <1>11, <1>15 DEF Graph
<1>17. sc[b][s] \in 1 .. n
  BY <1>1, <1>3, <1>11, ModuleTypes
<1>18. s <= Len(sc[F[f][k]])
  BY <1>2, <1>9, <1>10
<1>19. \A y : y = fi =>
         \E x \in 1 .. Len(F[y]), z \in Nat :
           /\ AtOld(layout[y], n, F[y], sc, place[y], x, z, bi, s, i)
           /\ F[y][x] = block /\ s <= Len(sc[F[y][x]])
  <2>1. AtOld(layout[f], n, F[f], sc, place[f], k, m, bi, s, i) /\ F[f][k] = block
    BY <1>2, <1>7, <1>9
  <2> QED
    BY <1>2, <1>18, <2>1
<1> QED
  BY <1>2, <1>3, <1>10, <1>11, <1>13, <1>14, <1>16, <1>17, <1>19

\* A counter for an edge that is not split
LEMMA EdgeShape ==
  ASSUME NEW n, NEW F, NEW sc, NEW N, NEW list, NEW ix, NEW first, NEW place,
         Profiled(n, F, sc, N, list, ix, first, place), Shape(n, F, sc, N, ix, first, place),
         InstrumentEdge, ~Splits(block, s)
  PROVE  Shape(n, F, sc, N, ix, first, place)'
<1>1. /\ Fixed(n, F, sc, N, list, ix, first, place) /\ Module(n, F, sc) /\ N \in Nat
      /\ Graph(n, sc, ix) /\ Layouts(F) /\ Walk(n, F, sc, N, first, place) /\ RunTypes(n, F, sc, N)
  BY DEF Profiled, Fixed, Shape
<1>2. /\ pc = "block" /\ bi <= Len(layout[fi]) /\ block \in BlocksToInstrument
      /\ s <= Len(succ[block]) /\ i' = i + 1 /\ s' = s + 1
      /\ \/ foot' = [foot EXCEPT ![block] = Append(@, i)] /\ head' = head
         \/ head' = [head EXCEPT ![succ[block][s]] = Append(@, i)] /\ foot' = foot
      /\ pc' = pc /\ layout' = layout /\ succ' = succ /\ fi' = fi /\ bi' = bi
      /\ counters' = counters /\ at' = at /\ taken' = taken /\ warned' = warned
  BY DEF InstrumentEdge, runVars, loadVars
<1>3. PICK f, l, b, d, t : f = fi /\ l = layout[fi] /\ b = block /\ d = succ[block][s] /\ t = s
  OBVIOUS
<1>4. /\ b \in 1 .. n /\ d \in 1 .. n /\ i \in 1 .. N
  BY <1>2, <1>3, EdgeFacts
<1>5. PICK k \in 1 .. Len(F[f]), m \in Nat :
        AtOld(l, n, F[f], sc, place[f], k, m, bi, s, i) /\ s <= Len(sc[F[f][k]])
  BY <1>2, <1>3, EdgeFacts
<1>6. f \in 1 .. Len(F) /\ Function(n, F[f], sc, place[f], Len(F[f]))
  BY <1>2, <1>3, BlockFacts
<1>7. Here(l, n, F[f], sc, place[f], bi, s + 1, i + 1)
  BY <1>5, <1>6, HereEdge
<1>8. b \in DOMAIN foot /\ d \in DOMAIN head /\ DOMAIN head = DOMAIN succ /\ DOMAIN foot = DOMAIN succ
  <2>1. n \in Nat
    BY <1>1, ModuleTypes
  <2> QED
    BY <1>1, <1>4, <2>1 DEF Graph
<1>9. \/ foot' = [foot EXCEPT ![b] = Append(foot[b], i)] /\ head' = head
      \/ head' = [head EXCEPT ![d] = Append(head[d], i)] /\ foot' = foot
  BY <1>2, <1>3
<1>10. Graph(n, sc, ix)'
  <2>1. DOMAIN head' = DOMAIN succ /\ DOMAIN foot' = DOMAIN succ
    BY <1>8, <1>9
  <2>2. ASSUME NEW x \in DOMAIN succ
        PROVE  head'[x] \in Seq(Nat) /\ foot'[x] \in Seq(Nat)
    <3>1. head[x] \in Seq(Nat) /\ foot[x] \in Seq(Nat)
      BY <1>1 DEF Graph
    <3>2. /\ head'[x] = head[x] \/ head'[x] = Append(head[x], i)
          /\ foot'[x] = foot[x] \/ foot'[x] = Append(foot[x], i)
      BY <1>8, <1>9
    <3>3. PICK y, u, v : y = i /\ u = head[x] /\ v = foot[x]
      OBVIOUS
    <3>4. y \in Nat /\ u \in Seq(Nat) /\ v \in Seq(Nat)
      BY <1>4, <3>1, <3>3
    <3>5. Append(u, y) \in Seq(Nat) /\ Append(v, y) \in Seq(Nat)
      BY <3>4
    <3> QED
      BY <3>2, <3>3, <3>4, <3>5
  <2> QED
    BY <1>1, <1>2, <1>4, <2>1, <2>2, GraphCounted
<1>11. Layouts(F)' /\ RunTypes(n, F, sc, N)'
  BY <1>1, <1>2, LayoutsStay, RunTypesStay
<1>12. Walk(n, F, sc, N, first, place)'
  <2>1. i' \in 1 .. N + 1
    BY <1>1, <1>2, <1>4
  <2>2. Here(layout'[fi'], n, F[fi'], sc, place[fi'], bi', s', i')
    BY <1>2, <1>3, <1>7
  <2> QED
    BY <1>1, <1>2, <2>1, <2>2 DEF Walk
<1> QED
  BY <1>10, <1>11, <1>12 DEF Shape

\* A counter for an edge that is split
LEMMA SplitShape ==
  ASSUME NEW n, NEW F, NEW sc, NEW N, NEW list, NEW ix, NEW first, NEW place,
         Profiled(n, F, sc, N, list, ix, first, place), Shape(n, F, sc, N, ix, first, place),
         InstrumentEdge, Splits(block, s)
  PROVE  Shape(n, F, sc, N, ix, first, place)'
<1>1. /\ Fixed(n, F, sc, N, list, ix, first, place) /\ Module(n, F, sc) /\ N \in Nat
      /\ Graph(n, sc, ix) /\ Layouts(F) /\ Walk(n, F, sc, N, first, place) /\ RunTypes(n, F, sc, N)
  BY DEF Profiled, Fixed, Shape
<1>2. /\ pc = "block" /\ bi <= Len(layout[fi]) /\ block \in BlocksToInstrument
      /\ s <= Len(succ[block]) /\ i' = i + 1 /\ s' = s + 1
      /\ succ' = Split(block, s)
      /\ layout' = [layout EXCEPT ![fi] = InsertAt(@, bi + 1, NewBlock)]
      /\ head' = [c \in DOMAIN succ' |-> IF c = NewBlock THEN <<i>> ELSE head[c]]
      /\ foot' = [c \in DOMAIN succ' |-> IF c = NewBlock THEN <<>> ELSE foot[c]]
      /\ pc' = pc /\ fi' = fi /\ bi' = bi
      /\ counters' = counters /\ at' = at /\ taken' = taken /\ warned' = warned
  BY DEF InstrumentEdge, InsertPlace, runVars, loadVars
<1>3. PICK f, l, b, t : f = fi /\ l = layout[fi] /\ b = block /\ t = s
  OBVIOUS
<1>4. /\ b \in 1 .. n /\ t \in 1 .. Len(sc[b]) /\ Len(succ[b]) = Len(sc[b])
      /\ ix[<<b, t>>] = i /\ i \in 1 .. N
  BY <1>2, <1>3, EdgeFacts
<1>5. PICK k \in 1 .. Len(F[f]), w \in Nat :
        AtOld(l, n, F[f], sc, place[f], k, w, bi, s, i) /\ s <= Len(sc[F[f][k]])
  BY <1>2, <1>3, EdgeFacts
<1>6. f \in 1 .. Len(F) /\ Function(n, F[f], sc, place[f], Len(F[f]))
  BY <1>2, <1>3, BlockFacts
<1>7. n \in Nat
  BY <1>1, ModuleTypes
<1>8. PICK m \in Nat : n <= m /\ DOMAIN succ = 1 .. m
  BY <1>1 DEF Graph
<1>9. NewBlock = m + 1 /\ IsSplit(succ', succ, m, b, t)
  <2>1. b \in 1 .. m
    BY <1>4, <1>7, <1>8
  <2>2. \A c \in 1 .. m : succ[c] \in Seq(1 .. m)
    BY <1>1, <1>8 DEF Graph
  <2>3. t \in 1 .. Len(succ[b])
    BY <1>4
  <2>4. NewBlock = m + 1 /\ IsSplit(Split(b, t), succ, m, b, t)
    BY <1>8, <2>1, <2>2, <2>3, SplitFacts
  <2> QED
    BY <1>2, <1>3, <2>4
<1>10. PICK x : x = m + 1
  OBVIOUS
<1>11. DOMAIN succ' = 1 .. x /\ NewBlock = x /\ \A c \in 1 .. x : c # x => c \in DOMAIN succ
  <2>1. DOMAIN succ' = 1 .. x
    BY <1>9, <1>10 DEF IsSplit
  <2>2. \A c \in 1 .. x : c # x => c \in DOMAIN succ
    BY <1>8, <1>10
  <2> QED
    BY <1>9, <1>10, <2>1, <2>2
<1>12. Graph(n, sc, ix)'
  <2>1. DOMAIN head' = 1 .. x /\ DOMAIN foot' = 1 .. x
    BY <1>2, <1>11
  <2>2. ASSUME NEW c \in 1 .. x
        PROVE  head'[c] \in Seq(Nat) /\ foot'[c] \in Seq(Nat)
    <3>1. CASE c = x
      <4>1. head'[c] = <<i>> /\ foot'[c] = <<>>
        BY <1>2, <1>11, <3>1
      <4>2. PICK y : y = i /\ y \in Nat
        BY <1>4
      <4>3. <<y>> \in Seq(Nat)
        BY <4>2
      <4> QED
        BY <4>1, <4>2, <4>3
    <3>2. CASE c # x
      <4>1. head'[c] = head[c] /\ foot'[c] = foot[c]
        BY <1>2, <1>11, <3>2
      <4>2. c \in DOMAIN succ
        BY <1>11, <3>2
      <4> QED
        BY <1>1, <4>1, <4>2 DEF Graph
    <3> QED
      BY <3>1, <3>2
  <2>3. /\ DOMAIN head' = 1 .. m + 1 /\ DOMAIN foot' = 1 .. m + 1
        /\ \A c \in 1 .. m + 1 : head'[c] \in Seq(Nat) /\ foot'[c] \in Seq(Nat)
    BY <1>10, <2>1, <2>2
  <2>4. i' = i + 1
    BY <1>2
  <2> QED
    BY <1>1, <1>4, <1>8, <1>9, <2>3, <2>4, GraphSplit
<1>13. l \in Seq(DOMAIN succ) /\ l \in Seq(1 .. x) /\ x \in 1 .. x /\ x \notin 1 .. n /\ Len(l) \in Nat
  <2>1. l \in Seq(DOMAIN succ)
    BY <1>2, <1>3, BlockFacts
  <2>2. DOMAIN succ \subseteq 1 .. x
    BY <1>8, <1>10
  <2>3. l \in Seq(1 .. x)
    BY <2>1, <2>2, WiderSeq
  <2> QED
    BY <1>7, <1>8, <1>10, <2>1, <2>3
<1>14. bi \in 1 .. Len(l)
  BY <1>5 DEF AtOld
<1>15. PICK p : p = bi + 1 /\ p \in 1 .. Len(l) + 1
  BY <1>13, <1>14
<1>16. Layouts(F)'
  <2>1. p \in 1 .. Len(layout[f]) + 1
    BY <1>3, <1>15
  <2>2. layout' = [layout EXCEPT ![f] = InsertAt(@, p, m + 1)]
    BY <1>2, <1>3, <1>9, <1>15
  <2>3. DOMAIN succ' = 1 .. m + 1
    BY <1>10, <1>11
  <2> QED
    BY <1>1, <1>6, <1>8, <2>1, <2>2, <2>3, LayoutsSplit
<1>17. Here(InsertAt(l, bi + 1, x), n, F[f], sc, place[f], bi, s + 1, i + 1)
  <2>1. \A S, y : l \in Seq(S) /\ y \in S /\ y \notin 1 .. n =>
              Here(InsertAt(l, bi + 1, y), n, F[f], sc, place[f], bi, s + 1, i + 1)
    BY <1>5, <1>6, HereEdge
  <2> QED
    BY <1>13, <2>1, Zenon
<1>18. layout'[f] = InsertAt(l, bi + 1, x) /\ \A g \in 1 .. Len(F) : g # f => layout'[g] = layout[g]
  <2>1. DOMAIN layout = 1 .. Len(F)
    BY <1>1 DEF Layouts
  <2> QED
    BY <1>2, <1>3, <1>6, <1>11, <2>1
<1>19. Walk(n, F, sc, N, first, place)'
  <2>1. i' \in 1 .. N + 1
    BY <1>1, <1>2, <1>4
  <2>2. Here(layout'[fi'], n, F[fi'], sc, place[fi'], bi', s', i')
    BY <1>2, <1>3, <1>17, <1>18
  <2>3. \A g \in fi' + 1 .. Len(F) : layout'[g] = F[g]
    <3>1. Len(F) \in Nat
      BY <1>1, ModuleTypes
    <3>2. \A g \in f + 1 .. Len(F) : g \in 1 .. Len(F) /\ g # f
      BY <1>6, <3>1
    <3>3. \A g \in f + 1 .. Len(F) : layout[g] = F[g]
      BY <1>1, <1>2, <1>3 DEF Walk
    <3> QED
      BY <1>2, <1>3, <1>18, <3>2, <3>3
  <2> QED
    BY <1>2, <1>3, <1>6, <2>1, <2>2, <2>3 DEF Walk
<1>20. RunTypes(n, F, sc, N)'
  <2>1. DOMAIN succ \subseteq DOMAIN succ'
    BY <1>8, <1>10, <1>11
  <2> QED
    BY <1>1, <1>2, <2>1, RunTypesStay
<1> QED
  BY <1>12, <1>16, <1>19, <1>20 DEF Shape

-----------------------------------------------------------------------------
(* The run *)

\* Counters wrap and keep their width.
LEMMA BumpTypes ==
  ASSUME NEW N, counters \in [1 .. N -> 0 .. Uncounted], NEW list \in Seq(Nat), Bump(list)
  PROVE  counters' \in [1 .. N -> 0 .. Uncounted]
<1> DEFINE Times(c) == Cardinality({n \in DOMAIN list : list[n] = c})
<1>1. counters' = [c \in 1 .. N |-> (counters[c] + Times(c)) % (Uncounted + 1)]
  BY DEF Bump
<1>2. ASSUME NEW c \in 1 .. N
      PROVE  (counters[c] + Times(c)) % (Uncounted + 1) \in 0 .. Uncounted
  <2>1. Times(c) \in Nat
    <3>1. PICK l : l = Len(list) /\ l \in Nat /\ DOMAIN list = 1 .. l
      OBVIOUS
    <3>2. IsFiniteSet(1 .. l)
      BY <3>1, FS_Interval
    <3>3. IsFiniteSet({n \in DOMAIN list : list[n] = c})
      BY <3>1, <3>2, FS_Subset
    <3> QED
      BY <3>3, FS_CardinalityType
  <2>2. PICK x, y : x = counters[c] /\ y = Times(c)
    OBVIOUS
  <2>3. x \in Nat /\ y \in Nat /\ Uncounted \in Nat
    BY <2>1, <2>2, BoundsAssumption
  <2>4. (x + y) % (Uncounted + 1) \in 0 .. Uncounted
    BY <2>3
  <2> QED
    BY <2>2, <2>4
<1> HIDE DEF Times
<1> QED
  BY <1>1, <1>2

\* A step of the program or of the loader changes no block.
LEMMA RunShape ==
  ASSUME NEW n, NEW F, NEW sc, NEW N, NEW list, NEW ix, NEW first, NEW place,
         Profiled(n, F, sc, N, list, ix, first, place), Shape(n, F, sc, N, ix, first, place),
         pc = "run", pc' \in {"run", "done"}, UNCHANGED passVars, RunTypes(n, F, sc, N)'
  PROVE  Shape(n, F, sc, N, ix, first, place)'
<1>1. Graph(n, sc, ix) /\ Layouts(F) /\ Walk(n, F, sc, N, first, place)
  BY DEF Shape
<1>2. layout' = layout /\ succ' = succ /\ head' = head /\ foot' = foot /\ fi' = fi /\ i' = i
  BY DEF passVars
<1>3. Graph(n, sc, ix)' /\ Layouts(F)'
  BY <1>1, <1>2, GraphStays, LayoutsStay
<1>4. Walk(n, F, sc, N, first, place)'
  BY <1>1, <1>2 DEF Walk
<1> QED
  BY <1>3, <1>4 DEF Shape

\* A call of a function
LEMMA CallShape ==
  ASSUME NEW n, NEW F, NEW sc, NEW N, NEW list, NEW ix, NEW first, NEW place,
         Profiled(n, F, sc, N, list, ix, first, place), Shape(n, F, sc, N, ix, first, place),
         NEW e \in Run!Entries(prog), Call(e)
  PROVE  Shape(n, F, sc, N, ix, first, place)'
<1>1. /\ Fixed(n, F, sc, N, list, ix, first, place) /\ Module(n, F, sc)
      /\ Graph(n, sc, ix) /\ RunTypes(n, F, sc, N)
  BY DEF Profiled, Fixed, Shape
<1>2. /\ pc = "run" /\ pc' = pc /\ UNCHANGED passVars /\ warned' = warned /\ succ' = succ
      /\ at' = e /\ Bump(head[e]) /\ taken' = [taken EXCEPT ![<<0, e>>] = @ + 1]
  BY DEF Call, loadVars, passVars
<1>3. PICK f \in 1 .. Len(F) : e = F[f][1]
  <2>1. Run!Entries(prog) = {F[f][1] : f \in 1 .. Len(F)}
    BY DEF Profiled
  <2> QED
    BY <2>1
<1>4. e \in 1 .. n /\ n \in Nat
  <2>1. Len(F[f]) \in Nat \ {0} /\ \A k \in 1 .. Len(F[f]) : F[f][k] \in 1 .. n
    BY <1>1, ModuleTypes
  <2>2. n \in Nat
    BY <1>1, ModuleTypes
  <2> QED
    BY <1>3, <2>1, <2>2
<1>5. e \in DOMAIN succ
  BY <1>1, <1>4 DEF Graph
<1>6. counters' \in [1 .. N -> 0 .. Uncounted]
  <2>1. head[e] \in Seq(Nat)
    BY <1>1, <1>5 DEF Graph
  <2> QED
    BY <1>1, <1>2, <2>1, BumpTypes DEF RunTypes
<1>7. taken' \in [SlotSet(n, F, sc) -> Nat]
  <2>1. PICK S : S = SlotSet(n, F, sc) /\ taken \in [S -> Nat]
    BY <1>1 DEF RunTypes
  <2>2. taken' = [taken EXCEPT ![<<0, e>>] = taken[<<0, e>>] + 1]
    BY <1>2
  <2>3. \A x \in Nat : x + 1 \in Nat
    OBVIOUS
  <2> QED
    BY <2>1, <2>2, <2>3
<1>8. RunTypes(n, F, sc, N)'
  BY <1>1, <1>2, <1>5, <1>6, <1>7 DEF RunTypes
<1> QED
  BY <1>2, <1>8, RunShape

\* An edge that the program takes
LEMMA TakeShape ==
  ASSUME NEW n, NEW F, NEW sc, NEW N, NEW list, NEW ix, NEW first, NEW place,
         Profiled(n, F, sc, N, list, ix, first, place), Shape(n, F, sc, N, ix, first, place),
         NEW t, Take(t)
  PROVE  Shape(n, F, sc, N, ix, first, place)'
<1>1. /\ Fixed(n, F, sc, N, list, ix, first, place) /\ Module(n, F, sc)
      /\ Graph(n, sc, ix) /\ RunTypes(n, F, sc, N)
  BY DEF Profiled, Fixed, Shape
<1>2. /\ pc = "run" /\ pc' = pc /\ UNCHANGED passVars /\ warned' = warned /\ succ' = succ
      /\ at # Idle /\ t \in DOMAIN succ[at] /\ at' = succ[at][t]
      /\ Bump(foot[at] \o head[succ[at][t]])
      /\ taken' = [taken EXCEPT ![<<at, t>>] = @ + 1] \/ taken' = taken
  BY DEF Take, loadVars, passVars
<1>3. at \in DOMAIN succ
  BY <1>1, <1>2 DEF RunTypes
<1>4. PICK D, a : D = DOMAIN succ /\ a = succ[at] /\ a \in Seq(D)
  BY <1>1, <1>3 DEF Graph
<1>5. PICK d : d = succ[at][t] /\ d \in D
  <2>1. t \in 1 .. Len(a)
    BY <1>2, <1>4
  <2> QED
    BY <1>4, <2>1, ElementOfSeq
<1>6. counters' \in [1 .. N -> 0 .. Uncounted]
  <2>1. PICK u, v : u = foot[at] /\ v = head[d] /\ u \in Seq(Nat) /\ v \in Seq(Nat)
    BY <1>1, <1>3, <1>4, <1>5 DEF Graph
  <2>2. u \o v \in Seq(Nat) /\ Bump(u \o v)
    BY <1>2, <1>5, <2>1
  <2> QED
    BY <1>1, <2>2, BumpTypes DEF RunTypes
<1>7. taken' \in [SlotSet(n, F, sc) -> Nat]
  <2>1. PICK S : S = SlotSet(n, F, sc) /\ taken \in [S -> Nat]
    BY <1>1 DEF RunTypes
  <2>2. taken' = [taken EXCEPT ![<<at, t>>] = taken[<<at, t>>] + 1] \/ taken' = taken
    BY <1>2
  <2>3. \A x \in Nat : x + 1 \in Nat
    OBVIOUS
  <2> QED
    BY <2>1, <2>2, <2>3
<1>8. RunTypes(n, F, sc, N)'
  BY <1>1, <1>2, <1>4, <1>5, <1>6, <1>7 DEF RunTypes
<1> QED
  BY <1>2, <1>8, RunShape

\* The end of a call, and the loader
LEMMA EndShape ==
  ASSUME NEW n, NEW F, NEW sc, NEW N, NEW list, NEW ix, NEW first, NEW place,
         Profiled(n, F, sc, N, list, ix, first, place), Shape(n, F, sc, N, ix, first, place),
         End \/ Load
  PROVE  Shape(n, F, sc, N, ix, first, place)'
<1>1. RunTypes(n, F, sc, N)
  BY DEF Shape
<1>2. /\ pc = "run" /\ UNCHANGED passVars /\ succ' = succ /\ counters' = counters /\ taken' = taken
      /\ at' = Idle /\ warned' \in BOOLEAN /\ pc' \in {"run", "done"}
  <2>1. CASE End
    BY <1>1, <2>1 DEF End, passVars, loadVars, RunTypes
  <2>2. CASE Load
    BY <2>2 DEF Load, passVars, runVars
  <2> QED
    BY <2>1, <2>2
<1>3. RunTypes(n, F, sc, N)'
  BY <1>1, <1>2 DEF RunTypes
<1> QED
  BY <1>2, <1>3, RunShape

-----------------------------------------------------------------------------
(* The invariant *)

\* Every step keeps the shape.
LEMMA ShapeStep ==
  ASSUME NEW n, NEW F, NEW sc, NEW N, NEW list, NEW ix, NEW first, NEW place,
         Profiled(n, F, sc, N, list, ix, first, place), Shape(n, F, sc, N, ix, first, place),
         [Next]_vars
  PROVE  Profiled(n, F, sc, N, list, ix, first, place)' /\ Shape(n, F, sc, N, ix, first, place)'
<1>1. Profiled(n, F, sc, N, list, ix, first, place)'
  <2>1. prog' = prog
    BY DEF Next, Instrument, Execute, Begin, InstrumentEntry, FinishInstrumentation, InstrumentEdge,
           NextBlock, NextFunction, Call, Take, End, Load, vars
  <2> QED
    BY <2>1, ProfiledStays
<1>2. Shape(n, F, sc, N, ix, first, place)'
  <2>1. CASE Begin
    BY <2>1, BeginShape
  <2>2. CASE InstrumentEntry
    BY <2>2, EntryShape
  <2>3. CASE FinishInstrumentation
    BY <2>3, FinishShape
  <2>4. CASE InstrumentEdge
    BY <2>4, EdgeShape, SplitShape
  <2>5. CASE NextBlock
    BY <2>5, NextBlockShape
  <2>6. CASE NextFunction
    BY <2>6, NextFunctionShape
  <2>7. CASE \E e \in Run!Entries(prog) : Call(e)
    BY <2>7, CallShape
  <2>8. CASE \E t : Take(t)
    BY <2>8, TakeShape
  <2>9. CASE End \/ Load
    BY <2>9, EndShape
  <2>10. CASE UNCHANGED vars
    <3>1. /\ layout' = layout /\ succ' = succ /\ head' = head /\ foot' = foot
          /\ fi' = fi /\ bi' = bi /\ s' = s /\ i' = i /\ pc' = pc
          /\ counters' = counters /\ at' = at /\ taken' = taken /\ warned' = warned
      BY <2>10 DEF vars, passVars, runVars, loadVars
    <3>2. Graph(n, sc, ix)' /\ Layouts(F)' /\ RunTypes(n, F, sc, N)'
      BY <3>1, GraphStays, LayoutsStay, RunTypesStay DEF Shape
    <3>3. Walk(n, F, sc, N, first, place)'
      BY <3>1 DEF Shape, Walk
    <3> QED
      BY <3>2, <3>3 DEF Shape
  <2> QED
    BY <2>1, <2>2, <2>3, <2>4, <2>5, <2>6, <2>7, <2>8, <2>9, <2>10 DEF Next, Instrument, Execute
<1> QED
  BY <1>1, <1>2

\* What the invariant says of the types
LEMMA ShapeTypes ==
  ASSUME ShapeInv
  PROVE  TypeOK
<1>1. PICK n, F, sc, N, list, ix, first, place :
        /\ Profiled(n, F, sc, N, list, ix, first, place) /\ Shape(n, F, sc, N, ix, first, place)
  BY DEF ShapeInv
<1>2. /\ Graph(n, sc, ix) /\ Layouts(F) /\ Walk(n, F, sc, N, first, place) /\ RunTypes(n, F, sc, N)
      /\ prog \in Programs /\ NumEdges = N /\ Cardinality(Run!Blocks(prog)) = n
  BY <1>1 DEF Shape, Profiled
<1>3. Cardinality(DOMAIN succ) >= n
  <2>1. PICK m \in Nat : n <= m /\ DOMAIN succ = 1 .. m
    BY <1>2 DEF Graph
  <2>2. Cardinality(1 .. m) = m
    BY <2>1, FS_Interval
  <2>3. n \in Nat
    BY <1>1, ModuleTypes DEF Profiled, Fixed
  <2> QED
    BY <2>1, <2>2, <2>3
<1>4. UNION {Range(layout[f]) : f \in DOMAIN layout} = DOMAIN succ
  <2>1. DOMAIN layout = 1 .. Len(F)
    BY <1>2 DEF Layouts
  <2>2. ASSUME NEW f \in 1 .. Len(F)
        PROVE  Range(layout[f]) = {layout[f][k] : k \in 1 .. Len(layout[f])} /\ Range(layout[f]) \subseteq DOMAIN succ
    <3>1. PICK l : l = layout[f] /\ l \in Seq(DOMAIN succ)
      BY <1>2 DEF Layouts
    <3>2. Range(l) = {l[k] : k \in 1 .. Len(l)} /\ \A k \in 1 .. Len(l) : l[k] \in DOMAIN succ
      BY <3>1, ElementOfSeq DEF Range
    <3> QED
      BY <3>1, <3>2
  <2>3. ASSUME NEW b \in DOMAIN succ
        PROVE  \E f \in 1 .. Len(F) : b \in Range(layout[f])
    <3>1. PICK f \in 1 .. Len(F) : \E k \in 1 .. Len(layout[f]) : layout[f][k] = b
      BY <1>2 DEF Layouts
    <3>2. Range(layout[f]) = {layout[f][k] : k \in 1 .. Len(layout[f])}
      BY <2>2
    <3> QED
      BY <3>1, <3>2
  <2> QED
    BY <2>1, <2>2, <2>3
<1>5. DOMAIN head = DOMAIN succ /\ DOMAIN foot = DOMAIN succ
  BY <1>2 DEF Graph
<1>6. /\ counters \in [1 .. N -> 0 .. Uncounted] /\ at \in DOMAIN succ \cup {Idle} /\ warned \in BOOLEAN
  BY <1>2 DEF RunTypes
<1>7. /\ pc \in {"begin", "function", "block", "run", "done", "skipped"}
      /\ i \in 1 .. N + 1 /\ (pc = "run" => i = N + 1)
  BY <1>2 DEF Walk
<1> QED
  BY <1>2, <1>3, <1>4, <1>5, <1>6, <1>7 DEF TypeOK

\* The types hold in every state of the profiler, the program and the loader, and
\* when the program runs instrumentation has used exactly the counters that it
\* reserved, for every module and in whatever order blocks were split.
THEOREM TypeCorrect == Spec => []TypeOK
<1>1. Init => ShapeInv
  BY InitShape
<1>2. ShapeInv /\ [Next]_vars => ShapeInv'
  <2> SUFFICES ASSUME ShapeInv, [Next]_vars PROVE ShapeInv'
    OBVIOUS
  <2>1. PICK n, F, sc, N, list, ix, first, place :
          /\ Profiled(n, F, sc, N, list, ix, first, place) /\ Shape(n, F, sc, N, ix, first, place)
    BY DEF ShapeInv
  <2>2. Profiled(n, F, sc, N, list, ix, first, place)' /\ Shape(n, F, sc, N, ix, first, place)'
    BY <2>1, ShapeStep
  <2> QED
    BY <2>2 DEF ShapeInv
<1>3. ShapeInv => TypeOK
  BY ShapeTypes
<1> QED
  BY <1>1, <1>2, <1>3, PTL DEF Spec
=============================================================================
