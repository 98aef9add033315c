---------------------------- MODULE LibraryFacts ----------------------------
(***************************************************************************)
(* Facts about the operators of the community modules that the proofs need. *)
(*                                                                         *)
(* Induction over natural numbers and finite sets is in a form the provers *)
(* can use: the set of the numbers (or sets) with a property is given, and *)
(* not the property. With it, what MapThenSumSet and FlattenSeq compute.   *)
(* Then numbers in a word, and the walk of the profiling passes through a  *)
(* list of blocks that grows as they go.                                   *)
(***************************************************************************)
EXTENDS Integers, Sequences, FiniteSets, Functions, SequencesExt,
        FiniteSetTheorems, SequenceTheorems, TLAPS

-----------------------------------------------------------------------------
(* Induction *)

\* A set with 0 in it, and with every number the next, has all of them.
LEMMA NatInd ==
  ASSUME NEW P, 0 \in P, \A n \in Nat : n \in P => n + 1 \in P
  PROVE  Nat \subseteq P
<1> DEFINE T == Nat \ P
<1> SUFFICES ASSUME T # {} PROVE FALSE
  OBVIOUS
<1>1. PICK x \in T : \A y \in T : ~(<<y, x>> \in OpToRel(<, Nat))
  <2>1. T \subseteq Nat
    OBVIOUS
  <2> HIDE DEF T
  <2> QED
    BY <2>1, NatLessThanWellFounded, WFMin
<1>2. \A y \in T : ~(y < x)
  BY <1>1 DEF OpToRel
<1>3. x - 1 \in Nat /\ x - 1 < x /\ (x - 1) + 1 = x
  OBVIOUS
<1>4. x - 1 \in P
  BY <1>2, <1>3
<1> QED
  BY <1>3, <1>4

\* The same for the subsets of a finite set, by their sizes: if the subsets of
\* at most n elements are in C for n = 0, and for n + 1 if for n, then S is.
LEMMA SizeInd ==
  ASSUME NEW S, IsFiniteSet(S), NEW C, {} \in C,
         \A n \in Nat : \A T \in SUBSET S :
            /\ \A U \in SUBSET S : Cardinality(U) <= n => U \in C
            /\ Cardinality(T) = n + 1
            => T \in C
  PROVE  \A T \in SUBSET S : T \in C
<1> DEFINE P == {n \in Nat : \A U \in SUBSET S : Cardinality(U) <= n => U \in C}
<1>1. \A U \in SUBSET S : IsFiniteSet(U) /\ Cardinality(U) \in Nat
  BY FS_Subset, FS_CardinalityType
<1>2. 0 \in P
  <2> SUFFICES ASSUME NEW U \in SUBSET S, Cardinality(U) <= 0
               PROVE  U \in C
    OBVIOUS
  <2>1. IsFiniteSet(U) /\ Cardinality(U) = 0
    BY <1>1
  <2>2. U = {}
    BY <2>1, FS_EmptySet
  <2> QED
    BY <2>2
<1>3. ASSUME NEW n \in Nat, n \in P
      PROVE  n + 1 \in P
  <2> SUFFICES ASSUME NEW U \in SUBSET S, Cardinality(U) <= n + 1
               PROVE  U \in C
    OBVIOUS
  <2>1. CASE Cardinality(U) <= n
    BY <1>3, <2>1
  <2>2. CASE Cardinality(U) = n + 1
    BY <1>3, <2>2
  <2> QED
    BY <1>1, <2>1, <2>2
<1> HIDE DEF P
<1>4. Nat \subseteq P
  BY <1>2, <1>3, NatInd
<1> SUFFICES ASSUME NEW T \in SUBSET S
             PROVE  T \in C
  OBVIOUS
<1>5. Cardinality(T) \in P /\ Cardinality(T) <= Cardinality(T)
  BY <1>1, <1>4
<1> QED
  BY <1>5 DEF P

\* A part of a finite set without one of its elements
LEMMA OneLess ==
  ASSUME NEW S, IsFiniteSet(S), NEW T \in SUBSET S, NEW x \in T
  PROVE  /\ T \ {x} \in SUBSET S /\ IsFiniteSet(T) /\ Cardinality(T) \in Nat
         /\ Cardinality(T \ {x}) = Cardinality(T) - 1
<1>1. IsFiniteSet(T) /\ Cardinality(T) \in Nat
  BY FS_Subset, FS_CardinalityType
<1>2. Cardinality(T \ {x}) = Cardinality(T) - 1
  BY <1>1, FS_RemoveElement
<1> QED
  BY <1>1, <1>2

\* A finite set is built by adding one element after the other.
LEMMA SetInd ==
  ASSUME NEW S, IsFiniteSet(S), NEW C, {} \in C,
         \A T \in SUBSET S : \A x \in S \ T : T \in C => T \cup {x} \in C
  PROVE  S \in C
<1>1. ASSUME NEW n \in Nat, NEW T \in SUBSET S,
             \A U \in SUBSET S : Cardinality(U) <= n => U \in C,
             Cardinality(T) = n + 1
      PROVE  T \in C
  <2>1. T # {}
    <3>1. Cardinality({}) = 0
      BY FS_EmptySet
    <3> QED
      BY <1>1, <3>1
  <2>2. PICK x \in T : TRUE
    BY <2>1
  <2>3. T \ {x} \in SUBSET S /\ Cardinality(T \ {x}) <= n
    BY <1>1, OneLess
  <2>4. T \ {x} \in C /\ x \in S \ (T \ {x}) /\ (T \ {x}) \cup {x} = T
    BY <1>1, <2>3
  <2> QED
    BY <2>4
<1> QED
  BY <1>1, SizeInd

-----------------------------------------------------------------------------
(* Sums *)

Chosen(s) == CHOOSE x \in s : TRUE
IsSum(h, g, D) == h = [s \in D |-> IF s = {} THEN 0 ELSE g[Chosen(s)] + h[s \ {Chosen(s)}]]
TheSum(g, S) == CHOOSE h : IsSum(h, g, SUBSET S)

\* The definition of SumFunctionOnSet, in these words
LEMMA SumUnfold ==
  ASSUME NEW g, NEW S
  PROVE  SumFunctionOnSet(g, S) = TheSum(g, S)[S]
BY DEF SumFunctionOnSet, FoldFunctionOnSet, MapThenFoldSet, TheSum, IsSum, Chosen

\* The function that the definition chooses exists.
LEMMA SumExists ==
  ASSUME NEW g, NEW S, IsFiniteSet(S)
  PROVE  IsSum(TheSum(g, S), g, SUBSET S)
<1> DEFINE D(n) == {T \in SUBSET S : Cardinality(T) <= n}
           P == {n \in Nat : \E h : IsSum(h, g, D(n))}
<1>0. \A T \in SUBSET S : IsFiniteSet(T) /\ Cardinality(T) \in Nat
  BY FS_Subset, FS_CardinalityType
<1>1. 0 \in P
  <2>1. \A T \in D(0) : T = {}
    BY <1>0, FS_EmptySet
  <2>2. IsSum([T \in D(0) |-> 0], g, D(0))
    <3> HIDE DEF D
    <3> QED
      BY <2>1 DEF IsSum
  <2> HIDE DEF D
  <2> QED
    BY <2>2
<1>2. ASSUME NEW n \in Nat, n \in P
      PROVE  n + 1 \in P
  <2>1. PICK h : IsSum(h, g, D(n))
    BY <1>2
  <2> DEFINE h2 == [s \in D(n + 1) |-> IF s = {} THEN 0 ELSE g[Chosen(s)] + h[s \ {Chosen(s)}]]
  <2>2. D(n) \subseteq D(n + 1)
    BY <1>0
  <2>3. ASSUME NEW s \in D(n + 1), s # {}
        PROVE  s \ {Chosen(s)} \in D(n)
    <3>1. Chosen(s) \in s
      BY <2>3 DEF Chosen
    <3>2. /\ s \ {Chosen(s)} \in SUBSET S /\ Cardinality(s) \in Nat
          /\ Cardinality(s \ {Chosen(s)}) = Cardinality(s) - 1
      <4> HIDE DEF Chosen
      <4>1. s \in SUBSET S
        BY <2>3
      <4>2. PICK x : x = Chosen(s) /\ x \in s
        BY <3>1
      <4>3. Cardinality(s) \in Nat /\ Cardinality(s \ {x}) = Cardinality(s) - 1
        BY <4>1, <4>2, OneLess
      <4> QED
        BY <4>1, <4>2, <4>3, Zenon
    <3> QED
      BY <3>2
  <2> HIDE DEF D
  <2>4. \A s \in D(n) : h2[s] = h[s]
    BY <2>1, <2>2 DEF IsSum
  <2>5. \A s \in D(n + 1) : s # {} => h2[s \ {Chosen(s)}] = h[s \ {Chosen(s)}]
    BY <2>3, <2>4
  <2>6. IsSum(h2, g, D(n + 1))
    BY <2>5 DEF IsSum
  <2> QED
    BY <2>6
<1>3. Nat \subseteq P
  <2> HIDE DEF P
  <2> QED
    BY <1>1, <1>2, NatInd
<1>4. Cardinality(S) \in P
  BY <1>0, <1>3
<1>5. D(Cardinality(S)) = SUBSET S
  BY FS_Subset
<1>6. \E h : IsSum(h, g, SUBSET S)
  <2> HIDE DEF D
  <2> QED
    BY <1>4, <1>5
<1> QED
  BY <1>6 DEF TheSum

\* What the definition says of a part of S, in any order: an element taken
\* out takes its value from the sum.
SumsUp(h, g, T) == h[T] \in Nat /\ \A x \in T : h[T] = g[x] + h[T \ {x}]

\* A sum over a finite set may be taken in any order.
LEMMA AnyOrder ==
  ASSUME NEW S, IsFiniteSet(S), NEW g, \A x \in S : g[x] \in Nat,
         NEW h, IsSum(h, g, SUBSET S)
  PROVE  \A T \in SUBSET S : SumsUp(h, g, T)
<1> DEFINE C == {T \in SUBSET S : SumsUp(h, g, T)}
<1>0. h[{}] = 0
  BY DEF IsSum
<1>1. {} \in C
  BY <1>0 DEF SumsUp
<1>2. ASSUME NEW n \in Nat, NEW T \in SUBSET S,
             \A U \in SUBSET S : Cardinality(U) <= n => U \in C,
             Cardinality(T) = n + 1
      PROVE  T \in C
  <2>1. T # {}
    <3>1. Cardinality({}) = 0
      BY FS_EmptySet
    <3> QED
      BY <1>2, <3>1
  <2> DEFINE c == Chosen(T)
  <2>2. c \in T
    BY <2>1 DEF Chosen
  <2>3. h[T] = g[c] + h[T \ {c}]
    BY <2>1 DEF IsSum
  <2> HIDE DEF c
  <2>4. \A x \in T : T \ {x} \in C
    <3> TAKE x \in T
    <3>1. T \ {x} \in SUBSET S /\ Cardinality(T \ {x}) <= n
      BY <1>2, OneLess
    <3> QED
      BY <1>2, <3>1
  <2>5. h[T] \in Nat
    <3>1. h[T \ {c}] \in Nat /\ g[c] \in Nat
      BY <2>2, <2>4 DEF SumsUp
    <3> QED
      BY <2>3, <3>1
  <2>6. ASSUME NEW x \in T
        PROVE  h[T] = g[x] + h[T \ {x}]
    <3>1. CASE x = c
      BY <2>3, <3>1
    <3>2. CASE x # c
      <4>1. x \in T \ {c} /\ c \in T \ {x} /\ (T \ {c}) \ {x} = (T \ {x}) \ {c}
        BY <2>2, <3>2
      <4>2. h[T \ {c}] = g[x] + h[(T \ {c}) \ {x}]
        BY <2>2, <2>4, <4>1 DEF SumsUp
      <4>3. h[T \ {x}] = g[c] + h[(T \ {x}) \ {c}]
        BY <2>4, <4>1 DEF SumsUp
      <4>4. h[(T \ {x}) \ {c}] \in Nat
        <5>1. (T \ {x}) \ {c} \in SUBSET S /\ Cardinality((T \ {x}) \ {c}) <= n
          <6>1. T \ {x} \in SUBSET S /\ Cardinality(T \ {x}) = n
            BY <1>2, OneLess
          <6>2. /\ (T \ {x}) \ {c} \in SUBSET S
                /\ Cardinality((T \ {x}) \ {c}) = Cardinality(T \ {x}) - 1
            BY <4>1, <6>1, OneLess
          <6> QED
            BY <6>1, <6>2
        <5> QED
          BY <1>2, <5>1 DEF SumsUp
      <4>5. g[x] \in Nat /\ g[c] \in Nat
        BY <2>2
      <4>6. h[T \ {c}] = g[x] + h[(T \ {x}) \ {c}]
        BY <4>1, <4>2, Zenon
      <4>7. PICK a, b, r, u, v, w :
                 /\ a = g[x] /\ b = g[c] /\ r = h[(T \ {x}) \ {c}]
                 /\ u = h[T \ {x}] /\ v = h[T \ {c}] /\ w = h[T]
        BY Zenon
      <4>8. a \in Nat /\ b \in Nat /\ r \in Nat
        BY <4>4, <4>5, <4>7, Zenon
      <4>9. w = b + v /\ v = a + r /\ u = b + r
        BY <2>3, <4>3, <4>6, <4>7, Zenon
      <4>10. w = a + u
        BY <4>8, <4>9
      <4> QED
        BY <4>7, <4>10, Zenon
    <3> QED
      BY <3>1, <3>2
  <2> QED
    BY <2>5, <2>6 DEF SumsUp
<1> HIDE DEF C
<1>3. \A T \in SUBSET S : T \in C
  BY <1>1, <1>2, SizeInd
<1> QED
  BY <1>3 DEF C

\* Two sums that agree on the values agree: the sum over a set is that of its
\* parts.
LEMMA SumsAgree ==
  ASSUME NEW S, IsFiniteSet(S), NEW g, \A x \in S : g[x] \in Nat,
         NEW h, IsSum(h, g, SUBSET S),
         NEW R \in SUBSET S, NEW h2, IsSum(h2, g, SUBSET R)
  PROVE  h2[R] = h[R]
<1> DEFINE C == {T \in SUBSET R : h2[T] = h[T]}
<1>1. {} \in C
  BY DEF IsSum
<1>2. IsFiniteSet(R)
  BY FS_Subset
<1>3. ASSUME NEW T \in SUBSET R, NEW x \in R \ T, T \in C
      PROVE  T \cup {x} \in C
  <2>1. h2[T \cup {x}] = g[x] + h2[(T \cup {x}) \ {x}]
    <3>1. \A U \in SUBSET R : SumsUp(h2, g, U)
      BY <1>2, AnyOrder
    <3> QED
      BY <3>1 DEF SumsUp
  <2>2. h[T \cup {x}] = g[x] + h[(T \cup {x}) \ {x}]
    <3>1. \A U \in SUBSET S : SumsUp(h, g, U)
      BY AnyOrder
    <3> QED
      BY <3>1 DEF SumsUp
  <2>3. (T \cup {x}) \ {x} = T
    OBVIOUS
  <2> QED
    BY <1>3, <2>1, <2>2, <2>3
<1> HIDE DEF C
<1>4. R \in C
  BY <1>1, <1>2, <1>3, SetInd
<1> QED
  BY <1>4 DEF C

\* The sum over no elements
LEMMA SumEmpty ==
  ASSUME NEW g
  PROVE  SumFunctionOnSet(g, {}) = 0
<1>1. IsSum(TheSum(g, {}), g, SUBSET {})
  BY SumExists, FS_EmptySet
<1>2. TheSum(g, {})[{}] = 0
  BY <1>1 DEF IsSum
<1> QED
  BY <1>2, SumUnfold

\* The sum over one element more
LEMMA SumAdd ==
  ASSUME NEW S, IsFiniteSet(S), NEW x, x \notin S, NEW g,
         \A y \in S \cup {x} : g[y] \in Nat
  PROVE  SumFunctionOnSet(g, S \cup {x}) = g[x] + SumFunctionOnSet(g, S)
<1> DEFINE U == S \cup {x}
<1>1. IsFiniteSet(U) /\ S \in SUBSET U /\ x \in U /\ U \ {x} = S
  BY FS_AddElement
<1>2. \A y \in U : g[y] \in Nat
  OBVIOUS
<1> HIDE DEF U
<1>3. IsSum(TheSum(g, U), g, SUBSET U) /\ IsSum(TheSum(g, S), g, SUBSET S)
  BY <1>1, SumExists
<1>4. TheSum(g, U)[U] = g[x] + TheSum(g, U)[S]
  <2>1. \A T \in SUBSET U : SumsUp(TheSum(g, U), g, T)
    BY <1>1, <1>2, <1>3, AnyOrder
  <2> QED
    BY <1>1, <2>1 DEF SumsUp
<1>5. TheSum(g, S)[S] = TheSum(g, U)[S]
  BY <1>1, <1>2, <1>3, SumsAgree
<1>6. SumFunctionOnSet(g, U) = g[x] + SumFunctionOnSet(g, S)
  BY <1>4, <1>5, SumUnfold
<1> QED
  BY <1>6 DEF U

\* Functions that agree on the elements have the same sum.
LEMMA SumSame ==
  ASSUME NEW S, IsFiniteSet(S), NEW g, NEW g2,
         \A y \in S : g[y] \in Nat /\ g2[y] = g[y]
  PROVE  SumFunctionOnSet(g2, S) = SumFunctionOnSet(g, S)
<1> DEFINE C == {T \in SUBSET S : SumFunctionOnSet(g2, T) = SumFunctionOnSet(g, T)}
<1>1. {} \in C
  BY SumEmpty
<1>2. ASSUME NEW T \in SUBSET S, NEW x \in S \ T, T \in C
      PROVE  T \cup {x} \in C
  <2>1. IsFiniteSet(T)
    BY FS_Subset
  <2>2. \A y \in T \cup {x} : g[y] \in Nat /\ g2[y] \in Nat
    OBVIOUS
  <2>3. SumFunctionOnSet(g, T \cup {x}) = g[x] + SumFunctionOnSet(g, T)
    BY <2>1, <2>2, SumAdd
  <2>4. SumFunctionOnSet(g2, T \cup {x}) = g2[x] + SumFunctionOnSet(g2, T)
    BY <2>1, <2>2, SumAdd
  <2>5. g2[x] = g[x] /\ SumFunctionOnSet(g2, T) = SumFunctionOnSet(g, T)
    BY <1>2
  <2>6. SumFunctionOnSet(g2, T \cup {x}) = SumFunctionOnSet(g, T \cup {x})
    BY <2>3, <2>4, <2>5, Zenon
  <2> QED
    BY <2>6
<1> HIDE DEF C
<1>3. S \in C
  BY <1>1, <1>2, SetInd
<1> QED
  BY <1>3 DEF C

\* Sums of natural numbers are natural numbers.
LEMMA SumType ==
  ASSUME NEW S, IsFiniteSet(S), NEW g, \A y \in S : g[y] \in Nat
  PROVE  SumFunctionOnSet(g, S) \in Nat
<1>1. \A T \in SUBSET S : SumsUp(TheSum(g, S), g, T)
  BY SumExists, AnyOrder
<1> QED
  BY <1>1, SumUnfold DEF SumsUp

\* A sum over places in a list is the sum over what stands there.
LEMMA SumListed ==
  ASSUME NEW A, IsFiniteSet(A), NEW list, NEW ix, \A n \in A : ix[list[n]] = n,
         NEW g, NEW h, \A n \in A : g[n] \in Nat /\ h[list[n]] = g[n]
  PROVE  SumFunctionOnSet(h, {list[n] : n \in A}) = SumFunctionOnSet(g, A)
<1> DEFINE I(T) == {list[n] : n \in T}
           C == {T \in SUBSET A : IsFiniteSet(I(T)) /\ SumFunctionOnSet(h, I(T)) = SumFunctionOnSet(g, T)}
<1>1. {} \in C
  <2>1. I({}) = {}
    OBVIOUS
  <2> HIDE DEF I
  <2> QED
    BY <2>1, SumEmpty, FS_EmptySet
<1>2. ASSUME NEW T \in SUBSET A, NEW x \in A \ T, T \in C
      PROVE  T \cup {x} \in C
  <2>1. PICK y : y = list[x]
    OBVIOUS
  <2>2. I(T \cup {x}) = I(T) \cup {y} /\ y \notin I(T)
    BY <2>1
  <2>3. \A z \in I(T) \cup {y} : h[z] \in Nat
    BY <2>1
  <2>4. IsFiniteSet(T)
    BY FS_Subset
  <2>5. SumFunctionOnSet(g, T \cup {x}) = g[x] + SumFunctionOnSet(g, T)
    BY <2>4, SumAdd
  <2> HIDE DEF I
  <2>6. IsFiniteSet(I(T)) /\ SumFunctionOnSet(h, I(T)) = SumFunctionOnSet(g, T)
    BY <1>2
  <2>7. SumFunctionOnSet(h, I(T) \cup {y}) = h[y] + SumFunctionOnSet(h, I(T))
    BY <2>2, <2>3, <2>6, SumAdd
  <2>8. IsFiniteSet(I(T) \cup {y})
    BY <2>6, FS_AddElement
  <2>9. SumFunctionOnSet(h, I(T) \cup {y}) = SumFunctionOnSet(g, T \cup {x})
    BY <2>1, <2>5, <2>6, <2>7
  <2> QED
    BY <2>2, <2>8, <2>9
<1> HIDE DEF C
<1>3. A \in C
  BY <1>1, <1>2, SetInd
<1> QED
  BY <1>3 DEF C

\* A sum of one value
LEMMA SumOne ==
  ASSUME NEW g, NEW x, g[x] \in Nat
  PROVE  SumFunctionOnSet(g, {x}) = g[x]
<1>1. SumFunctionOnSet(g, {} \cup {x}) = g[x] + SumFunctionOnSet(g, {})
  BY SumAdd, FS_EmptySet
<1>2. SumFunctionOnSet(g, {}) = 0
  BY SumEmpty
<1>3. {} \cup {x} = {x}
  OBVIOUS
<1> QED
  BY <1>1, <1>2, <1>3

\* Finitely many rows, each of finitely many columns, have finitely many places.
LEMMA PairsFinite ==
  ASSUME NEW L, NEW m \in Nat, \A c \in 1 .. m : L[c] \in Nat,
         NEW E, \A e \in E : \E c \in 1 .. m : \E u \in 1 .. L[c] : e = <<c, u>>
  PROVE  IsFiniteSet(E)
<1> DEFINE U(k) == {e \in E : \E c \in 1 .. k : \E u \in 1 .. L[c] : e = <<c, u>>}
           P == {k \in Nat : k <= m => IsFiniteSet(U(k))}
<1>1. 0 \in P
  <2>1. U(0) = {}
    OBVIOUS
  <2> HIDE DEF U
  <2> QED
    BY <2>1, FS_EmptySet
<1>2. ASSUME NEW k \in Nat, k \in P
      PROVE  k + 1 \in P
  <2> SUFFICES ASSUME k + 1 <= m
               PROVE  IsFiniteSet(U(k + 1))
    OBVIOUS
  <2>1. PICK q, l : q = k + 1 /\ q \in 1 .. m /\ l = L[q] /\ l \in Nat
    OBVIOUS
  <2>2. IsFiniteSet(U(k))
    BY <1>2
  <2>3. IsFiniteSet({q} \X (1 .. l))
    <3>1. IsFiniteSet(1 .. l)
      BY <2>1, FS_Interval
    <3>2. IsFiniteSet({q})
      BY FS_Singleton
    <3> QED
      BY <3>1, <3>2, FS_Product
  <2>4. ASSUME NEW e \in U(q)
        PROVE  e \in U(k) \cup ({q} \X (1 .. l))
    <3>1. PICK c \in 1 .. q : \E u \in 1 .. L[c] : e = <<c, u>>
      OBVIOUS
    <3>2. c = q \/ c \in 1 .. k
      BY <2>1
    <3>3. CASE c = q
      BY <2>1, <3>1, <3>3
    <3>4. CASE c \in 1 .. k
      BY <3>1, <3>4
    <3> QED
      BY <3>2, <3>3, <3>4
  <2> HIDE DEF U
  <2>5. IsFiniteSet(U(k) \cup ({q} \X (1 .. l)))
    BY <2>2, <2>3, FS_Union
  <2>6. IsFiniteSet(U(q))
    BY <2>4, <2>5, FS_Subset
  <2> QED
    BY <2>1, <2>6
<1> HIDE DEF P
<1>3. Nat \subseteq P
  BY <1>1, <1>2, NatInd
<1>4. IsFiniteSet(U(m))
  BY <1>3 DEF P
<1>5. U(m) = E
  OBVIOUS
<1> QED
  BY <1>4, <1>5

-----------------------------------------------------------------------------
(* Sequences behind one another *)

\* A sequence over a set is one over a larger set.
LEMMA WiderSeq ==
  ASSUME NEW A, NEW B, A \subseteq B, NEW d \in Seq(A)
  PROVE  d \in Seq(B)
<1>1. PICK l : l = Len(d) /\ l \in Nat
  OBVIOUS
<1>2. d \in [1 .. l -> A]
  BY <1>1
<1>3. d \in [1 .. l -> B]
  BY <1>2
<1> QED
  BY <1>1, <1>3

\* The function that FlattenSeq defines, up to n
IsFlat(h, ss, n) == h = [m \in 1 .. n |-> IF m = 1 THEN ss[m] ELSE h[m - 1] \o ss[m]]
TheFlat(ss) == CHOOSE h : IsFlat(h, ss, Len(ss))

\* The definition of FlattenSeq, in these words
LEMMA FlatUnfold ==
  ASSUME NEW ss, Len(ss) # 0
  PROVE  FlattenSeq(ss) = TheFlat(ss)[Len(ss)]
BY DEF FlattenSeq, TheFlat, IsFlat

\* It exists.
LEMMA FlatExists ==
  ASSUME NEW ss, Len(ss) \in Nat
  PROVE  IsFlat(TheFlat(ss), ss, Len(ss))
<1> DEFINE P == {n \in Nat : \E h : IsFlat(h, ss, n)}
<1>1. 0 \in P
  <2>1. IsFlat([m \in 1 .. 0 |-> 0], ss, 0)
    BY DEF IsFlat
  <2> QED
    BY <2>1
<1>2. ASSUME NEW n \in Nat, n \in P
      PROVE  n + 1 \in P
  <2>1. PICK h : IsFlat(h, ss, n)
    BY <1>2
  <2> DEFINE last == IF n = 0 THEN ss[1] ELSE h[n] \o ss[n + 1]
             g == [m \in 1 .. n + 1 |-> IF m = n + 1 THEN last ELSE h[m]]
  <2>2. \A m \in 1 .. n : h[m] = IF m = 1 THEN ss[m] ELSE h[m - 1] \o ss[m]
    BY <2>1 DEF IsFlat
  <2>3. ASSUME NEW m \in 1 .. n + 1
        PROVE  g[m] = IF m = 1 THEN ss[m] ELSE g[m - 1] \o ss[m]
    <3>1. CASE m = n + 1
      <4>1. g[m] = last
        BY <3>1
      <4>2. n # 0 => g[m - 1] = h[n]
        BY <3>1
      <4> QED
        BY <3>1, <4>1, <4>2
    <3>2. CASE m # n + 1
      <4>1. m \in 1 .. n /\ g[m] = h[m]
        BY <3>2
      <4>2. m # 1 => m - 1 \in 1 .. n + 1 /\ m - 1 # n + 1 /\ g[m - 1] = h[m - 1]
        BY <3>2
      <4> QED
        BY <2>2, <4>1, <4>2
    <3> QED
      BY <3>1, <3>2
  <2>4. IsFlat(g, ss, n + 1)
    <3> HIDE DEF last
    <3>1. g = [m \in 1 .. n + 1 |-> g[m]]
      OBVIOUS
    <3> HIDE DEF g
    <3> QED
      BY <2>3, <3>1 DEF IsFlat
  <2> HIDE DEF g, last
  <2> QED
    BY <2>4
<1>3. Len(ss) \in P
  <2> HIDE DEF P
  <2> QED
    BY <1>1, <1>2, NatInd
<1> QED
  BY <1>3 DEF TheFlat

\* off[n] is the length of the first n - 1 of the sequences ss.
IsOffsets(ss, off) ==
  /\ off \in [1 .. Len(ss) + 1 -> Nat]
  /\ off[1] = 0
  /\ \A n \in 1 .. Len(ss) : off[n + 1] = off[n] + Len(ss[n])

\* There are such lengths.
LEMMA OffsetsExist ==
  ASSUME NEW ss, Len(ss) \in Nat, \A n \in 1 .. Len(ss) : Len(ss[n]) \in Nat
  PROVE  \E off : IsOffsets(ss, off)
<1> DEFINE N == Len(ss)
           Q(off, n) == /\ off \in [1 .. n + 1 -> Nat] /\ off[1] = 0
                        /\ \A m \in 1 .. n : off[m + 1] = off[m] + Len(ss[m])
           P == {n \in Nat : n <= N => \E off : Q(off, n)}
<1>1. 0 \in P
  <2>1. Q([m \in 1 .. 0 + 1 |-> 0], 0)
    OBVIOUS
  <2> QED
    BY <2>1
<1>2. ASSUME NEW n \in Nat, n \in P
      PROVE  n + 1 \in P
  <2> SUFFICES ASSUME n + 1 <= N
               PROVE  \E off : Q(off, n + 1)
    OBVIOUS
  <2>1. PICK h : Q(h, n)
    BY <1>2
  <2>2. n + 1 \in 1 .. N /\ h[n + 1] \in Nat /\ Len(ss[n + 1]) \in Nat
    BY <2>1
  <2> DEFINE g == [m \in 1 .. (n + 1) + 1 |-> IF m = n + 2 THEN h[n + 1] + Len(ss[n + 1]) ELSE h[m]]
  <2>3. g \in [1 .. (n + 1) + 1 -> Nat]
    BY <2>1, <2>2
  <2>4. g[1] = 0 /\ \A m \in 1 .. n + 1 : g[m] = h[m]
    BY <2>1
  <2>5. g[n + 2] = g[n + 1] + Len(ss[n + 1])
    BY <2>4
  <2>6. \A m \in 1 .. n : g[m + 1] = g[m] + Len(ss[m])
    BY <2>1, <2>4
  <2>7. Q(g, n + 1)
    <3> HIDE DEF g
    <3>1. \A m \in 1 .. n + 1 : m = n + 1 \/ m \in 1 .. n
      OBVIOUS
    <3>2. \A m \in 1 .. n + 1 : g[m + 1] = g[m] + Len(ss[m])
      BY <2>5, <2>6, <3>1
    <3> QED
      BY <2>3, <2>4, <3>2
  <2> HIDE DEF g, Q
  <2> QED
    BY <2>7
<1>3. N \in P
  <2> HIDE DEF P
  <2> QED
    BY <1>1, <1>2, NatInd
<1> QED
  BY <1>3 DEF IsOffsets

\* r is a, of length o, with b behind it.
Joined(r, a, b, o) ==
  /\ Len(r) = o + Len(b)
  /\ \A x \in 1 .. o : r[x] = a[x]
  /\ \A x \in 1 .. Len(b) : r[o + x] = b[x]

\* \o joins two sequences.
LEMMA ConcatAt ==
  ASSUME NEW S, NEW a \in Seq(S), NEW b \in Seq(S), NEW o \in Nat, Len(a) = o
  PROVE  a \o b \in Seq(S) /\ Joined(a \o b, a, b, o)
<1>1. Len(b) \in Nat
  OBVIOUS
<1>2. \A x \in 1 .. o + Len(b) : (a \o b)[x] = IF x <= o THEN a[x] ELSE b[x - o]
  BY ConcatProperties
<1>3. a \o b \in Seq(S) /\ Len(a \o b) = o + Len(b)
  BY ConcatProperties
<1>4. ASSUME NEW l, l = Len(b)
      PROVE  /\ \A x \in 1 .. o : x \in 1 .. o + l /\ x <= o
             /\ \A x \in 1 .. l : o + x \in 1 .. o + l /\ ~(o + x <= o) /\ (o + x) - o = x
  BY <1>1, <1>4
<1>5. \A x \in 1 .. o : (a \o b)[x] = a[x]
  BY <1>2, <1>4
<1>6. \A x \in 1 .. Len(b) : (a \o b)[o + x] = b[x]
  BY <1>2, <1>4
<1> QED
  BY <1>3, <1>5, <1>6 DEF Joined

\* The sequences behind one another, as the function that FlattenSeq defines
\* has them
HasAll(r, ss, off, n) ==
  \A m \in 1 .. n : /\ off[m + 1] <= off[n + 1]
                    /\ \A x \in 1 .. Len(ss[m]) : r[off[m] + x] = ss[m][x]

\* The function that FlattenSeq defines has that, by induction on its argument.
LEMMA FlatAt ==
  ASSUME NEW S, NEW N \in Nat, NEW ss, \A n \in 1 .. N : ss[n] \in Seq(S),
         NEW off, \A n \in 1 .. N : off[n] \in Nat /\ off[n + 1] = off[n] + Len(ss[n]),
         off[1] = 0, NEW h, IsFlat(h, ss, N), NEW k \in 1 .. N
  PROVE  h[k] \in Seq(S) /\ Len(h[k]) = off[k + 1] /\ HasAll(h[k], ss, off, k)
<1> DEFINE Q(n) == h[n] \in Seq(S) /\ Len(h[n]) = off[n + 1] /\ HasAll(h[n], ss, off, n)
           P == {n \in Nat : n + 1 <= N => Q(n + 1)}
<1>1. \A n \in 1 .. N : /\ Len(ss[n]) \in Nat /\ off[n + 1] \in Nat
  OBVIOUS
<1>2. \A n \in 1 .. N : h[n] = IF n = 1 THEN ss[n] ELSE h[n - 1] \o ss[n]
  BY DEF IsFlat
<1>3. 0 \in P
  <2> SUFFICES ASSUME 1 <= N PROVE Q(1)
    OBVIOUS
  <2>1. h[1] = ss[1] /\ 1 \in 1 .. N
    BY <1>2
  <2>2. off[1 + 1] = Len(ss[1]) /\ Len(ss[1]) \in Nat
    BY <1>1, <2>1
  <2>3. HasAll(h[1], ss, off, 1)
    <3>1. \A m \in 1 .. 1 : m = 1
      OBVIOUS
    <3>2. \A x \in 1 .. Len(ss[1]) : off[1] + x = x
      OBVIOUS
    <3>3. off[1 + 1] <= off[1 + 1]
      BY <2>2
    <3> QED
      BY <2>1, <3>1, <3>2, <3>3 DEF HasAll
  <2> QED
    BY <2>1, <2>2, <2>3
<1>4. ASSUME NEW n \in Nat, n \in P
      PROVE  n + 1 \in P
  <2> SUFFICES ASSUME NEW m, m = n + 1, m + 1 <= N
               PROVE  Q(m + 1)
    OBVIOUS
  <2>0. m \in 1 .. N /\ m + 1 \in 1 .. N /\ m + 1 # 1 /\ (m + 1) - 1 = m /\ m <= N
    OBVIOUS
  <2>1. Q(m)
    BY <1>4, <2>0
  <2>2. h[m + 1] = h[m] \o ss[m + 1]
    BY <1>2, <2>0
  <2>3. off[m + 1] \in Nat /\ off[(m + 1) + 1] = off[m + 1] + Len(ss[m + 1]) /\ Len(ss[m + 1]) \in Nat
    BY <1>1, <2>0
  <2>4. /\ h[m + 1] \in Seq(S) /\ Len(h[m + 1]) = off[m + 1] + Len(ss[m + 1])
        /\ \A x \in 1 .. off[m + 1] : h[m + 1][x] = h[m][x]
        /\ \A x \in 1 .. Len(ss[m + 1]) : h[m + 1][off[m + 1] + x] = ss[m + 1][x]
    <3>1. h[m] \in Seq(S) /\ ss[m + 1] \in Seq(S) /\ Len(h[m]) = off[m + 1]
      BY <2>0, <2>1
    <3>2. PICK a, b, o : a = h[m] /\ b = ss[m + 1] /\ o = off[m + 1]
      OBVIOUS
    <3>3. /\ a \o b \in Seq(S) /\ Len(a \o b) = o + Len(b)
          /\ \A x \in 1 .. o : (a \o b)[x] = a[x]
          /\ \A x \in 1 .. Len(b) : (a \o b)[o + x] = b[x]
      <4>1. a \in Seq(S) /\ b \in Seq(S) /\ o \in Nat /\ Len(a) = o
        BY <2>3, <3>1, <3>2
      <4>2. a \o b \in Seq(S) /\ Joined(a \o b, a, b, o)
        BY <4>1, ConcatAt
      <4> QED
        BY <4>2, Zenon DEF Joined
    <3>4. h[m + 1] = a \o b
      BY <2>2, <3>2, Zenon
    <3>5. o + Len(b) = off[m + 1] + Len(ss[m + 1])
      BY <3>2, Zenon
    <3>6. \A x \in 1 .. o : h[m + 1][x] = a[x]
      BY <3>3, <3>4, Zenon
    <3>7. \A x \in 1 .. Len(b) : h[m + 1][o + x] = b[x]
      BY <3>3, <3>4, Zenon
    <3>8. h[m + 1] \in Seq(S) /\ Len(h[m + 1]) = off[m + 1] + Len(ss[m + 1])
      BY <3>3, <3>4, <3>5, Zenon
    <3>9. \A x \in 1 .. off[m + 1] : h[m + 1][x] = h[m][x]
      BY <3>2, <3>6, Zenon
    <3>10. \A x \in 1 .. Len(ss[m + 1]) : h[m + 1][off[m + 1] + x] = ss[m + 1][x]
      BY <3>2, <3>7, Zenon
    <3> QED
      BY <3>8, <3>9, <3>10, Zenon
  <2>5. ASSUME NEW u \in 1 .. m + 1
        PROVE  /\ off[u + 1] <= off[(m + 1) + 1]
               /\ \A x \in 1 .. Len(ss[u]) : h[m + 1][off[u] + x] = ss[u][x]
    <3>1. CASE u = m + 1
      BY <2>3, <2>4, <3>1
    <3>2. CASE u # m + 1
      <4>1. u \in 1 .. m /\ u \in 1 .. N
        BY <2>0, <3>2
      <4>2. off[u + 1] <= off[m + 1] /\ \A x \in 1 .. Len(ss[u]) : h[m][off[u] + x] = ss[u][x]
        BY <2>1, <4>1 DEF HasAll
      <4>3. off[u] \in Nat /\ Len(ss[u]) \in Nat /\ off[u + 1] = off[u] + Len(ss[u])
        BY <1>1, <4>1
      <4>4. \A x \in 1 .. Len(ss[u]) : off[u] + x \in 1 .. off[m + 1]
        <5>1. PICK a, b, c : a = off[u] /\ b = Len(ss[u]) /\ c = off[m + 1]
          OBVIOUS
        <5>2. a \in Nat /\ b \in Nat /\ c \in Nat /\ a + b <= c
          BY <2>3, <4>2, <4>3, <5>1
        <5>3. \A x \in 1 .. b : a + x \in 1 .. c
          BY <5>2
        <5> QED
          BY <5>1, <5>3
      <4>5. off[u + 1] <= off[(m + 1) + 1]
        BY <2>3, <4>2, <4>3
      <4> QED
        BY <2>4, <4>2, <4>4, <4>5
    <3> QED
      BY <3>1, <3>2
  <2>6. HasAll(h[m + 1], ss, off, m + 1)
    BY <2>5 DEF HasAll
  <2> QED
    BY <2>3, <2>4, <2>6
<1>5. Nat \subseteq P
  <2> HIDE DEF P
  <2> QED
    BY <1>3, <1>4, NatInd
<1>6. k - 1 \in P /\ (k - 1) + 1 = k /\ k <= N
  <2> HIDE DEF P
  <2> QED
    BY <1>5
<1>7. Q(k)
  <2> HIDE DEF Q
  <2> QED
    BY <1>6
<1> QED
  BY <1>7

\* Where the elements of FlattenSeq(ss) come from
LEMMA FlattenAt ==
  ASSUME NEW S, NEW ss \in Seq(Seq(S)), NEW off, IsOffsets(ss, off)
  PROVE  /\ FlattenSeq(ss) \in Seq(S)
         /\ Len(FlattenSeq(ss)) = off[Len(ss) + 1]
         /\ \A n \in 1 .. Len(ss) : \A x \in 1 .. Len(ss[n]) :
              FlattenSeq(ss)[off[n] + x] = ss[n][x]
<1>1. Len(ss) \in Nat
  OBVIOUS
<1>2. \A n \in 1 .. Len(ss) : ss[n] \in Seq(S)
  OBVIOUS
<1>3. off[1] = 0 /\ \A n \in 1 .. Len(ss) : off[n] \in Nat /\ off[n + 1] = off[n] + Len(ss[n])
  <2>1. \A n \in 1 .. Len(ss) : n \in 1 .. Len(ss) + 1
    BY <1>1
  <2> QED
    BY <2>1 DEF IsOffsets
<1>4. CASE Len(ss) = 0
  <2>1. FlattenSeq(ss) = ss
    BY <1>4 DEF FlattenSeq
  <2>2. ss = << >>
    BY <1>4
  <2>3. FlattenSeq(ss) \in Seq(S) /\ Len(FlattenSeq(ss)) = off[Len(ss) + 1] /\ 1 .. Len(ss) = {}
    BY <1>3, <1>4, <2>1, <2>2
  <2> QED
    BY <2>3
<1>5. CASE Len(ss) # 0
  <2>1. Len(ss) \in 1 .. Len(ss)
    BY <1>1, <1>5
  <2>2. PICK r : r = TheFlat(ss)[Len(ss)]
    OBVIOUS
  <2>3. r \in Seq(S) /\ Len(r) = off[Len(ss) + 1] /\ HasAll(r, ss, off, Len(ss))
    <3>1. PICK h : h = TheFlat(ss) /\ IsFlat(h, ss, Len(ss))
      BY <1>1, FlatExists
    <3>2. r = h[Len(ss)]
      BY <2>2, <3>1
    <3>3. PICK N : N = Len(ss)
      OBVIOUS
    <3>4. /\ N \in Nat /\ (\A n \in 1 .. N : ss[n] \in Seq(S)) /\ off[1] = 0
          /\ \A n \in 1 .. N : off[n] \in Nat /\ off[n + 1] = off[n] + Len(ss[n])
          /\ IsFlat(h, ss, N) /\ N \in 1 .. N
      BY <1>1, <1>2, <1>3, <2>1, <3>1, <3>3, Zenon
    <3>5. h[N] \in Seq(S) /\ Len(h[N]) = off[N + 1] /\ HasAll(h[N], ss, off, N)
      BY <3>4, FlatAt, Zenon
    <3> QED
      BY <3>2, <3>3, <3>5
  <2>4. FlattenSeq(ss) = r
    BY <1>5, <2>2, FlatUnfold
  <2> QED
    BY <2>3, <2>4 DEF HasAll
<1> QED
  BY <1>4, <1>5

\* Every place in FlattenSeq(ss) is one of them.
LEMMA FlattenCovers ==
  ASSUME NEW ss, Len(ss) \in Nat, \A n \in 1 .. Len(ss) : Len(ss[n]) \in Nat,
         NEW off, IsOffsets(ss, off), NEW c \in 1 .. off[Len(ss) + 1]
  PROVE  \E n \in 1 .. Len(ss) : \E x \in 1 .. Len(ss[n]) : c = off[n] + x
<1> DEFINE N == Len(ss)
           Found(n) == \E m \in 1 .. N : \E x \in 1 .. Len(ss[m]) : c = off[m] + x
           P == {n \in Nat : n <= N /\ c <= off[n + 1] => Found(n)}
<1>0. \A n \in 1 .. N : n \in 1 .. N + 1
  OBVIOUS
<1>1. \A n \in 1 .. N : off[n] \in Nat /\ off[n + 1] = off[n] + Len(ss[n])
  BY <1>0 DEF IsOffsets
<1>2. off[1] = 0 /\ off[N + 1] \in Nat /\ c \in Nat /\ c >= 1 /\ c <= off[N + 1]
  BY DEF IsOffsets
<1>3. 0 \in P
  BY <1>2
<1>4. ASSUME NEW n \in Nat, n \in P
      PROVE  n + 1 \in P
  <2> SUFFICES ASSUME n + 1 <= N, c <= off[(n + 1) + 1]
               PROVE  Found(n + 1)
    OBVIOUS
  <2>1. n + 1 \in 1 .. N /\ n <= N
    OBVIOUS
  <2>2. CASE c <= off[n + 1]
    BY <1>4, <2>1, <2>2
  <2>3. CASE ~(c <= off[n + 1])
    <3>1. off[n + 1] \in Nat /\ Len(ss[n + 1]) \in Nat /\ c <= off[n + 1] + Len(ss[n + 1])
      BY <1>1, <2>1
    <3>2. c - off[n + 1] \in 1 .. Len(ss[n + 1]) /\ c = off[n + 1] + (c - off[n + 1])
      BY <1>2, <2>3, <3>1
    <3> QED
      BY <2>1, <3>2
  <2> QED
    BY <2>2, <2>3
<1>5. N \in P
  <2> HIDE DEF P
  <2> QED
    BY <1>3, <1>4, NatInd
<1> QED
  BY <1>2, <1>5

\* What is in a sequence is before the next.
LEMMA OffsetInside ==
  ASSUME NEW ss, Len(ss) \in Nat, \A n \in 1 .. Len(ss) : Len(ss[n]) \in Nat,
         NEW off, IsOffsets(ss, off), NEW n \in 1 .. Len(ss), NEW x \in 1 .. Len(ss[n])
  PROVE  off[n] + x \in 1 .. off[Len(ss) + 1]
<1> DEFINE P == {d \in Nat : n + d <= Len(ss) => off[n] + x <= off[(n + d) + 1]}
<1>0. \A m \in 1 .. Len(ss) : off[m] \in Nat /\ off[m + 1] = off[m] + Len(ss[m]) /\ off[m + 1] \in Nat
  <2>1. \A m \in 1 .. Len(ss) : m \in 1 .. Len(ss) + 1 /\ m + 1 \in 1 .. Len(ss) + 1
    OBVIOUS
  <2> QED
    BY <2>1 DEF IsOffsets
<1>1. 0 \in P
  <2>1. PICK a, b : a = off[n] /\ b = Len(ss[n])
    OBVIOUS
  <2>2. a \in Nat /\ b \in Nat /\ off[n + 1] = a + b /\ x \in 1 .. b
    BY <1>0, <2>1
  <2>3. a + x <= off[n + 1]
    BY <2>2
  <2> QED
    BY <2>1, <2>3
<1>2. ASSUME NEW d \in Nat, d \in P
      PROVE  d + 1 \in P
  <2> SUFFICES ASSUME n + (d + 1) <= Len(ss)
               PROVE  off[n] + x <= off[(n + (d + 1)) + 1]
    OBVIOUS
  <2>1. PICK m : m = n + (d + 1)
    OBVIOUS
  <2>2. m \in 1 .. Len(ss) /\ (n + d) + 1 = m /\ n + d <= Len(ss)
    BY <2>1
  <2>3. off[n] + x <= off[m]
    BY <1>2, <2>2
  <2>4. PICK a, b, c : a = off[m] /\ b = Len(ss[m]) /\ c = off[n]
    OBVIOUS
  <2>5. a \in Nat /\ b \in Nat /\ off[m + 1] = a + b /\ c \in Nat /\ x \in Int /\ c + x <= a
    BY <1>0, <2>2, <2>3, <2>4
  <2>6. c + x <= off[m + 1]
    BY <2>5
  <2> QED
    BY <2>1, <2>4, <2>6
<1>3. Len(ss) - n \in P
  <2>1. Len(ss) - n \in Nat
    OBVIOUS
  <2> HIDE DEF P
  <2> QED
    BY <1>1, <1>2, <2>1, NatInd
<1>4. n + (Len(ss) - n) = Len(ss)
  OBVIOUS
<1>5. off[n] + x <= off[Len(ss) + 1]
  BY <1>3, <1>4
<1>6. off[n] \in Nat /\ off[Len(ss) + 1] \in Nat
  <2>1. Len(ss) + 1 \in 1 .. Len(ss) + 1
    OBVIOUS
  <2> QED
    BY <1>0, <2>1 DEF IsOffsets
<1> QED
  BY <1>5, <1>6

\* A sequence behind one element
LEMMA FrontAt ==
  ASSUME NEW S, NEW e \in S, NEW b \in Seq(S)
  PROVE  /\ <<e>> \o b \in Seq(S) /\ Len(<<e>> \o b) = 1 + Len(b)
         /\ (<<e>> \o b)[1] = e
         /\ \A x \in 1 .. Len(b) : (<<e>> \o b)[1 + x] = b[x]
<1>1. PICK d, o : d = <<e>> /\ o = 1
  OBVIOUS
<1>2. d \in Seq(S) /\ Len(d) = o /\ d[1] = e /\ o \in Nat /\ 1 \in 1 .. o
  BY <1>1
<1>3. /\ d \o b \in Seq(S) /\ Len(d \o b) = o + Len(b)
      /\ \A x \in 1 .. o : (d \o b)[x] = d[x]
      /\ \A x \in 1 .. Len(b) : (d \o b)[o + x] = b[x]
  <2> HIDE <1>1
  <2>1. d \o b \in Seq(S) /\ Joined(d \o b, d, b, o)
    BY <1>2, ConcatAt
  <2> QED
    BY <2>1, Zenon DEF Joined
<1> QED
  BY <1>1, <1>2, <1>3

\* Sequences of sequences behind one another, each with an element in front
Levels(S, N, e, A, in, out, W) ==
  /\ N \in Nat /\ W \in Seq(Seq(S)) /\ Len(W) = N
  /\ out \in [1 .. N + 1 -> Nat] /\ out[1] = 0
  /\ \A f \in 1 .. N :
       /\ e[f] \in S /\ A[f] \in Seq(Seq(S)) /\ IsOffsets(A[f], in[f])
       /\ W[f] = <<e[f]>> \o FlattenSeq(A[f])
       /\ out[f + 1] = (out[f] + 1) + in[f][Len(A[f]) + 1]

\* The elements of W[f] are behind the first out[f], and those of A[f][n] behind
\* in[f][n] more and the element in front.
LaidOut(r, N, e, A, in, out) ==
  \A f \in 1 .. N :
    /\ r[out[f] + 1] = e[f]
    /\ \A n \in 1 .. Len(A[f]) : \A x \in 1 .. Len(A[f][n]) : \A c :
         c = ((out[f] + 1) + in[f][n]) + x => r[c] = A[f][n][x]

\* Where FlattenSeq has the elements of two levels of sequences
LEMMA TwoLevels ==
  ASSUME NEW S, NEW N, NEW e, NEW A, NEW in, NEW out, NEW W, Levels(S, N, e, A, in, out, W)
  PROVE  /\ IsOffsets(W, out)
         /\ FlattenSeq(W) \in Seq(S) /\ Len(FlattenSeq(W)) = out[N + 1]
         /\ LaidOut(FlattenSeq(W), N, e, A, in, out)
<1>1. ASSUME NEW f \in 1 .. N
      PROVE  /\ W[f] \in Seq(S) /\ Len(W[f]) = 1 + in[f][Len(A[f]) + 1]
             /\ in[f][Len(A[f]) + 1] \in Nat
             /\ W[f][1] = e[f]
             /\ \A n \in 1 .. Len(A[f]) : \A x \in 1 .. Len(A[f][n]) :
                  /\ in[f][n] \in Nat /\ in[f][n] + x \in 1 .. in[f][Len(A[f]) + 1]
                  /\ W[f][1 + (in[f][n] + x)] = A[f][n][x]
  <2>1. PICK a, o : a = A[f] /\ o = in[f]
    OBVIOUS
  <2>2. a \in Seq(Seq(S)) /\ IsOffsets(a, o)
    BY <2>1 DEF Levels
  <2>3. PICK fl : fl = FlattenSeq(a)
    OBVIOUS
  <2>4. /\ fl \in Seq(S) /\ Len(fl) = o[Len(a) + 1]
        /\ \A n \in 1 .. Len(a) : \A x \in 1 .. Len(a[n]) : fl[o[n] + x] = a[n][x]
    <3>1. fl \in Seq(S) /\ Len(fl) = o[Len(a) + 1]
      BY <2>2, <2>3, FlattenAt, SMT
    <3>2. \A n \in 1 .. Len(a) : \A x \in 1 .. Len(a[n]) : fl[o[n] + x] = a[n][x]
      BY <2>2, <2>3, FlattenAt, SMT
    <3> QED
      BY <3>1, <3>2
  <2>5. PICK d : d = e[f] /\ d \in S
    BY DEF Levels
  <2>7. W[f] = <<d>> \o fl
    BY <2>1, <2>3, <2>5 DEF Levels
  <2>8. /\ W[f] \in Seq(S) /\ Len(W[f]) = 1 + Len(fl)
        /\ W[f][1] = d
        /\ \A x \in 1 .. Len(fl) : W[f][1 + x] = fl[x]
    <3>1. /\ <<d>> \o fl \in Seq(S) /\ Len(<<d>> \o fl) = 1 + Len(fl)
          /\ (<<d>> \o fl)[1] = d
          /\ \A x \in 1 .. Len(fl) : (<<d>> \o fl)[1 + x] = fl[x]
      BY <2>4, <2>5, FrontAt
    <3> QED
      BY <2>7, <3>1, Zenon
  <2>10. ASSUME NEW n \in 1 .. Len(a), NEW x \in 1 .. Len(a[n])
         PROVE  /\ o[n] \in Nat /\ o[n] + x \in 1 .. Len(fl)
                /\ W[f][1 + (o[n] + x)] = a[n][x]
    <3>1. Len(a) \in Nat /\ \A m \in 1 .. Len(a) : Len(a[m]) \in Nat
      BY <2>2
    <3>2. o[n] \in Nat
      <4>1. n \in 1 .. Len(a) + 1
        BY <3>1
      <4> QED
        BY <2>2, <4>1 DEF IsOffsets
    <3>3. o[n] + x \in 1 .. Len(fl)
      <4>1. o[n] + x \in 1 .. o[Len(a) + 1]
        BY <2>2, <3>1, OffsetInside
      <4> QED
        BY <2>4, <4>1
    <3> QED
      BY <2>4, <2>8, <3>2, <3>3
  <2>11. o[Len(a) + 1] \in Nat
    BY <2>4
  <2>12. /\ W[f] \in Seq(S) /\ Len(W[f]) = 1 + o[Len(a) + 1]
         /\ W[f][1] = e[f]
    BY <2>4, <2>5, <2>8, Zenon
  <2>13. ASSUME NEW n \in 1 .. Len(a), NEW x \in 1 .. Len(a[n])
         PROVE  /\ o[n] \in Nat /\ o[n] + x \in 1 .. o[Len(a) + 1]
                /\ W[f][1 + (o[n] + x)] = a[n][x]
    BY <2>4, <2>10, Zenon
  <2> QED
    BY <2>1, <2>11, <2>12, <2>13, Zenon
<1>3. \A f \in 1 .. N : out[f] \in Nat /\ out[f + 1] = out[f] + Len(W[f])
  <2>1. ASSUME NEW f \in 1 .. N
        PROVE  out[f] \in Nat /\ out[f + 1] = out[f] + Len(W[f])
    <3>1. PICK a, b, c : a = out[f] /\ b = in[f][Len(A[f]) + 1] /\ c = out[f + 1]
      OBVIOUS
    <3>0. N \in Nat /\ f \in 1 .. N + 1
      BY DEF Levels
    <3>2. a \in Nat /\ b \in Nat /\ c = (a + 1) + b /\ Len(W[f]) = 1 + b
      <4>1. a \in Nat /\ c = (a + 1) + b
        BY <3>0, <3>1 DEF Levels
      <4> QED
        BY <1>1, <3>1, <4>1
    <3>3. (a + 1) + b = a + (1 + b)
      BY <3>2
    <3> QED
      BY <3>1, <3>2, <3>3
  <2> QED
    BY <2>1
<1>4. IsOffsets(W, out)
  BY <1>3 DEF IsOffsets, Levels
<1>5. PICK r : r = FlattenSeq(W)
  OBVIOUS
<1>6. /\ r \in Seq(S) /\ Len(r) = out[N + 1]
      /\ \A f \in 1 .. N : \A x \in 1 .. Len(W[f]) : r[out[f] + x] = W[f][x]
  <2>1. W \in Seq(Seq(S)) /\ IsOffsets(W, out) /\ Len(W) = N
    BY <1>4 DEF Levels
  <2>2. /\ FlattenSeq(W) \in Seq(S)
        /\ Len(FlattenSeq(W)) = out[Len(W) + 1]
        /\ \A n \in 1 .. Len(W) : \A x \in 1 .. Len(W[n]) :
              FlattenSeq(W)[out[n] + x] = W[n][x]
    <3>1. FlattenSeq(W) \in Seq(S) /\ Len(FlattenSeq(W)) = out[Len(W) + 1]
      BY <2>1, FlattenAt, SMT
    <3>2. \A n \in 1 .. Len(W) : \A x \in 1 .. Len(W[n]) :
            FlattenSeq(W)[out[n] + x] = W[n][x]
      BY <2>1, FlattenAt, SMT
    <3> QED
      BY <3>1, <3>2
  <2> QED
    BY <1>5, <2>1, <2>2
<1>7. ASSUME NEW f \in 1 .. N
      PROVE  /\ r[out[f] + 1] = e[f]
             /\ \A n \in 1 .. Len(A[f]) : \A x \in 1 .. Len(A[f][n]) :
                  r[((out[f] + 1) + in[f][n]) + x] = A[f][n][x]
  <2>1. PICK b : b = in[f][Len(A[f]) + 1] /\ b \in Nat /\ Len(W[f]) = 1 + b
    BY <1>1
  <2>2. 1 \in 1 .. Len(W[f]) /\ \A y \in 1 .. b : 1 + y \in 1 .. Len(W[f])
    BY <2>1
  <2>3. r[out[f] + 1] = e[f]
    BY <1>1, <1>6, <2>2
  <2>4. ASSUME NEW n \in 1 .. Len(A[f]), NEW x \in 1 .. Len(A[f][n])
        PROVE  r[((out[f] + 1) + in[f][n]) + x] = A[f][n][x]
    <3>1. PICK y : y = in[f][n] + x
      OBVIOUS
    <3>2. in[f][n] \in Nat /\ y \in 1 .. b /\ W[f][1 + y] = A[f][n][x]
      BY <1>1, <2>1, <3>1
    <3>3. r[out[f] + (1 + y)] = A[f][n][x]
      BY <1>6, <2>2, <3>2
    <3>4. ((out[f] + 1) + in[f][n]) + x = out[f] + (1 + y)
      <4>1. PICK p, q : p = out[f] /\ q = in[f][n]
        OBVIOUS
      <4>2. p \in Nat /\ q \in Nat /\ x \in Int
        BY <1>3, <3>2, <4>1
      <4>3. ((p + 1) + q) + x = p + (1 + (q + x))
        BY <4>2
      <4> QED
        BY <3>1, <4>1, <4>3
    <3> QED
      BY <3>3, <3>4
  <2> QED
    BY <2>3, <2>4
<1>8. LaidOut(r, N, e, A, in, out)
  BY <1>7 DEF LaidOut
<1> QED
  BY <1>4, <1>5, <1>6, <1>8

\* r is l, of length L, with x put in at place p.
Inserted(r, l, L, p, x) ==
  /\ Len(r) = L + 1
  /\ \A j \in 1 .. p - 1 : r[j] = l[j]
  /\ r[p] = x
  /\ \A j \in p .. L : r[j + 1] = l[j]

\* InsertAt does that.
LEMMA InsertAtFacts ==
  ASSUME NEW S, NEW l \in Seq(S), NEW x \in S, NEW L \in Nat, Len(l) = L, NEW p \in 1 .. L + 1
  PROVE  InsertAt(l, p, x) \in Seq(S) /\ Inserted(InsertAt(l, p, x), l, L, p, x)
<1>1. PICK q, d : q = p - 1 /\ d = <<x>>
  OBVIOUS
<1>2. q \in Nat /\ p = q + 1 /\ q <= L /\ d \in Seq(S) /\ Len(d) = 1 /\ d[1] = x
  BY <1>1
<1>3. PICK a, b : a = SubSeq(l, 1, q) /\ b = SubSeq(l, p, L)
  OBVIOUS
<1>4. a \in Seq(S) /\ Len(a) = q /\ \A j \in 1 .. q : a[j] = l[j]
  BY <1>2, <1>3
<1>5. b \in Seq(S) /\ Len(b) = L - q /\ \A j \in 1 .. L - q : b[j] = l[q + j]
  <2>1. \A j \in 1 .. L - q : (p + j) - 1 = q + j
    BY <1>2
  <2> QED
    BY <1>2, <1>3, <2>1
<1>6. PICK c : c = a \o d
  OBVIOUS
<1>7. /\ c \in Seq(S) /\ Len(c) = q + 1
      /\ \A j \in 1 .. q : c[j] = a[j]
      /\ \A j \in 1 .. Len(d) : c[q + j] = d[j]
  <2>1. /\ a \o d \in Seq(S) /\ Len(a \o d) = q + Len(d)
        /\ \A j \in 1 .. q : (a \o d)[j] = a[j]
        /\ \A j \in 1 .. Len(d) : (a \o d)[q + j] = d[j]
    <3>1. a \in Seq(S) /\ d \in Seq(S) /\ q \in Nat /\ Len(a) = q
      BY <1>2, <1>4
    <3>2. a \o d \in Seq(S) /\ Joined(a \o d, a, d, q)
      BY <3>1, ConcatAt
    <3> QED
      BY <3>2, Zenon DEF Joined
  <2> QED
    BY <1>2, <1>6, <2>1
<1>8. /\ c \o b \in Seq(S) /\ Len(c \o b) = p + Len(b)
      /\ \A j \in 1 .. p : (c \o b)[j] = c[j]
      /\ \A j \in 1 .. Len(b) : (c \o b)[p + j] = b[j]
  <2>1. c \in Seq(S) /\ b \in Seq(S) /\ p \in Nat /\ Len(c) = p
    BY <1>2, <1>5, <1>7
  <2>2. c \o b \in Seq(S) /\ Joined(c \o b, c, b, p)
    BY <2>1, ConcatAt
  <2> QED
    BY <2>2, Zenon DEF Joined
<1>9. PICK r : r = c \o b
  OBVIOUS
<1>10. r \in Seq(S) /\ Len(r) = L + 1
  <2>1. p + (L - q) = L + 1
    BY <1>2
  <2>2. Len(c \o b) = p + (L - q)
    BY <1>5, <1>8
  <2> QED
    BY <1>8, <1>9, <2>1, <2>2
<1>11. \A j \in 1 .. q : r[j] = l[j]
  <2>1. \A j \in 1 .. q : j \in 1 .. p
    BY <1>2
  <2> QED
    BY <1>4, <1>7, <1>8, <1>9, <2>1
<1>12. r[p] = x
  <2>1. p \in 1 .. p /\ 1 \in 1 .. Len(d)
    BY <1>2
  <2>2. c[p] = d[1]
    BY <1>2, <1>7, <2>1
  <2> QED
    BY <1>2, <1>8, <1>9, <2>1, <2>2
<1>13. ASSUME NEW j \in p .. L
       PROVE  r[j + 1] = l[j]
  <2>1. PICK y : y = j - q /\ y \in 1 .. L - q /\ j + 1 = p + y /\ q + y = j
    BY <1>2
  <2> QED
    BY <1>5, <1>8, <1>9, <2>1
<1>14. InsertAt(l, p, x) = r
  BY <1>1, <1>3, <1>6, <1>9 DEF InsertAt
<1>15. Inserted(r, l, L, p, x)
  BY <1>1, <1>10, <1>11, <1>12, <1>13 DEF Inserted
<1> QED
  BY <1>10, <1>14, <1>15

-----------------------------------------------------------------------------
(* Words *)

\* The next number in a word, from any that has it as its value there
LEMMA ModNext ==
  ASSUME NEW a \in Nat, NEW M \in Nat \ {0}
  PROVE  ((a % M) + 1) % M = (a + 1) % M
<1>1. PICK q \in Int, r \in Int : q = (a \div M) /\ r = (a % M)
  OBVIOUS
<1>2. a = M * q + r /\ 0 <= r /\ r < M
  BY <1>1
<1>3. CASE r + 1 < M
  <2>1. (r + 1) % M = r + 1
    BY <1>2, <1>3
  <2>2. (M * q + (r + 1)) % M = r + 1
    BY <1>2, <1>3
  <2> QED
    BY <1>1, <1>2, <2>1, <2>2
<1>4. CASE r + 1 = M
  <2>1. (r + 1) % M = 0
    BY <1>4
  <2>2. (M * (q + 1)) % M = 0
    BY <1>2
  <2> QED
    BY <1>1, <1>2, <1>4, <2>1, <2>2
<1> QED
  BY <1>2, <1>3, <1>4

\* A number that fits a word keeps its value there.
LEMMA ModSmall ==
  ASSUME NEW u \in Nat, NEW x \in 0 .. u
  PROVE  (x + 0) % (u + 1) = x
<1>1. PICK M : M = u + 1 /\ M \in Nat \ {0} /\ x \in Nat /\ x < M
  OBVIOUS
<1>2. x % M = x
  BY <1>1
<1> QED
  BY <1>1, <1>2

-----------------------------------------------------------------------------
(* Lists of blocks *)

\* From place p on, l has m new blocks, and then those of g behind the first k.
Ahead(l, p, m, n, g, k) ==
  /\ Len(l) = (p - 1) + m + (Len(g) - k)
  /\ \A x \in 0 .. m - 1 : l[p + x] \notin 1 .. n
  /\ \A x \in 1 .. Len(g) - k : l[(p + m) + (x - 1)] = g[k + x]

\* The walk is at place p of l, and at successor t there, and the next counter is
\* c: at old block k of the function, or at a new block or the end when the first
\* k are done.
AtOld(l, n, g, sc, pl, k, m, p, t, c) ==
  /\ p \in 1 .. Len(l) /\ l[p] = g[k]
  /\ t \in 1 .. Len(sc[g[k]]) + 1 /\ c = pl[k] + t
  /\ Ahead(l, p + 1, m, n, g, k)

AtNew(l, n, g, pl, k, m, p, c) ==
  /\ p \in 1 .. Len(l) + 1 /\ c = pl[k + 1] + 1
  /\ Ahead(l, p, m, n, g, k)
  /\ m > 0 \/ k = Len(g)

Here(l, n, g, sc, pl, p, t, c) ==
  \E k \in 1 .. Len(g) : \E m \in Nat :
    AtOld(l, n, g, sc, pl, k, m, p, t, c) \/ AtNew(l, n, g, pl, k, m, p, c)

\* A list with the new block x put in at place p has one more new block there.
LEMMA AheadInsert ==
  ASSUME NEW S, NEW l \in Seq(S), NEW x \in S, NEW L \in Nat, Len(l) = L, NEW p \in 1 .. L + 1,
         NEW n, x \notin 1 .. n, NEW g, NEW G \in Nat, Len(g) = G, NEW k \in 1 .. G, NEW m \in Nat,
         Ahead(l, p, m, n, g, k)
  PROVE  Ahead(InsertAt(l, p, x), p, m + 1, n, g, k)
<1>1. PICK r : r = InsertAt(l, p, x)
  OBVIOUS
<1>2. /\ Len(r) = L + 1
      /\ \A j \in 1 .. p - 1 : r[j] = l[j]
      /\ r[p] = x
      /\ \A j \in p .. L : r[j + 1] = l[j]
  <2>1. Inserted(r, l, L, p, x)
    BY <1>1, InsertAtFacts
  <2> QED
    BY <2>1 DEF Inserted
<1>3. /\ L = (p - 1) + m + (G - k)
      /\ \A y \in 0 .. m - 1 : l[p + y] \notin 1 .. n
      /\ \A y \in 1 .. G - k : l[(p + m) + (y - 1)] = g[k + y]
  BY DEF Ahead
<1>4. Len(r) = (p - 1) + (m + 1) + (G - k)
  BY <1>2, <1>3
<1>5. ASSUME NEW y \in 0 .. (m + 1) - 1
      PROVE  r[p + y] \notin 1 .. n
  <2>1. CASE y = 0
    BY <1>2, <2>1
  <2>2. CASE y # 0
    <3>1. PICK z : z = y - 1 /\ z \in 0 .. m - 1 /\ p + z \in p .. L /\ p + y = (p + z) + 1
      BY <1>3, <2>2
    <3>2. r[(p + z) + 1] = l[p + z]
      BY <1>2, <3>1
    <3> QED
      BY <1>3, <3>1, <3>2
  <2> QED
    BY <2>1, <2>2
<1>6. ASSUME NEW y \in 1 .. G - k
      PROVE  r[(p + (m + 1)) + (y - 1)] = g[k + y]
  <2>1. PICK z : z = (p + m) + (y - 1) /\ z \in p .. L /\ z + 1 = (p + (m + 1)) + (y - 1)
    BY <1>3
  <2>2. r[z + 1] = l[z]
    BY <1>2, <2>1
  <2> QED
    BY <1>3, <2>1, <2>2
<1>7. Ahead(r, p, m + 1, n, g, k)
  BY <1>4, <1>5, <1>6 DEF Ahead
<1> QED
  BY <1>1, <1>7

\* One new block further
LEMMA AheadStep ==
  ASSUME NEW l, NEW n, NEW g, NEW G \in Nat, Len(g) = G, NEW k \in 1 .. G, NEW m \in Nat, m > 0,
         NEW p \in Nat, Ahead(l, p, m, n, g, k)
  PROVE  Ahead(l, p + 1, m - 1, n, g, k)
<1>1. /\ Len(l) = (p - 1) + m + (G - k)
      /\ \A y \in 0 .. m - 1 : l[p + y] \notin 1 .. n
      /\ \A y \in 1 .. G - k : l[(p + m) + (y - 1)] = g[k + y]
  BY DEF Ahead
<1>2. Len(l) = ((p + 1) - 1) + (m - 1) + (G - k)
  BY <1>1
<1>3. ASSUME NEW y \in 0 .. (m - 1) - 1
      PROVE  l[(p + 1) + y] \notin 1 .. n
  <2>1. PICK z : z = y + 1 /\ z \in 0 .. m - 1 /\ p + z = (p + 1) + y
    OBVIOUS
  <2> QED
    BY <1>1, <2>1
<1>4. ASSUME NEW y \in 1 .. G - k
      PROVE  l[((p + 1) + (m - 1)) + (y - 1)] = g[k + y]
  <2>1. ((p + 1) + (m - 1)) + (y - 1) = (p + m) + (y - 1)
    OBVIOUS
  <2> QED
    BY <1>1, <2>1
<1> QED
  BY <1>2, <1>3, <1>4 DEF Ahead

\* Where no new block is next, the next old one is.
LEMMA AheadOld ==
  ASSUME NEW l, NEW n, NEW g, NEW G \in Nat, Len(g) = G, NEW k \in 1 .. G, k # G,
         NEW p \in Nat \ {0}, Ahead(l, p, 0, n, g, k)
  PROVE  /\ p \in 1 .. Len(l) /\ l[p] = g[k + 1] /\ Ahead(l, p + 1, 0, n, g, k + 1)
<1>1. /\ Len(l) = (p - 1) + 0 + (G - k)
      /\ \A y \in 1 .. G - k : l[(p + 0) + (y - 1)] = g[k + y]
  BY DEF Ahead
<1>2. p \in 1 .. Len(l)
  BY <1>1
<1>3. l[p] = g[k + 1]
  <2>1. 1 \in 1 .. G - k /\ (p + 0) + (1 - 1) = p
    OBVIOUS
  <2> QED
    BY <1>1, <2>1
<1>4. Len(l) = ((p + 1) - 1) + 0 + (G - (k + 1))
  BY <1>1
<1>5. ASSUME NEW y \in 1 .. G - (k + 1)
      PROVE  l[((p + 1) + 0) + (y - 1)] = g[(k + 1) + y]
  <2>1. PICK z : z = y + 1 /\ z \in 1 .. G - k /\ (p + 0) + (z - 1) = ((p + 1) + 0) + (y - 1) /\ k + z = (k + 1) + y
    OBVIOUS
  <2> QED
    BY <1>1, <2>1
<1>6. Ahead(l, p + 1, 0, n, g, k + 1)
  BY <1>4, <1>5 DEF Ahead
<1> QED
  BY <1>2, <1>3, <1>6

-----------------------------------------------------------------------------
(* The walk through the list of a function *)

\* What the walk relies on: g are the blocks of the function, and pl[k] edges
\* come before those of block k.
Function(n, g, sc, pl, G) ==
  /\ n \in Nat /\ G \in Nat \ {0} /\ Len(g) = G
  /\ \A k \in 1 .. G :
       /\ g[k] \in 1 .. n /\ Len(sc[g[k]]) \in Nat
       /\ pl[k] \in Nat /\ pl[k + 1] \in Nat /\ pl[k + 1] = pl[k] + Len(sc[g[k]])

\* The walk starts at the first block, with the counter behind that of the call.
LEMMA HereStart ==
  ASSUME NEW n, NEW g, NEW sc, NEW pl, NEW G, Function(n, g, sc, pl, G), NEW c, c = pl[1] + 1
  PROVE  Here(g, n, g, sc, pl, 1, 1, c)
<1>1. G \in Nat \ {0} /\ Len(g) = G /\ 1 \in 1 .. G /\ Len(sc[g[1]]) \in Nat
  BY DEF Function
<1>2. Ahead(g, 1 + 1, 0, n, g, 1)
  <2>1. Len(g) = ((1 + 1) - 1) + 0 + (Len(g) - 1)
    BY <1>1
  <2>2. \A y \in 1 .. Len(g) - 1 : ((1 + 1) + 0) + (y - 1) = 1 + y
    OBVIOUS
  <2> QED
    BY <2>1, <2>2 DEF Ahead
<1>3. AtOld(g, n, g, sc, pl, 1, 0, 1, 1, c)
  BY <1>1, <1>2 DEF AtOld
<1> QED
  BY <1>1, <1>3 DEF Here

\* Behind a block that is done is a new one, the next old one or the end.
LEMMA Settle ==
  ASSUME NEW l, NEW n, NEW g, NEW sc, NEW pl, NEW G, Function(n, g, sc, pl, G),
         NEW k \in 1 .. G, NEW m \in Nat, NEW p \in Nat \ {0}, Ahead(l, p, m, n, g, k),
         NEW c, c = pl[k + 1] + 1
  PROVE  Here(l, n, g, sc, pl, p, 1, c)
<1>1. G \in Nat \ {0} /\ Len(g) = G
  BY DEF Function
<1>2. Len(l) = (p - 1) + m + (G - k)
  BY <1>1 DEF Ahead
<1>3. CASE m > 0 \/ k = G
  <2>1. p \in 1 .. Len(l) + 1
    <3>1. PICK L : L = Len(l)
      OBVIOUS
    <3>2. L = (p - 1) + m + (G - k)
      BY <1>2, <3>1
    <3>3. p \in 1 .. L + 1
      BY <1>1, <3>2
    <3> QED
      BY <3>1, <3>3
  <2>2. AtNew(l, n, g, pl, k, m, p, c)
    BY <1>1, <1>3, <2>1 DEF AtNew
  <2> QED
    BY <1>1, <2>2 DEF Here
<1>4. CASE m = 0 /\ k # G
  <2>1. PICK k2 : k2 = k + 1 /\ k2 \in 1 .. G
    BY <1>1, <1>4
  <2>2. p \in 1 .. Len(l) /\ l[p] = g[k + 1] /\ Ahead(l, p + 1, 0, n, g, k + 1)
    BY <1>1, <1>4, AheadOld
  <2>3. 1 \in 1 .. Len(sc[g[k2]]) + 1
    <3>1. Len(sc[g[k2]]) \in Nat
      BY <2>1, Zenon DEF Function
    <3> QED
      BY <3>1
  <2>4. AtOld(l, n, g, sc, pl, k2, 0, p, 1, c)
    BY <2>1, <2>2, <2>3 DEF AtOld
  <2> QED
    BY <1>1, <2>1, <2>4 DEF Here
<1> QED
  BY <1>3, <1>4

\* At an old block the walk is at one of its successors or behind the last.
LEMMA HereOld ==
  ASSUME NEW l, NEW n, NEW g, NEW sc, NEW pl, NEW G, Function(n, g, sc, pl, G),
         NEW p, NEW t, NEW c, Here(l, n, g, sc, pl, p, t, c), p \in 1 .. Len(l), l[p] \in 1 .. n
  PROVE  \E k \in 1 .. G : \E m \in Nat : AtOld(l, n, g, sc, pl, k, m, p, t, c)
<1>1. G \in Nat \ {0} /\ Len(g) = G
  BY DEF Function
<1>2. PICK k \in 1 .. G, m \in Nat : AtOld(l, n, g, sc, pl, k, m, p, t, c) \/ AtNew(l, n, g, pl, k, m, p, c)
  BY <1>1 DEF Here
<1>3. ASSUME AtNew(l, n, g, pl, k, m, p, c)
      PROVE  FALSE
  <2>1. /\ Len(l) = (p - 1) + m + (G - k)
        /\ \A x \in 0 .. m - 1 : l[p + x] \notin 1 .. n
        /\ m > 0 \/ k = G
    BY <1>1, <1>3 DEF AtNew, Ahead
  <2>2. p \in Nat
    BY <1>3, <2>1
  <2>3. CASE m > 0
    <3>1. 0 \in 0 .. m - 1 /\ p + 0 = p
      BY <2>2, <2>3
    <3> QED
      BY <2>1, <3>1
  <2>4. CASE m = 0 /\ k = G
    BY <2>1, <2>2, <2>4
  <2> QED
    BY <2>1, <2>3, <2>4
<1> QED
  BY <1>2, <1>3

\* Past an edge, which was split or not, the walk is at the next, with the next
\* counter.
LEMMA HereEdge ==
  ASSUME NEW l, NEW n, NEW g, NEW sc, NEW pl, NEW G, Function(n, g, sc, pl, G),
         NEW k \in 1 .. G, NEW m \in Nat, NEW p, NEW t, NEW c,
         AtOld(l, n, g, sc, pl, k, m, p, t, c), t <= Len(sc[g[k]])
  PROVE  /\ Here(l, n, g, sc, pl, p, t + 1, c + 1)
         /\ \A S, x : l \in Seq(S) /\ x \in S /\ x \notin 1 .. n =>
              Here(InsertAt(l, p + 1, x), n, g, sc, pl, p, t + 1, c + 1)
<1>1. G \in Nat \ {0} /\ Len(g) = G /\ Len(sc[g[k]]) \in Nat /\ pl[k] \in Nat
  BY DEF Function
<1>2. /\ p \in 1 .. Len(l) /\ l[p] = g[k]
      /\ t \in 1 .. Len(sc[g[k]]) + 1 /\ c = pl[k] + t
      /\ Ahead(l, p + 1, m, n, g, k)
  BY DEF AtOld
<1>3. t + 1 \in 1 .. Len(sc[g[k]]) + 1 /\ c + 1 = pl[k] + (t + 1)
  <2>1. PICK a, b : a = Len(sc[g[k]]) /\ b = pl[k]
    OBVIOUS
  <2>2. a \in Nat /\ b \in Nat /\ t \in 1 .. a + 1 /\ t <= a /\ c = b + t
    BY <1>1, <1>2, <2>1
  <2>3. t + 1 \in 1 .. a + 1 /\ c + 1 = b + (t + 1)
    BY <2>2
  <2> QED
    BY <2>1, <2>3
<1>4. AtOld(l, n, g, sc, pl, k, m, p, t + 1, c + 1)
  BY <1>2, <1>3 DEF AtOld
<1>5. Here(l, n, g, sc, pl, p, t + 1, c + 1)
  BY <1>1, <1>4 DEF Here
<1>6. ASSUME NEW S, NEW x, l \in Seq(S), x \in S, x \notin 1 .. n
      PROVE  Here(InsertAt(l, p + 1, x), n, g, sc, pl, p, t + 1, c + 1)
  <2>1. PICK r, q, L : r = InsertAt(l, p + 1, x) /\ q = p + 1 /\ L = Len(l)
    OBVIOUS
  <2>2. L \in Nat /\ q \in 1 .. L + 1 /\ p \in 1 .. q - 1 /\ Ahead(l, q, m, n, g, k)
    BY <1>2, <1>6, <2>1
  <2>8. l \in Seq(S) /\ x \in S /\ L \in Nat /\ Len(l) = L /\ q \in 1 .. L + 1 /\ r = InsertAt(l, q, x)
    BY <1>6, <2>1, <2>2
  <2>3. Inserted(r, l, L, q, x)
    BY <2>8, InsertAtFacts
  <2>4. Len(r) = L + 1 /\ \A j \in 1 .. q - 1 : r[j] = l[j]
    BY <2>3 DEF Inserted
  <2>5. Ahead(r, q, m + 1, n, g, k)
    <3>1. G \in Nat /\ Len(g) = G /\ x \notin 1 .. n /\ Ahead(l, q, m, n, g, k)
      BY <1>1, <1>6, <2>2
    <3>2. Ahead(InsertAt(l, q, x), q, m + 1, n, g, k)
      BY <2>8, <3>1, AheadInsert, Zenon
    <3> QED
      BY <2>8, <3>2, Zenon
  <2>6. m + 1 \in Nat /\ p \in 1 .. Len(r) /\ r[p] = g[k]
    BY <1>2, <2>1, <2>2, <2>4
  <2>7. AtOld(r, n, g, sc, pl, k, m + 1, p, t + 1, c + 1)
    BY <1>3, <2>1, <2>5, <2>6 DEF AtOld
  <2> QED
    BY <1>1, <2>1, <2>6, <2>7 DEF Here
<1> QED
  BY <1>5, <1>6

\* From a new block, or behind the last edge of an old one, it goes to the next.
LEMMA HereNext ==
  ASSUME NEW l, NEW n, NEW g, NEW sc, NEW pl, NEW G, Function(n, g, sc, pl, G),
         NEW p, NEW t, NEW c, Here(l, n, g, sc, pl, p, t, c), p <= Len(l),
         l[p] \in 1 .. n => t > Len(sc[l[p]])
  PROVE  Here(l, n, g, sc, pl, p + 1, 1, c)
<1>1. G \in Nat \ {0} /\ Len(g) = G
  BY DEF Function
<1>2. PICK k \in 1 .. G, m \in Nat : AtOld(l, n, g, sc, pl, k, m, p, t, c) \/ AtNew(l, n, g, pl, k, m, p, c)
  BY <1>1 DEF Here
<1>0. g[k] \in 1 .. n /\ Len(sc[g[k]]) \in Nat /\ pl[k] \in Nat /\ pl[k + 1] = pl[k] + Len(sc[g[k]])
  BY DEF Function
<1>3. CASE AtOld(l, n, g, sc, pl, k, m, p, t, c)
  <2>1. PICK a, b : a = Len(sc[g[k]]) /\ b = pl[k]
    OBVIOUS
  <2>2. /\ p \in 1 .. Len(l) /\ l[p] = g[k]
        /\ t \in 1 .. a + 1 /\ c = b + t
        /\ Ahead(l, p + 1, m, n, g, k)
    BY <1>3, <2>1 DEF AtOld
  <2>3. t > a
    BY <1>0, <2>1, <2>2
  <2>4. a \in Nat /\ b \in Nat /\ pl[k + 1] = b + a
    BY <1>0, <2>1
  <2>5. c = (b + a) + 1
    BY <2>2, <2>3, <2>4
  <2>6. c = pl[k + 1] + 1 /\ p + 1 \in Nat \ {0}
    BY <2>2, <2>4, <2>5
  <2> QED
    BY <2>2, <2>6, Settle
<1>4. CASE AtNew(l, n, g, pl, k, m, p, c)
  <2>1. /\ p \in 1 .. Len(l) + 1 /\ c = pl[k + 1] + 1
        /\ Ahead(l, p, m, n, g, k)
        /\ m > 0 \/ k = G
    BY <1>1, <1>4 DEF AtNew
  <2>2. Len(l) = (p - 1) + m + (G - k) /\ p \in Nat
    BY <1>1, <2>1 DEF Ahead
  <2>3. m > 0
    BY <2>1, <2>2
  <2>4. Ahead(l, p + 1, m - 1, n, g, k)
    BY <1>1, <2>1, <2>2, <2>3, AheadStep
  <2>5. m - 1 \in Nat /\ p + 1 \in Nat \ {0}
    BY <2>2, <2>3
  <2> QED
    BY <2>1, <2>4, <2>5, Settle
<1> QED
  BY <1>2, <1>3, <1>4

\* At the end of the list all counters of the function are used.
LEMMA HereEnd ==
  ASSUME NEW l, NEW n, NEW g, NEW sc, NEW pl, NEW G, Function(n, g, sc, pl, G),
         NEW p, NEW t, NEW c, Here(l, n, g, sc, pl, p, t, c), p > Len(l), Len(l) \in Nat
  PROVE  c = pl[G + 1] + 1
<1>1. G \in Nat \ {0} /\ Len(g) = G
  BY DEF Function
<1>2. PICK k \in 1 .. G, m \in Nat : AtOld(l, n, g, sc, pl, k, m, p, t, c) \/ AtNew(l, n, g, pl, k, m, p, c)
  BY <1>1 DEF Here
<1>3. ~AtOld(l, n, g, sc, pl, k, m, p, t, c)
  BY DEF AtOld
<1>4. /\ p \in 1 .. Len(l) + 1 /\ c = pl[k + 1] + 1
      /\ Len(l) = (p - 1) + m + (G - k)
  BY <1>1, <1>2, <1>3 DEF AtNew, Ahead
<1>5. k = G
  BY <1>1, <1>4
<1> QED
  BY <1>4, <1>5
=============================================================================
