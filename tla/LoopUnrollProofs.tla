-------------------------- MODULE LoopUnrollProofs --------------------------
(***************************************************************************)
(* Proofs about LoopUnroll: what the passes leave behind is a program with *)
(* no dangling branch (TypeOK), that runs the body as often as the loop    *)
(* did (RunsOriginal), with as many copies as the profile asks for         *)
(* (EnoughCopies).                                                         *)
(*                                                                         *)
(* The inductive invariant says what the code looks like at every step of  *)
(* the passes (CodeShape), and where the program is in it, as a relation   *)
(* between the block and the number of bodies run (Position).              *)
(***************************************************************************)
EXTENDS LoopUnroll, TLAPS, FiniteSetTheorems, WellFoundedInduction

-----------------------------------------------------------------------------
(* The inductive invariant *)

\* The four sorts of blocks: a jump without and with a body, a body and a
\* latch that goes to b or leaves the loop, and a test.
Go(b)             == Jump(FALSE, b)
Run(b)            == Jump(TRUE, b)
Latch(b)          == Block(TRUE, "latch", b, Exit)
Guard(test, b, c) == Block(FALSE, test, b, c)

Bodies(factor) == {Body(k) : k \in 0 .. factor - 1}

\* The loop before any copy is made
IsOriginal(blocks) ==
  /\ DOMAIN blocks = {Enter, Body(0)}
  /\ blocks[Enter] = Go(Body(0))
  /\ blocks[Body(0)] = Latch(Body(0))

\* The prolog, when the copies down to the one for i + 1 are made: each runs
\* into the next, and the comparisons find the one to start with.
PrologBlocks(factor, i) ==
  {Enter, PEnd} \cup {Extra(k) : k \in i + 1 .. factor - 1}
                \cup {Compare(k) : k \in i + 1 .. factor - 2}

FirstCompare(factor, i) ==
  IF i = factor - 1 THEN PEnd
  ELSE IF i = factor - 2 THEN Extra(factor - 1) ELSE Compare(i + 1)

NextCopy(i, k) == IF k = i + 1 THEN PEnd ELSE Extra(k - 1)

IsProlog(blocks, factor, i) ==
  /\ blocks[Enter] = Guard("extra", FirstCompare(factor, i), PEnd)
  /\ \A k \in i + 1 .. factor - 1 : blocks[Extra(k)] = Run(NextCopy(i, k))
  /\ \A k \in i + 1 .. factor - 2 :
       blocks[Compare(k)] = Guard("equal", Extra(k), FirstCompare(factor, k))

\* The prolog behind which the loop still is as it was; PEnd ends in last.
IsPrologOf(blocks, factor, i, last) ==
  /\ DOMAIN blocks = PrologBlocks(factor, i) \cup {Body(0)}
  /\ IsProlog(blocks, factor, i)
  /\ blocks[PEnd] = last
  /\ blocks[Body(0)] = Latch(Body(0))

\* A copy of the body as ConnectLatch leaves it
Connected(mode, factor, k) ==
  IF k = factor - 1
  THEN IF mode = "latchComplete" THEN Run(Exit) ELSE Latch(Body(0))
  ELSE IF mode = "latchUnroll" THEN Latch(Body(k + 1)) ELSE Run(Body(k + 1))

EntryBlocks(mode, factor) ==
  IF mode = "latchRuntime" THEN PrologBlocks(factor, 0) ELSE {Enter}

\* A loop whose copies are made, and the latches of the first i connected
IsUnrolled(blocks, mode, factor, i) ==
  /\ DOMAIN blocks = EntryBlocks(mode, factor) \cup Bodies(factor)
  /\ IF mode = "latchRuntime"
     THEN IsProlog(blocks, factor, 0) /\ blocks[PEnd] = Guard("short", Exit, Body(0))
     ELSE blocks[Enter] = Go(Body(0))
  /\ \A k \in 0 .. factor - 1 :
       blocks[Body(k)] = IF k < i THEN Connected(mode, factor, k) ELSE Latch(Body(k))

Modes == {"latchComplete", "latchUnroll", "latchRuntime"}

\* What each way of unrolling asks of the loop and of the factor
Suits(mode) ==
  /\ count > 0
  /\ mode = "latchComplete" => count = loop.trips
  /\ mode = "latchUnroll" => count >= 2
  /\ mode = "latchRuntime" => count > 2 /\ loop.clonable /\ loop.countable

CodeShape ==
  /\ pc \in {"static", "profile", "prolog", "complete", "unroll", "trap"} => IsOriginal(code) /\ n = 0
  /\ pc = "prolog" => count > 2
  /\ pc = "complete" => Suits("latchComplete")
  /\ pc = "extra" => /\ Suits("latchRuntime") /\ n \in 0 .. count - 1
                     /\ IsPrologOf(code, count, n, Go(Body(0)))
  /\ pc = "runtime" => /\ Suits("latchRuntime")
                       /\ IsPrologOf(code, count, 0, Guard("short", Exit, Body(0)))
  /\ pc \in Modes => Suits(pc) /\ n \in 0 .. count - 1 /\ IsUnrolled(code, pc, count, n)
  /\ pc = "run" => \/ IsOriginal(code)
                   \/ \E mode \in Modes : Suits(mode) /\ IsUnrolled(code, mode, count, count)

\* At Body(0) the iterations still to be done are a multiple of the factor; on
\* the way to the next test, with those done since.
Whole(k) == \E q \in 1 .. loop.trips : loop.trips - done + k = count * q

\* Where the program can be in the original loop, and in an unrolled one
InOriginal ==
  /\ at \in {Enter, Body(0)}
  /\ at = Enter => done = 0

InBodies(mode) ==
  \E k \in 0 .. count - 1 :
    /\ at = Body(k)
    /\ mode = "latchComplete" => done = k
    /\ mode = "latchRuntime" => Whole(k)

InProlog ==
  \/ at = Enter /\ done = 0
  \/ \E k \in 1 .. count - 2 : at = Compare(k) /\ done = 0 /\ k <= ModVal
  \/ \E k \in 1 .. count - 1 : at = Extra(k) /\ done + k = ModVal
  \/ at = PEnd /\ done = ModVal

InUnrolled(mode) ==
  \/ InBodies(mode) /\ done < loop.trips
  \/ mode # "latchRuntime" /\ at = Enter /\ done = 0
  \/ mode = "latchRuntime" /\ InProlog

Running ==
  \/ at = Exit
  \/ IsOriginal(code) /\ InOriginal /\ done < loop.trips
  \/ \E mode \in Modes :
       Suits(mode) /\ IsUnrolled(code, mode, count, count) /\ InUnrolled(mode)

Position ==
  /\ done \in 0 .. loop.trips
  /\ pc # "run" => at = Enter /\ done = 0
  /\ pc = "run" => Running

Control ==
  /\ loop \in Loops /\ pass \in {"simple", "complex"}
  /\ pc \in {"static", "profile", "prolog", "extra", "complete", "unroll", "runtime",
             "latchComplete", "latchUnroll", "latchRuntime", "run", "trap"}
  /\ count \in Nat /\ n \in 0 .. count

IInv == Control /\ CodeShape /\ Position

-----------------------------------------------------------------------------
(* Lemmas about powers of two and division *)

\* A power of two is the number of sets of that many elements; so it is a
\* positive number.
LEMMA PowerIsCardinality ==
  ASSUME NEW k \in Nat
  PROVE  /\ IsFiniteSet(SUBSET (1 .. k))
         /\ Cardinality(SUBSET (1 .. k)) = 2^k
         /\ 2^k \in Nat \ {0}
<1>1. IsFiniteSet(1 .. k) /\ Cardinality(1 .. k) = k
  BY FS_Interval
<1>2. IsFiniteSet(SUBSET (1 .. k)) /\ Cardinality(SUBSET (1 .. k)) = 2^k
  BY <1>1, FS_SUBSET
<1>3. {} \in SUBSET (1 .. k)
  OBVIOUS
<1>4. Cardinality(SUBSET (1 .. k)) \in Nat /\ Cardinality(SUBSET (1 .. k)) # 0
  BY <1>2, <1>3, FS_CardinalityType, FS_EmptySet
<1> QED
  BY <1>2, <1>4

\* Each power of two is twice the one before.
LEMMA PowerDoubles ==
  ASSUME NEW k \in Nat
  PROVE  2^(k + 1) = 2 * 2^k
<1> DEFINE S == SUBSET (1 .. k)
           T == {s \cup {k + 1} : s \in S}
           f == [s \in S |-> s \cup {k + 1}]
<1>1. IsFiniteSet(S) /\ Cardinality(S) = 2^k /\ 2^k \in Nat
  BY PowerIsCardinality
<1>2. f \in Bijection(S, T)
  <2>1. f \in [S -> T]
    OBVIOUS
  <2>2. \A a, b \in S : f[a] = f[b] => a = b
    <3> SUFFICES ASSUME NEW a \in S, NEW b \in S, a \cup {k + 1} = b \cup {k + 1} PROVE a = b
      OBVIOUS
    <3>1. k + 1 \notin a /\ k + 1 \notin b
      OBVIOUS
    <3> QED BY <3>1
  <2>3. \A t \in T : \E s \in S : f[s] = t
    OBVIOUS
  <2> HIDE DEF S, T, f
  <2>4. f \in Injection(S, T)
    BY <2>1, <2>2, Zenon DEF Injection, IsInjective
  <2>5. f \in Surjection(S, T)
    BY <2>1, <2>3, Zenon DEF Surjection
  <2> QED
    BY <2>4, <2>5, Zenon DEF Bijection
<1>3. IsFiniteSet(T) /\ Cardinality(T) = 2^k
  <2> HIDE DEF S, T, f
  <2>1. ExistsBijection(S, T)
    BY <1>2, Zenon DEF ExistsBijection
  <2> QED
    BY <1>1, <2>1, FS_Bijection
<1>4. S \cap T = {}
  OBVIOUS
<1>5. SUBSET (1 .. k + 1) = S \cup T
  <2>1. S \cup T \subseteq SUBSET (1 .. k + 1)
    <3>1. 1 .. k \subseteq 1 .. k + 1 /\ k + 1 \in 1 .. k + 1
      OBVIOUS
    <3> QED
      BY <3>1
  <2>2. ASSUME NEW a \in SUBSET (1 .. k + 1) PROVE a \in S \cup T
    <3>1. CASE k + 1 \in a
      <4> DEFINE b == a \ {k + 1}
      <4>1. b \in S /\ a = b \cup {k + 1}
        BY <3>1
      <4> QED BY <4>1
    <3>2. CASE k + 1 \notin a
      <4>1. a \in S
        BY <3>2
      <4> QED BY <4>1
    <3> QED BY <3>1, <3>2
  <2> QED BY <2>1, <2>2
<1>6. Cardinality(SUBSET (1 .. k + 1)) = 2^k + 2^k - Cardinality({})
  <2> HIDE DEF S, T
  <2> QED
    BY <1>1, <1>3, <1>4, <1>5, FS_Union
<1>7. Cardinality(SUBSET (1 .. k + 1)) = 2^(k + 1)
  BY PowerIsCardinality
<1>8. Cardinality({}) = 0
  BY FS_EmptySet
<1> QED
  BY <1>1, <1>6, <1>7, <1>8

\* Powers of two grow with their exponents.
LEMMA PowerGrows ==
  ASSUME NEW j \in Nat, NEW k \in Nat, j <= k
  PROVE  2^j <= 2^k
<1>1. SUBSET (1 .. j) \subseteq SUBSET (1 .. k)
  OBVIOUS
<1>2. Cardinality(SUBSET (1 .. j)) <= Cardinality(SUBSET (1 .. k))
  BY <1>1, PowerIsCardinality, FS_Subset
<1> QED
  BY <1>2, PowerIsCardinality

\* Of two powers of two the lesser has the lesser exponent.
LEMMA PowerExponent ==
  ASSUME NEW j \in Nat, NEW k \in Nat, 2^j <= 2^k
  PROVE  j <= k
<1> SUFFICES ASSUME k < j PROVE FALSE
  OBVIOUS
<1>1. 2^(k + 1) <= 2^j
  BY PowerGrows
<1>2. 2^(k + 1) = 2 * 2^k /\ 2^k \in Nat \ {0} /\ 2^j \in Nat
  BY PowerDoubles, PowerIsCardinality
<1> QED
  BY <1>1, <1>2

\* A set of numbers that is not empty has a least element.
LEMMA LeastElement ==
  ASSUME NEW S \in SUBSET Nat, S # {}
  PROVE  \E m \in S : \A k \in S : m <= k
<1> DEFINE U == {0 .. k - 1 : k \in S}
           R == StrictSubsetOrdering(Nat)
<1>1. U \subseteq FiniteSubsetsOf(Nat)
  <2> SUFFICES ASSUME NEW k \in S PROVE 0 .. k - 1 \in FiniteSubsetsOf(Nat)
    OBVIOUS
  <2>1. k \in Nat
    OBVIOUS
  <2>2. IsFiniteSet(0 .. k - 1)
    BY <2>1, FS_Interval
  <2>3. 0 .. k - 1 \subseteq Nat
    BY <2>1
  <2> QED
    BY <2>2, <2>3 DEF FiniteSubsetsOf
<1>2. U # {}
  OBVIOUS
<1>3. PICK x \in U : \A y \in U : ~ (<<y, x>> \in R)
  <2>1. IsWellFoundedOn(R, FiniteSubsetsOf(Nat))
    BY FS_StrictSubsetOrderingWellFounded
  <2> HIDE DEF U, R
  <2> QED
    BY <1>1, <1>2, <2>1, WFMin, Zenon
<1>4. PICK m \in S : x = 0 .. m - 1
  OBVIOUS
<1>5. ASSUME NEW k \in S, k < m PROVE FALSE
  <2>1. 0 .. k - 1 \in U /\ 0 .. k - 1 \subseteq 0 .. m - 1 /\ k \in 0 .. m - 1 /\ k \notin 0 .. k - 1
    BY <1>5
  <2>2. <<0 .. k - 1, 0 .. m - 1>> \in R
    BY <1>1, <1>4, <2>1 DEF StrictSubsetOrdering
  <2> QED
    BY <1>3, <1>4, <2>1, <2>2
<1> QED
  BY <1>5

\* A bounded set of numbers that is not empty has a greatest element.
LEMMA GreatestElement ==
  ASSUME NEW S \in SUBSET Nat, S # {}, NEW top \in Nat, \A k \in S : k <= top
  PROVE  Max(S) \in S /\ \A k \in S : Max(S) >= k
<1> DEFINE U == {u \in Nat : \A k \in S : k <= u}
<1>1. PICK m \in U : \A u \in U : m <= u
  <2>1. U \in SUBSET Nat /\ top \in U
    OBVIOUS
  <2> HIDE DEF U
  <2> QED
    BY <2>1, LeastElement, Zenon
<1>2. m \in S
  <2> SUFFICES ASSUME m \notin S PROVE FALSE
    OBVIOUS
  <2>1. PICK k \in S : TRUE
    OBVIOUS
  <2>2. m - 1 \in U
    OBVIOUS
  <2> QED
    BY <1>1, <2>2
<1>3. \E a \in S : \A k \in S : a >= k
  BY <1>2
<1> QED
  BY <1>3, Zenon DEF Max

\* A quotient times the divisor comes near the dividend.
LEMMA DivisionBounds ==
  ASSUME NEW a \in Nat, NEW b \in Nat \ {0}
  PROVE  a \div b \in Nat /\ b * (a \div b) <= a /\ a < b * (a \div b) + b
BY SMT

\* A quotient is no more than the dividend.
LEMMA Quotient ==
  ASSUME NEW a \in Nat, NEW b \in Nat \ {0}
  PROVE  a \div b \in Nat /\ a \div b <= a
<1> DEFINE q == a \div b
<1>1. q \in Nat /\ b * q <= a
  BY DivisionBounds
<1> HIDE DEF q
<1>2. (b - 1) * q >= 0 /\ b * q = (b - 1) * q + q
  BY <1>1
<1>3. q <= a
  BY <1>1, <1>2
<1> QED
  BY <1>1, <1>3 DEF q

\* What is left of a multiple of the divisor is the remainder.
LEMMA Remainder ==
  ASSUME NEW a \in Nat, NEW b \in Nat \ {0}, NEW q \in Nat, NEW r \in 0 .. b - 1, a = b * q + r
  PROVE  a % b = r
BY SMT

\* The dividend is a multiple of the divisor and the remainder.
LEMMA Division ==
  ASSUME NEW a \in Nat, NEW b \in Nat \ {0}
  PROVE  \E q \in Nat : a = b * q + (a % b) /\ a % b \in 0 .. b - 1
<1> DEFINE q == a \div b
<1>1. q \in Nat /\ b * q <= a /\ a < b * q + b
  BY DivisionBounds
<1> HIDE DEF q
<1>2. PICK r \in 0 .. b - 1 : a = b * q + r
  BY <1>1
<1>3. a % b = r
  BY <1>1, <1>2, Remainder
<1> DEFINE m == a % b
<1>4. m = r
  BY <1>3
<1> HIDE DEF m
<1>5. a = b * q + m /\ m \in 0 .. b - 1
  BY <1>2, <1>4
<1> QED
  BY <1>1, <1>5 DEF m

-----------------------------------------------------------------------------
(* Lemmas about blocks and their names *)

\* The blocks the passes make have different names.
LEMMA BlockNames ==
  /\ \A i, j \in Int : Body(i) = Body(j) => i = j
  /\ \A i, j \in Int : Extra(i) = Extra(j) => i = j
  /\ \A i, j \in Int : Compare(i) = Compare(j) => i = j
  /\ \A i, j \in Int : Body(i) # Extra(j) /\ Body(i) # Compare(j) /\ Extra(i) # Compare(j)
  /\ \A i \in Int : Body(i) # Enter /\ Body(i) # PEnd /\ Body(i) # Exit
  /\ \A i \in Int : Extra(i) # Enter /\ Extra(i) # PEnd /\ Extra(i) # Exit
  /\ \A i \in Int : Compare(i) # Enter /\ Compare(i) # PEnd /\ Compare(i) # Exit
  /\ \A i \in Int : Compare(i)[2] = i
  /\ Enter # PEnd /\ Enter # Exit /\ PEnd # Exit
BY DEF Body, Extra, Compare, Enter, PEnd, Exit

\* Whether a block holds a body, and how it ends.
LEMMA BlockFields ==
  ASSUME NEW b
  PROVE  /\ ~Go(b).body /\ Go(b).test = "always" /\ Go(b).then = b /\ Go(b).else = b
         /\ Run(b).body /\ Run(b).test = "always" /\ Run(b).then = b /\ Run(b).else = b
         /\ Latch(b).body /\ Latch(b).test = "latch" /\ Latch(b).then = b /\ Latch(b).else = Exit
         /\ \A test, c : /\ ~Guard(test, b, c).body /\ Guard(test, b, c).test = test
                         /\ Guard(test, b, c).then = b /\ Guard(test, b, c).else = c
BY DEF Go, Run, Latch, Guard, Jump, Block

\* Moving a branch of a block changes nothing else.
LEMMA BranchMoved ==
  ASSUME NEW blocks, NEW b \in DOMAIN blocks, NEW body, NEW test, NEW then, NEW else, NEW to,
         blocks[b] = Block(body, test, then, else), NEW new, new = [blocks EXCEPT ![b].then = to]
  PROVE  /\ DOMAIN new = DOMAIN blocks
         /\ new[b] = Block(body, test, to, else)
         /\ \A c \in DOMAIN blocks \ {b} : new[c] = blocks[c]
BY DEF Block

\* How CloneExtra moves the branches of a block: the second one only if the
\* block is not keep.
Moved(blocks, b, to, keep) ==
  [blocks EXCEPT ![b].then = to, ![b].else = IF b = keep THEN @ ELSE to]

\* Moving the first branch of a test,
LEMMA GuardMoved ==
  ASSUME NEW blocks, NEW b \in DOMAIN blocks, NEW test, NEW then, NEW else, NEW to,
         blocks[b] = Guard(test, then, else), NEW new, new = [blocks EXCEPT ![b].then = to]
  PROVE  /\ DOMAIN new = DOMAIN blocks
         /\ new[b] = Guard(test, to, else)
         /\ \A c \in DOMAIN blocks \ {b} : new[c] = blocks[c]
<1>1. PICK body : body = FALSE
  OBVIOUS
<1>2. Guard(test, then, else) = Block(body, test, then, else) /\ Guard(test, to, else) = Block(body, test, to, else)
  BY <1>1, Zenon DEF Guard
<1> QED
  BY <1>2, BranchMoved

\* or that one only of the two;
LEMMA GuardKept ==
  ASSUME NEW blocks, NEW b \in DOMAIN blocks, NEW test, NEW then, NEW else, NEW to,
         blocks[b] = Guard(test, then, else), NEW new,
         new = Moved(blocks, b, to, b)
  PROVE  /\ DOMAIN new = DOMAIN blocks
         /\ new[b] = Guard(test, to, else)
         /\ \A c \in DOMAIN blocks \ {b} : new[c] = blocks[c]
<1>1. PICK body : body = FALSE
  OBVIOUS
<1>2. Guard(test, then, else) = Block(body, test, then, else) /\ Guard(test, to, else) = Block(body, test, to, else)
  BY <1>1, Zenon DEF Guard
<1>3. PICK mid : mid = [blocks EXCEPT ![b].then = to]
  OBVIOUS
<1>4. mid[b] = Block(body, test, to, else) /\ DOMAIN mid = DOMAIN blocks
  BY <1>2, <1>3 DEF Block
<1>5. new = [mid EXCEPT ![b].else = IF b = b THEN @ ELSE to]
  BY <1>3 DEF Moved
<1>6. mid[b].else = else
  BY <1>4 DEF Block
<1>7. new[b] = [mid[b] EXCEPT !.else = else]
  BY <1>4, <1>5, <1>6
<1>8. new[b] = Block(body, test, to, else)
  BY <1>4, <1>7 DEF Block
<1>9. DOMAIN new = DOMAIN blocks /\ \A c \in DOMAIN blocks \ {b} : new[c] = blocks[c]
  BY DEF Moved
<1> QED
  BY <1>2, <1>8, <1>9

\* moving a jump behind a body;
LEMMA RunMoved ==
  ASSUME NEW blocks, NEW b \in DOMAIN blocks, NEW from, NEW to, NEW keep, keep # b,
         blocks[b] = Run(from), NEW new,
         new = Moved(blocks, b, to, keep)
  PROVE  /\ DOMAIN new = DOMAIN blocks
         /\ new[b] = Run(to)
         /\ \A c \in DOMAIN blocks \ {b} : new[c] = blocks[c]
<1>1. PICK body, test : body = TRUE /\ test = "always"
  OBVIOUS
<1>2. Run(from) = Block(body, test, from, from) /\ Run(to) = Block(body, test, to, to)
  BY <1>1, Zenon DEF Run, Jump
<1>3. PICK mid : mid = [blocks EXCEPT ![b].then = to]
  OBVIOUS
<1>4. mid[b] = Block(body, test, to, from) /\ DOMAIN mid = DOMAIN blocks
  BY <1>2, <1>3 DEF Block
<1>5. new = [mid EXCEPT ![b].else = IF b = keep THEN @ ELSE to]
  BY <1>3 DEF Moved
<1>6. new[b] = [mid[b] EXCEPT !.else = to]
  BY <1>4, <1>5
<1>7. new[b] = Block(body, test, to, to)
  BY <1>4, <1>6 DEF Block
<1>8. DOMAIN new = DOMAIN blocks /\ \A c \in DOMAIN blocks \ {b} : new[c] = blocks[c]
  BY DEF Moved
<1> QED
  BY <1>2, <1>7, <1>8

\* moving the backedge of a latch.
LEMMA LatchMoved ==
  ASSUME NEW blocks, NEW b \in DOMAIN blocks, NEW from, NEW to,
         blocks[b] = Latch(from), NEW new,
         new = [blocks EXCEPT ![b].then = to]
  PROVE  /\ DOMAIN new = DOMAIN blocks
         /\ new[b] = Latch(to)
         /\ \A c \in DOMAIN blocks \ {b} : new[c] = blocks[c]
<1>1. PICK body, test : body = TRUE /\ test = "latch"
  OBVIOUS
<1>2. Latch(from) = Block(body, test, from, Exit) /\ Latch(to) = Block(body, test, to, Exit)
  BY <1>1, Zenon DEF Latch
<1> QED
  BY <1>2, BranchMoved

\* The code the passes start from
LEMMA OriginalBlocks == IsOriginal(Original)
<1>1. PICK first : first = Put(<<>>, Enter, Go(Body(0)))
  OBVIOUS
<1>2. /\ DOMAIN first = (DOMAIN <<>>) \cup {Enter}
      /\ first[Enter] = Go(Body(0))
  BY <1>1 DEF Put
<1>3. DOMAIN <<>> = {}
  OBVIOUS
<1>4. Original = Put(first, Body(0), Latch(Body(0)))
  BY <1>1 DEF Original, Go, Latch
<1>5. Enter # Body(0)
  BY BlockNames
<1>6. /\ DOMAIN Original = DOMAIN first \cup {Body(0)}
      /\ Original[Body(0)] = Latch(Body(0))
      /\ \A c \in DOMAIN first \ {Body(0)} : Original[c] = first[c]
  BY <1>4 DEF Put
<1> QED
  BY <1>2, <1>3, <1>5, <1>6 DEF IsOriginal
-----------------------------------------------------------------------------
(* What the steps of the passes make of the code *)

\* BeginProlog leaves a prolog without copies.
LEMMA PrologBegun ==
  ASSUME NEW blocks, IsOriginal(blocks), NEW factor \in Nat, factor > 2, NEW new,
         new = Put(Put(blocks, Enter, Guard("extra", PEnd, PEnd)), PEnd, Go(Body(0)))
  PROVE  IsPrologOf(new, factor, factor - 1, Go(Body(0)))
<1>1. PICK first : first = Put(blocks, Enter, Guard("extra", PEnd, PEnd))
  OBVIOUS
<1>2. /\ DOMAIN first = DOMAIN blocks \cup {Enter}
      /\ first[Enter] = Guard("extra", PEnd, PEnd)
      /\ \A b \in DOMAIN blocks \ {Enter} : first[b] = blocks[b]
  BY <1>1 DEF Put
<1>3. /\ DOMAIN new = DOMAIN first \cup {PEnd}
      /\ new[PEnd] = Go(Body(0))
      /\ \A b \in DOMAIN first \ {PEnd} : new[b] = first[b]
  BY <1>1 DEF Put
<1>4. Enter # PEnd /\ Body(0) # PEnd /\ Body(0) # Enter
  BY BlockNames
<1>5. DOMAIN first = {Enter, Body(0)} /\ blocks[Body(0)] = Latch(Body(0))
  BY <1>2 DEF IsOriginal
<1>6. /\ new[Enter] = Guard("extra", PEnd, PEnd)
      /\ new[Body(0)] = Latch(Body(0))
  BY <1>2, <1>3, <1>4, <1>5 DEF IsOriginal
<1>7. IsProlog(new, factor, factor - 1)
  BY <1>6 DEF IsProlog, FirstCompare
<1>8. PrologBlocks(factor, factor - 1) = {Enter, PEnd}
  BY DEF PrologBlocks
<1> QED
  BY <1>3, <1>5, <1>6, <1>7, <1>8 DEF IsPrologOf

\* CloneExtra adds the copy for i iterations: the first one, that runs on to
\* the end of the prolog;
LEMMA FirstCopyMade ==
  ASSUME NEW blocks, NEW factor \in Nat, NEW last, factor > 2,
         NEW i \in Nat, i = factor - 1, IsPrologOf(blocks, factor, i, last), NEW new,
         DOMAIN new = DOMAIN blocks \cup {Extra(i)},
         new[Extra(i)] = Run(PEnd),
         new[Enter] = Guard("extra", Extra(i), PEnd),
         \A c \in DOMAIN blocks \ {Enter, Extra(i)} : new[c] = blocks[c]
  PROVE  IsPrologOf(new, factor, i - 1, last)
<1>1. /\ PrologBlocks(factor, i) = {Enter, PEnd}
      /\ PrologBlocks(factor, i - 1) = {Enter, PEnd, Extra(i)}
  BY DEF PrologBlocks
<1>2. /\ Enter # PEnd /\ Enter # Body(0)
      /\ Extra(i) # PEnd /\ Extra(i) # Body(0)
  BY BlockNames
<1>3. new[PEnd] = last /\ new[Body(0)] = Latch(Body(0))
  BY <1>1, <1>2 DEF IsPrologOf
<1>4. FirstCompare(factor, i - 1) = Extra(i)
  BY DEF FirstCompare
<1>5. ASSUME NEW k \in (i - 1) + 1 .. factor - 1
      PROVE  new[Extra(k)] = Run(NextCopy(i - 1, k))
  <2>1. k = i /\ NextCopy(i - 1, i) = PEnd
    BY DEF NextCopy
  <2> QED
    BY <2>1
<1>6. \A k \in (i - 1) + 1 .. factor - 2 : FALSE
  OBVIOUS
<1>7. IsProlog(new, factor, i - 1)
  BY <1>4, <1>5, <1>6 DEF IsProlog
<1> QED
  BY <1>1, <1>3, <1>7 DEF IsPrologOf

\* or a later one, behind which the one made before is put, and a comparison.
LEMMA NextCopyMade ==
  ASSUME NEW blocks, NEW factor \in Nat, NEW last, factor > 2,
         NEW i \in 1 .. factor - 2, IsPrologOf(blocks, factor, i, last), NEW new,
         DOMAIN new = DOMAIN blocks \cup {Extra(i), Compare(i)},
         new[Extra(i)] = Run(PEnd),
         new[Extra(i + 1)] = Run(Extra(i)),
         new[Compare(i)] = Guard("equal", Extra(i), FirstCompare(factor, i)),
         new[Enter] = Guard("extra", Compare(i), PEnd),
         \A c \in DOMAIN blocks \ {Enter, Extra(i), Extra(i + 1), Compare(i)} : new[c] = blocks[c]
  PROVE  IsPrologOf(new, factor, i - 1, last)
<1>1. /\ {Enter, PEnd, Body(0)} \subseteq DOMAIN blocks
      /\ \A k \in i + 1 .. factor - 1 : Extra(k) \in DOMAIN blocks
      /\ \A k \in i + 1 .. factor - 2 : Compare(k) \in DOMAIN blocks
  BY DEF IsPrologOf, PrologBlocks
<1>2. ASSUME NEW b \in {PEnd, Body(0)}
      PROVE  b \notin {Enter, Extra(i), Extra(i + 1), Compare(i)}
  BY BlockNames
<1>3. new[PEnd] = last /\ new[Body(0)] = Latch(Body(0))
  BY <1>1, <1>2 DEF IsPrologOf
<1>4. ASSUME NEW k \in i + 2 .. factor - 1
      PROVE  new[Extra(k)] = Run(Extra(k - 1))
  <2>1. blocks[Extra(k)] = Run(Extra(k - 1))
    BY DEF IsPrologOf, IsProlog, NextCopy
  <2>2. Extra(k) \notin {Enter, Extra(i), Extra(i + 1), Compare(i)}
    BY BlockNames
  <2> QED
    BY <1>1, <2>1, <2>2
<1>5. ASSUME NEW k \in (i - 1) + 1 .. factor - 1
      PROVE  new[Extra(k)] = Run(NextCopy(i - 1, k))
  <2>1. CASE k = i
    BY <2>1 DEF NextCopy
  <2>2. CASE k = i + 1
    BY <2>2 DEF NextCopy
  <2>3. CASE k \in i + 2 .. factor - 1
    BY <1>4, <2>3 DEF NextCopy
  <2> QED
    BY <2>1, <2>2, <2>3
<1>6. ASSUME NEW k \in (i - 1) + 1 .. factor - 2
      PROVE  new[Compare(k)] = Guard("equal", Extra(k), FirstCompare(factor, k))
  <2>1. CASE k = i
    BY <2>1
  <2>2. CASE k \in i + 1 .. factor - 2
    <3>1. blocks[Compare(k)] = Guard("equal", Extra(k), FirstCompare(factor, k))
      BY <2>2 DEF IsPrologOf, IsProlog
    <3>2. Compare(k) \notin {Enter, Extra(i), Extra(i + 1), Compare(i)}
      BY <2>2, BlockNames
    <3> QED
      BY <1>1, <2>2, <3>1, <3>2
  <2> QED
    BY <2>1, <2>2
<1>7. FirstCompare(factor, i - 1) = Compare(i)
  BY DEF FirstCompare
<1>8. IsProlog(new, factor, i - 1)
  BY <1>5, <1>6, <1>7 DEF IsProlog
<1>9. PrologBlocks(factor, i - 1) = PrologBlocks(factor, i) \cup {Extra(i), Compare(i)}
  <2>1. (i - 1) + 1 .. factor - 1 = (i + 1 .. factor - 1) \cup {i}
    OBVIOUS
  <2>2. (i - 1) + 1 .. factor - 2 = (i + 1 .. factor - 2) \cup {i}
    OBVIOUS
  <2>3. {Extra(k) : k \in (i - 1) + 1 .. factor - 1} = {Extra(k) : k \in i + 1 .. factor - 1} \cup {Extra(i)}
    BY <2>1
  <2>4. {Compare(k) : k \in (i - 1) + 1 .. factor - 2} = {Compare(k) : k \in i + 1 .. factor - 2} \cup {Compare(i)}
    BY <2>2
  <2> QED
    BY <2>3, <2>4 DEF PrologBlocks
<1> QED
  BY <1>3, <1>8, <1>9 DEF IsPrologOf

\* ConnectProlog only changes how the prolog ends.
LEMMA PrologConnected ==
  ASSUME NEW blocks, NEW factor \in Nat, NEW last, NEW to, NEW new,
         IsPrologOf(blocks, factor, 0, last), new = [blocks EXCEPT ![PEnd] = to]
  PROVE  IsPrologOf(new, factor, 0, to)
<1>1. /\ {Enter, PEnd, Body(0)} \subseteq DOMAIN blocks
      /\ \A k \in 0 + 1 .. factor - 1 : Extra(k) \in DOMAIN blocks /\ Extra(k) # PEnd
      /\ \A k \in 0 + 1 .. factor - 2 : Compare(k) \in DOMAIN blocks /\ Compare(k) # PEnd
      /\ Enter # PEnd /\ Body(0) # PEnd
  BY BlockNames DEF IsPrologOf, PrologBlocks
<1>2. /\ DOMAIN new = DOMAIN blocks /\ new[PEnd] = to
      /\ \A c \in DOMAIN blocks \ {PEnd} : new[c] = blocks[c]
  BY <1>1
<1>3. IsProlog(new, factor, 0)
  BY <1>1, <1>2 DEF IsPrologOf, IsProlog
<1> QED
  BY <1>1, <1>2, <1>3 DEF IsPrologOf

\* No block of the entry is called as a body is.
LEMMA EntryIsNoBody ==
  ASSUME NEW factor \in Nat, NEW mode, NEW k \in Int
  PROVE  Body(k) \notin EntryBlocks(mode, factor)
<1>1. Body(k) \notin {Enter, PEnd}
  BY BlockNames
<1>2. \A j \in Int : Body(k) # Extra(j) /\ Body(k) # Compare(j)
  BY BlockNames
<1>3. Body(k) \notin PrologBlocks(factor, 0)
  BY <1>1, <1>2 DEF PrologBlocks
<1> QED
  BY <1>1, <1>3 DEF EntryBlocks

\* The bodies are the one there was and its copies.
LEMMA BodiesOf ==
  ASSUME NEW factor \in Nat, factor > 0
  PROVE  Bodies(factor) = {Body(0)} \cup {Body(k) : k \in 1 .. factor - 1}
<1>1. 0 .. factor - 1 = {0} \cup (1 .. factor - 1)
  OBVIOUS
<1> QED
  BY <1>1 DEF Bodies

\* The body of the loop is in the code before it is copied, its copies are not.
LEMMA OneBody ==
  ASSUME NEW factor \in Nat, NEW entry, NEW blocks, NEW new,
         \A k \in Int : Body(k) \notin entry,
         DOMAIN blocks = entry \cup {Body(0)},
         blocks[Body(0)] = Latch(Body(0)),
         \A k \in 1 .. factor - 1 : Body(k) \in DOMAIN new,
         \A b \in DOMAIN blocks : new[b] = blocks[b],
         \A b \in DOMAIN new \ DOMAIN blocks : new[b] = Latch(b),
         NEW k \in 0 .. factor - 1
  PROVE  new[Body(k)] = Latch(Body(k))
<1>1. CASE k = 0
  BY <1>1
<1>2. CASE k \in 1 .. factor - 1
  <2>1. Body(k) # Body(0)
    BY <1>2, BlockNames
  <2>2. Body(k) \notin entry
    OBVIOUS
  <2> QED
    BY <1>2, <2>1, <2>2
<1> QED
  BY <1>1, <1>2

\* CloneBodies leaves copies that all end as the loop did, behind the prolog
LEMMA RuntimeBodiesCloned ==
  ASSUME NEW factor \in Nat, factor > 0, NEW blocks, NEW new,
         IsPrologOf(blocks, factor, 0, Guard("short", Exit, Body(0))),
         DOMAIN new = DOMAIN blocks \cup {Body(k) : k \in 1 .. factor - 1},
         \A b \in DOMAIN blocks : new[b] = blocks[b],
         \A b \in DOMAIN new \ DOMAIN blocks : new[b] = Latch(b)
  PROVE  IsUnrolled(new, "latchRuntime", factor, 0)
<1>1. PICK entry : entry = PrologBlocks(factor, 0)
  OBVIOUS
<1>2. \A k \in Int : Body(k) \notin entry
  BY <1>1, EntryIsNoBody DEF EntryBlocks
<1>3. /\ DOMAIN blocks = entry \cup {Body(0)}
      /\ blocks[Body(0)] = Latch(Body(0))
  BY <1>1 DEF IsPrologOf
<1>4. DOMAIN new = entry \cup Bodies(factor)
  BY <1>3, BodiesOf
<1>5. \A k \in 1 .. factor - 1 : Body(k) \in DOMAIN new
  OBVIOUS
<1>6. \A k \in 0 .. factor - 1 : new[Body(k)] = Latch(Body(k))
  BY <1>2, <1>3, <1>5, OneBody
<1>7. /\ {Enter, PEnd} \subseteq DOMAIN blocks
      /\ \A k \in 0 + 1 .. factor - 1 : Extra(k) \in DOMAIN blocks
      /\ \A k \in 0 + 1 .. factor - 2 : Compare(k) \in DOMAIN blocks
  BY DEF IsPrologOf, PrologBlocks
<1>8. IsProlog(new, factor, 0) /\ new[PEnd] = Guard("short", Exit, Body(0))
  BY <1>7 DEF IsPrologOf, IsProlog
<1>9. \A k \in 0 .. factor - 1 : ~(k < 0)
  OBVIOUS
<1> QED
  BY <1>1, <1>4, <1>6, <1>8, <1>9 DEF IsUnrolled, EntryBlocks

\* or behind the preheader.
LEMMA BodiesCloned ==
  ASSUME NEW factor \in Nat, factor > 0, NEW mode, mode # "latchRuntime",
         NEW blocks, NEW new, IsOriginal(blocks),
         DOMAIN new = DOMAIN blocks \cup {Body(k) : k \in 1 .. factor - 1},
         \A b \in DOMAIN blocks : new[b] = blocks[b],
         \A b \in DOMAIN new \ DOMAIN blocks : new[b] = Latch(b)
  PROVE  IsUnrolled(new, mode, factor, 0)
<1>1. PICK entry : entry = {Enter}
  OBVIOUS
<1>2. \A k \in Int : Body(k) \notin entry
  BY <1>1, BlockNames
<1>3. /\ DOMAIN blocks = entry \cup {Body(0)}
      /\ blocks[Body(0)] = Latch(Body(0))
  BY <1>1 DEF IsOriginal
<1>4. DOMAIN new = entry \cup Bodies(factor)
  BY <1>3, BodiesOf
<1>5. \A k \in 1 .. factor - 1 : Body(k) \in DOMAIN new
  OBVIOUS
<1>6. \A k \in 0 .. factor - 1 : new[Body(k)] = Latch(Body(k))
  BY <1>2, <1>3, <1>5, OneBody
<1>7. new[Enter] = Go(Body(0))
  BY DEF IsOriginal
<1>8. \A k \in 0 .. factor - 1 : ~(k < 0)
  OBVIOUS
<1> QED
  BY <1>1, <1>4, <1>6, <1>7, <1>8 DEF IsUnrolled, EntryBlocks

\* ConnectLatch leaves one latch more connected.
LEMMA LatchConnected ==
  ASSUME NEW factor \in Nat, NEW mode \in Modes, NEW i \in 0 .. factor - 1, NEW blocks,
         IsUnrolled(blocks, mode, factor, i), NEW new,
         DOMAIN new = DOMAIN blocks,
         new[Body(i)] = Connected(mode, factor, i),
         \A c \in DOMAIN blocks \ {Body(i)} : new[c] = blocks[c]
  PROVE  IsUnrolled(new, mode, factor, i + 1)
<1>1. \A k \in 0 .. factor - 1 : Body(k) \in DOMAIN blocks
  BY DEF IsUnrolled, Bodies
<1>2. ASSUME NEW k \in 0 .. factor - 1
      PROVE  new[Body(k)] = IF k < i + 1 THEN Connected(mode, factor, k) ELSE Latch(Body(k))
  <2>1. CASE k = i
    BY <2>1
  <2>2. CASE k # i
    <3>1. Body(k) # Body(i)
      BY <2>2, BlockNames
    <3>2. new[Body(k)] = blocks[Body(k)]
      BY <1>1, <3>1
    <3>3. k < i + 1 <=> k < i
      BY <2>2
    <3> QED
      BY <3>2, <3>3 DEF IsUnrolled
  <2> QED
    BY <2>1, <2>2
<1>3. CASE mode = "latchRuntime"
  <2>1. /\ {Enter, PEnd} \subseteq DOMAIN blocks \ {Body(i)}
        /\ \A k \in 0 + 1 .. factor - 1 : Extra(k) \in DOMAIN blocks \ {Body(i)}
        /\ \A k \in 0 + 1 .. factor - 2 : Compare(k) \in DOMAIN blocks \ {Body(i)}
    <3>1. EntryBlocks(mode, factor) = PrologBlocks(factor, 0)
      BY <1>3 DEF EntryBlocks
    <3>2. Body(i) \notin PrologBlocks(factor, 0)
      BY <3>1, EntryIsNoBody
    <3>3. PrologBlocks(factor, 0) \subseteq DOMAIN blocks
      BY <3>1 DEF IsUnrolled
    <3> QED
      BY <3>2, <3>3 DEF PrologBlocks
  <2>2. IsProlog(blocks, factor, 0) /\ blocks[PEnd] = Guard("short", Exit, Body(0))
    BY <1>3 DEF IsUnrolled
  <2>3. IsProlog(new, factor, 0) /\ new[PEnd] = Guard("short", Exit, Body(0))
    BY <2>1, <2>2 DEF IsProlog
  <2> QED
    BY <1>2, <1>3, <2>3 DEF IsUnrolled
<1>4. CASE mode # "latchRuntime"
  <2>1. Enter \in DOMAIN blocks \ {Body(i)}
    <3>1. Enter # Body(i)
      BY BlockNames
    <3>2. Enter \in EntryBlocks(mode, factor)
      BY <1>4 DEF EntryBlocks
    <3> QED
      BY <3>1, <3>2 DEF IsUnrolled
  <2>2. new[Enter] = Go(Body(0))
    BY <1>4, <2>1 DEF IsUnrolled
  <2> QED
    BY <1>2, <1>4, <2>2 DEF IsUnrolled
<1> QED
  BY <1>3, <1>4
-----------------------------------------------------------------------------
(* How often to unroll *)

\* A loop runs its body at least once, and a number of times that the type of
\* its count holds, but for the one more.
LEMMA LoopFacts ==
  ASSUME NEW l \in Loops
  PROVE  l.trips \in Nat \ {0} /\ l.trips <= 2^TripWidth /\ 2^TripWidth \in Nat \ {0}
<1>1. 2^TripWidth \in Nat \ {0}
  BY PowerIsCardinality, WidthsAssumption
<1> QED
  BY <1>1, LoopsAssumption

\* The words of the profile
LEMMA WordFacts ==
  /\ 2^CountBits \in Nat \ {0} /\ Word \subseteq Nat /\ 0 \in Word
  /\ \A w \in Word : w <= 2^CountBits - 1
<1>1. 2^CountBits \in Nat \ {0}
  BY PowerIsCardinality, WidthsAssumption
<1> QED
  BY <1>1 DEF Word

\* The number of shifts is the exponent of the next power of two.
LEMMA ShiftsBounds ==
  ASSUME NEW number \in Word
  PROVE  /\ Shifts(number) \in 0 .. CountBits
         /\ number < 2^Shifts(number)
         /\ Shifts(number) = 0 \/ 2^(Shifts(number) - 1) <= number
<1> DEFINE U == {s \in 0 .. CountBits : number < 2^s}
<1>1. CountBits \in U /\ U \in SUBSET Nat
  BY WordFacts, WidthsAssumption
<1>2. PICK s \in U : \A t \in U : s <= t
  <2> HIDE DEF U
  <2> QED
    BY <1>1, LeastElement
<1>3. s = 0 \/ 2^(s - 1) <= number
  <2>1. SUFFICES ASSUME s # 0, ~(2^(s - 1) <= number) PROVE FALSE
    OBVIOUS
  <2>2. s - 1 \in 0 .. CountBits /\ s - 1 \in Nat
    BY <2>1, WidthsAssumption
  <2>3. 2^(s - 1) \in Nat /\ number \in Nat
    BY <2>2, PowerIsCardinality, WordFacts
  <2>4. s - 1 \in U
    BY <2>1, <2>2, <2>3
  <2> QED
    BY <1>2, <2>4, WidthsAssumption
<1>4. \E e \in 0 .. CountBits : number < 2^e /\ (e = 0 \/ 2^(e - 1) <= number)
  BY <1>3
<1> QED
  BY <1>4, Zenon DEF Shifts

\* What comes of a count of the profile is a number.
LEMMA NextPowerType ==
  ASSUME NEW number \in Word, NEW p \in getNextHighestPowerOf2(number)
  PROVE  p \in Nat
<1>1. 2^Shifts(number) \in Nat
  <2>1. Shifts(number) \in Nat
    BY ShiftsBounds, WidthsAssumption
  <2> QED
    BY <2>1, PowerIsCardinality
<1> QED
  BY <1>1, WordFacts DEF getNextHighestPowerOf2

\* The counts the passes read are words.
LEMMA ExecutionCountsType ==
  ASSUME NEW blocks
  PROVE  ExecutionCounts(blocks) \subseteq Word
<1> DEFINE fits == {c \in blocks : c \in Word \cup {Missing}}
           seen == {0} \cup (fits \ {Missing})
<1>1. seen \subseteq Word /\ seen # {}
  BY WordFacts
<1>2. Max(seen) \in Word
  <2> HIDE DEF fits, seen
  <2>1. seen \in SUBSET Nat /\ 2^CountBits - 1 \in Nat /\ \A k \in seen : k <= 2^CountBits - 1
    BY <1>1, WordFacts
  <2> QED
    BY <1>1, <2>1, GreatestElement
<1> QED
  BY <1>2 DEF ExecutionCounts

\* The greatest factor is a power of two.
LEMMA MaxUnrollCountType == maxUnrollCount \in Nat \ {0}
<1>1. PICK e \in 0 .. TripWidth - 1 : maxUnrollCount = 2^e
  BY UnrollCountAssumption
<1>2. e \in Nat
  BY WidthsAssumption
<1> QED
  BY <1>1, <1>2, PowerIsCardinality

\* The factor that is computed from the profile is a number.
LEMMA UnrollCountType ==
  ASSUME ComputeUnrollCount, count \in Nat, pass \in {"simple", "complex"}
  PROVE  count' \in Nat
<1>1. PICK executionCount \in ExecutionCounts(loop.blocks), functionCount \in Rounded(loop.calls) :
        \/ count' = count
        \/ /\ ~(pass = "complex" /\ functionCount = 0)
           /\ \E p \in getNextHighestPowerOf2(IF pass = "simple" THEN executionCount
                                              ELSE executionCount \div functionCount) :
                count' = Lesser(p, maxUnrollCount)
  BY DEF ComputeUnrollCount
<1>2. executionCount \in Word /\ executionCount \in Nat
  BY ExecutionCountsType, WordFacts
<1>3. functionCount \in Nat
  BY WordFacts DEF Rounded
<1>4. CASE count' = count
  BY <1>4
<1>5. ASSUME count' # count
      PROVE  count' \in Nat
  <2>1. PICK number : number = IF pass = "simple" THEN executionCount ELSE executionCount \div functionCount
    OBVIOUS
  <2>2. number \in Word
    <3>1. CASE pass = "simple"
      BY <1>2, <2>1, <3>1
    <3>2. CASE pass = "complex"
      <4>1. functionCount \in Nat \ {0} /\ number = executionCount \div functionCount
        BY <1>1, <1>3, <1>5, <2>1, <3>2
      <4>2. number \in Nat /\ number <= executionCount
        BY <1>2, <4>1, Quotient
      <4>3. \A w \in Word : w <= 2^CountBits - 1
        BY WordFacts
      <4> QED
        BY <1>2, <4>2, <4>3, WordFacts DEF Word
    <3> QED
      BY <3>1, <3>2
  <2>3. PICK p \in getNextHighestPowerOf2(number) : count' = Lesser(p, maxUnrollCount)
    BY <1>1, <1>5, <2>1
  <2> QED
    BY <2>2, <2>3, NextPowerType, MaxUnrollCountType DEF Lesser
<1> QED
  BY <1>4, <1>5

-----------------------------------------------------------------------------
(* The passes preserve the invariant *)

\* When a pass lets the code run, the program is at its first block.
LEMMA StartRunning ==
  ASSUME IInv, pc # "run", UNCHANGED <<loop, pass, at, done>>, Control', CodeShape'
  PROVE  IInv'
<1>1. at' = Enter /\ done' = 0 /\ loop' \in Loops /\ loop' = loop
  BY DEF IInv, Position, Control
<1>2. loop'.trips \in Nat \ {0}
  BY <1>1, LoopFacts
<1>3. ASSUME pc' = "run"
      PROVE  Running'
  <2>1. CASE IsOriginal(code')
    BY <1>1, <1>2, <2>1 DEF Running, InOriginal
  <2>2. ASSUME NEW mode \in Modes, Suits(mode)', IsUnrolled(code', mode, count', count')
        PROVE  Running'
    <3>1. InUnrolled(mode)'
      BY <1>1 DEF InUnrolled, InProlog
    <3> QED
      BY <2>2, <3>1 DEF Running
  <2> QED
    BY <1>3, <2>1, <2>2 DEF CodeShape
<1> QED
  BY <1>1, <1>2, <1>3 DEF IInv, Position

\* In the initial state the loop is as it was written.
LEMMA InitIInv == Init => IInv
<1> SUFFICES ASSUME Init
             PROVE  IInv
  OBVIOUS
<1>1. loop \in Loops /\ loop.trips \in Nat \ {0}
  BY LoopFacts DEF Init
<1>2. Control
  BY DEF Init, Control
<1>3. CodeShape
  BY OriginalBlocks DEF Init, CodeShape, Modes
<1>4. Position
  BY <1>1 DEF Init, Position
<1> QED
  BY <1>2, <1>3, <1>4 DEF IInv

\* A loop is to be unrolled completely only if its trip count is known.
LEMMA StaticUnrollStep ==
  ASSUME IInv, StaticUnroll
  PROVE  IInv'
<1>1. /\ pc = "static" /\ IsOriginal(code) /\ n = 0 /\ n' = 0 /\ code' = code /\ loop' = loop
      /\ loop \in Loops /\ loop.trips \in Nat \ {0}
  BY LoopFacts DEF IInv, CodeShape, Control, StaticUnroll
<1>2. \/ pc' \in {"profile", "run"} /\ count' = count
      \/ pc' = "complete" /\ count' = loop.trips
  BY <1>1 DEF StaticUnroll, TripCount
<1>3. Control'
  BY <1>1, <1>2 DEF IInv, Control, StaticUnroll
<1>4. CodeShape'
  BY <1>1, <1>2 DEF CodeShape, Suits, Modes
<1> QED
  BY <1>1, <1>3, <1>4, StartRunning DEF StaticUnroll

\* The complex pass goes on only with a factor above 2.
LEMMA ComputeUnrollCountStep ==
  ASSUME IInv, ComputeUnrollCount
  PROVE  IInv'
<1>1. /\ pc = "profile" /\ IsOriginal(code) /\ n = 0 /\ n' = 0 /\ code' = code /\ loop' = loop
      /\ count' \in Nat
  BY UnrollCountType DEF IInv, CodeShape, Control, ComputeUnrollCount
<1>2. pc' \in {"trap", "unroll", "run", "prolog"} /\ (pc' = "prolog" => count' > 2)
  <2>1. \/ pc' = "trap"
        \/ pc' = IF pass = "simple" THEN "unroll" ELSE IF count' <= 2 THEN "run" ELSE "prolog"
    BY DEF ComputeUnrollCount
  <2> QED
    BY <1>1, <2>1
<1>3. Control'
  BY <1>1, <1>2 DEF IInv, Control, ComputeUnrollCount
<1>4. CodeShape'
  BY <1>1, <1>2 DEF CodeShape, Modes
<1> QED
  BY <1>1, <1>3, <1>4, StartRunning DEF ComputeUnrollCount

\* The prolog begins without copies; the loop is one that can get it.
LEMMA BeginPrologStep ==
  ASSUME IInv, BeginProlog
  PROVE  IInv'
<1>1. /\ pc = "prolog" /\ IsOriginal(code) /\ n = 0 /\ count' = count /\ loop' = loop
      /\ count \in Nat /\ count > 2
  BY DEF IInv, CodeShape, Control, BeginProlog
<1>2. CASE pc' = "run" /\ UNCHANGED <<code, n>>
  <2>1. Control' /\ CodeShape'
    BY <1>1, <1>2 DEF IInv, Control, CodeShape, BeginProlog, Modes
  <2> QED
    BY <1>1, <2>1, StartRunning DEF BeginProlog
<1>3. CASE /\ loop.clonable /\ loop.countable
           /\ code' = Put(Put(code, Enter, Block(FALSE, "extra", PEnd, PEnd)), PEnd, Jump(FALSE, Body(0)))
           /\ n' = count - 1 /\ pc' = "extra"
  <2>1. code' = Put(Put(code, Enter, Guard("extra", PEnd, PEnd)), PEnd, Go(Body(0)))
    BY <1>3, Zenon DEF Guard, Go
  <2>2. IsPrologOf(code', count, count - 1, Go(Body(0)))
    BY <1>1, <2>1, PrologBegun
  <2>3. Control'
    BY <1>1, <1>3 DEF IInv, Control, BeginProlog
  <2>4. CodeShape'
    <3>1. IsPrologOf(code', count', n', Go(Body(0)))
      BY <1>1, <1>3, <2>2, Zenon
    <3>2. Suits("latchRuntime")' /\ n' \in 0 .. count' - 1
      BY <1>1, <1>3 DEF Suits
    <3> QED
      BY <1>3, <3>1, <3>2 DEF CodeShape, Modes
  <2> QED
    BY <1>1, <2>3, <2>4, StartRunning DEF BeginProlog
<1> QED
  BY <1>2, <1>3 DEF BeginProlog

\* With each copy the prolog can do one more left over iteration.
LEMMA CloneExtraStep ==
  ASSUME IInv, CloneExtra
  PROVE  IInv'
<1> DEFINE last == Go(Body(0))
<1>1. /\ pc = "extra" /\ n \in 1 .. count - 1 /\ count \in Nat /\ count > 2
      /\ Suits("latchRuntime") /\ IsPrologOf(code, count, n, last)
      /\ n' = n - 1 /\ pc' = pc /\ count' = count /\ loop' = loop
  BY DEF IInv, CodeShape, Control, CloneExtra, Suits
<1>2. PICK linked : linked = Moved(code, LastCopy, Extra(n), Enter)
  OBVIOUS
<1>3. PICK copied : copied = Put(linked, Extra(n), Run(PEnd))
  OBVIOUS
<1>4. code' = IF n = count - 1 THEN copied
              ELSE [Put(copied, Compare(n), Guard("equal", Extra(n), CompareBB))
                      EXCEPT ![Enter].then = Compare(n)]
  BY <1>2, <1>3 DEF CloneExtra, Run, Guard, Moved
<1>5. /\ DOMAIN copied = DOMAIN linked \cup {Extra(n)}
      /\ copied[Extra(n)] = Run(PEnd)
      /\ \A c \in DOMAIN linked \ {Extra(n)} : copied[c] = linked[c]
  BY <1>3 DEF Put
<1>6. {Enter, PEnd, Body(0)} \subseteq DOMAIN code
  BY <1>1 DEF IsPrologOf, PrologBlocks
<1>7. Extra(n) # Enter /\ Extra(n + 1) # Enter /\ Compare(n) # Enter
      /\ Extra(n) # Extra(n + 1) /\ Compare(n) # Extra(n) /\ Compare(n) # Extra(n + 1)
  BY <1>1, BlockNames
<1>8. IsPrologOf(code', count, n - 1, last)
  <2>1. CASE n = count - 1
    <3>1. LastCopy = Enter
      BY <2>1 DEF LastCopy
    <3>2. code[Enter] = Guard("extra", PEnd, PEnd)
      BY <1>1, <2>1 DEF IsPrologOf, IsProlog, FirstCompare
    <3>3. /\ DOMAIN linked = DOMAIN code
          /\ linked[Enter] = Guard("extra", Extra(n), PEnd)
          /\ \A c \in DOMAIN code \ {Enter} : linked[c] = code[c]
      <4>1. PICK test, to, b : test = "extra" /\ to = Extra(n) /\ b = Enter
        OBVIOUS
      <4>2. linked = Moved(code, b, to, b) /\ code[b] = Guard(test, PEnd, PEnd) /\ b \in DOMAIN code
        BY <1>2, <1>6, <3>1, <3>2, <4>1
      <4>3. /\ DOMAIN linked = DOMAIN code
            /\ linked[b] = Guard(test, to, PEnd)
            /\ \A c \in DOMAIN code \ {b} : linked[c] = code[c]
        BY <4>2, GuardKept
      <4> QED
        BY <4>1, <4>3
    <3>4. code' = copied
      BY <1>4, <2>1
    <3>5. /\ DOMAIN code' = DOMAIN code \cup {Extra(n)}
          /\ code'[Extra(n)] = Run(PEnd)
          /\ code'[Enter] = Guard("extra", Extra(n), PEnd)
          /\ \A c \in DOMAIN code \ {Enter, Extra(n)} : code'[c] = code[c]
      BY <1>5, <1>6, <1>7, <3>3, <3>4
    <3> QED
      BY <1>1, <2>1, <3>5, FirstCopyMade
  <2>2. CASE n # count - 1
    <3>1. LastCopy = Extra(n + 1) /\ n \in 1 .. count - 2
      BY <1>1, <2>2 DEF LastCopy
    <3>2. /\ Extra(n + 1) \in DOMAIN code
          /\ code[Extra(n + 1)] = Run(PEnd)
      <4>1. n + 1 \in n + 1 .. count - 1
        BY <1>1, <3>1
      <4> QED
        BY <1>1, <4>1 DEF IsPrologOf, PrologBlocks, IsProlog, NextCopy
    <3>3. /\ DOMAIN linked = DOMAIN code
          /\ linked[Extra(n + 1)] = Run(Extra(n))
          /\ \A c \in DOMAIN code \ {Extra(n + 1)} : linked[c] = code[c]
      <4>1. linked = Moved(code, Extra(n + 1), Extra(n), Enter)
        BY <1>2, <3>1, Zenon
      <4> QED
        BY <1>7, <3>2, <4>1, RunMoved
    <3>4. CompareBB = FirstCompare(count, n)
      BY <1>1, <3>1 DEF CompareBB, FirstCompare
    <3>5. PICK put : put = Put(copied, Compare(n), Guard("equal", Extra(n), FirstCompare(count, n)))
      OBVIOUS
    <3>6. /\ DOMAIN put = DOMAIN copied \cup {Compare(n)}
          /\ put[Compare(n)] = Guard("equal", Extra(n), FirstCompare(count, n))
          /\ \A c \in DOMAIN copied \ {Compare(n)} : put[c] = copied[c]
      BY <3>5 DEF Put
    <3>7. code' = [put EXCEPT ![Enter].then = Compare(n)]
      BY <1>4, <2>2, <3>4, <3>5, Zenon
    <3>8. code[Enter] = Guard("extra", FirstCompare(count, n), PEnd)
      BY <1>1 DEF IsPrologOf, IsProlog
    <3>9. Enter \in DOMAIN put /\ put[Enter] = Guard("extra", FirstCompare(count, n), PEnd)
      BY <1>5, <1>6, <1>7, <3>3, <3>6, <3>8
    <3>10. /\ DOMAIN code' = DOMAIN put
           /\ code'[Enter] = Guard("extra", Compare(n), PEnd)
           /\ \A c \in DOMAIN put \ {Enter} : code'[c] = put[c]
      BY <3>7, <3>9, GuardMoved
    <3>11. /\ DOMAIN code' = DOMAIN code \cup {Extra(n), Compare(n)}
           /\ code'[Extra(n)] = Run(PEnd)
           /\ code'[Extra(n + 1)] = Run(Extra(n))
           /\ code'[Compare(n)] = Guard("equal", Extra(n), FirstCompare(count, n))
           /\ \A c \in DOMAIN code \ {Enter, Extra(n), Extra(n + 1), Compare(n)} : code'[c] = code[c]
      BY <1>5, <1>7, <3>2, <3>3, <3>6, <3>10
    <3> QED
      BY <1>1, <3>1, <3>10, <3>11, NextCopyMade
  <2> QED
    BY <2>1, <2>2
<1>9. Control'
  BY <1>1 DEF IInv, Control, CloneExtra
<1>10. CodeShape'
  <2>1. IsPrologOf(code', count', n', Go(Body(0)))
    BY <1>1, <1>8, Zenon
  <2>2. Suits("latchRuntime")' /\ n' \in 0 .. count' - 1
    BY <1>1 DEF Suits
  <2> QED
    BY <1>1, <2>1, <2>2 DEF CodeShape, Modes
<1> QED
  BY <1>1, <1>9, <1>10, StartRunning DEF CloneExtra

\* The prolog is finished.
LEMMA ConnectPrologStep ==
  ASSUME IInv, ConnectProlog
  PROVE  IInv'
<1>1. /\ pc = "extra" /\ n = 0 /\ count \in Nat
      /\ Suits("latchRuntime") /\ IsPrologOf(code, count, 0, Go(Body(0)))
      /\ n' = n /\ pc' = "runtime" /\ count' = count /\ loop' = loop
  BY DEF IInv, CodeShape, Control, ConnectProlog, Suits
<1>2. code' = [code EXCEPT ![PEnd] = Guard("short", Exit, Body(0))]
  BY DEF ConnectProlog, Guard
<1>3. IsPrologOf(code', count, 0, Guard("short", Exit, Body(0)))
  <2>1. PICK to : to = Guard("short", Exit, Body(0))
    OBVIOUS
  <2>2. code' = [code EXCEPT ![PEnd] = to]
    BY <1>2, <2>1
  <2>3. IsPrologOf(code', count, 0, to)
    BY <1>1, <2>2, PrologConnected
  <2> QED
    BY <2>1, <2>3
<1>4. Control'
  BY <1>1 DEF IInv, Control, ConnectProlog
<1>5. CodeShape'
  <2>1. IsPrologOf(code', count', 0, Guard("short", Exit, Body(0)))
    BY <1>1, <1>3, Zenon
  <2>2. Suits("latchRuntime")'
    BY <1>1 DEF Suits
  <2> QED
    BY <1>1, <2>1, <2>2 DEF CodeShape, Modes
<1> QED
  BY <1>1, <1>4, <1>5, StartRunning DEF ConnectProlog

\* The loop has its copies, none of which is connected yet.
LEMMA CloneBodiesStep ==
  ASSUME IInv, CloneBodies
  PROVE  IInv'
<1>1. /\ pc \in {"complete", "unroll", "runtime"} /\ count \in Nat
      /\ n' = 0 /\ count' = count /\ loop' = loop
  BY DEF IInv, Control, CloneBodies
<1>2. CASE pc' = "run" /\ code' = code /\ pc = "unroll"
  <2>1. Control' /\ CodeShape'
    BY <1>1, <1>2 DEF IInv, Control, CodeShape, CloneBodies, Modes
  <2> QED
    BY <1>1, <2>1, StartRunning DEF CloneBodies
<1>3. CASE /\ ~(pc = "unroll" /\ (~loop.clonable \/ count < 2))
           /\ code' = [b \in DOMAIN code \cup {Body(k) : k \in 1 .. count - 1} |->
                         IF b \in DOMAIN code THEN code[b] ELSE Latch(b)]
           /\ pc' = [complete |-> "latchComplete", unroll |-> "latchUnroll", runtime |-> "latchRuntime"][pc]
  <2>1. /\ DOMAIN code' = DOMAIN code \cup {Body(k) : k \in 1 .. count - 1}
        /\ \A b \in DOMAIN code : code'[b] = code[b]
        /\ \A b \in DOMAIN code' \ DOMAIN code : code'[b] = Latch(b)
    BY <1>3
  <2>2. count > 0 /\ \E mode \in Modes : pc' = mode /\ Suits(mode)' /\ IsUnrolled(code', mode, count, 0)
    <3>1. CASE pc = "runtime"
      <4>1. Suits("latchRuntime") /\ IsPrologOf(code, count, 0, Guard("short", Exit, Body(0)))
        BY <3>1 DEF IInv, CodeShape
      <4>2. pc' = "latchRuntime" /\ count > 0
        BY <1>3, <3>1, <4>1 DEF Suits
      <4>3. IsUnrolled(code', "latchRuntime", count, 0)
        BY <1>1, <2>1, <4>1, <4>2, RuntimeBodiesCloned
      <4> QED
        BY <1>1, <4>1, <4>2, <4>3 DEF Suits, Modes
    <3>2. CASE pc = "complete"
      <4>1. Suits("latchComplete") /\ IsOriginal(code)
        BY <3>2 DEF IInv, CodeShape
      <4>2. pc' = "latchComplete" /\ count > 0
        BY <1>3, <3>2, <4>1 DEF Suits
      <4>3. IsUnrolled(code', "latchComplete", count, 0)
        BY <1>1, <2>1, <4>1, <4>2, BodiesCloned
      <4> QED
        BY <1>1, <4>1, <4>2, <4>3 DEF Suits, Modes
    <3>3. CASE pc = "unroll"
      <4>1. count >= 2 /\ IsOriginal(code)
        BY <1>1, <1>3, <3>3 DEF IInv, CodeShape
      <4>2. pc' = "latchUnroll" /\ count > 0
        BY <1>1, <1>3, <3>3, <4>1
      <4>3. IsUnrolled(code', "latchUnroll", count, 0)
        BY <1>1, <2>1, <4>1, <4>2, BodiesCloned
      <4> QED
        BY <1>1, <4>1, <4>2, <4>3 DEF Suits, Modes
    <3> QED
      BY <1>1, <3>1, <3>2, <3>3
  <2>3. Control'
    BY <1>1, <2>2 DEF IInv, Control, CloneBodies, Modes
  <2>4. CodeShape'
    BY <1>1, <2>2 DEF CodeShape, Modes
  <2> QED
    BY <1>1, <2>3, <2>4, StartRunning DEF CloneBodies
<1>4. \/ pc' = "run" /\ code' = code /\ pc = "unroll"
      \/ /\ ~(pc = "unroll" /\ (~loop.clonable \/ count < 2))
         /\ code' = [b \in DOMAIN code \cup {Body(k) : k \in 1 .. count - 1} |->
                       IF b \in DOMAIN code THEN code[b] ELSE Latch(b)]
         /\ pc' = [complete |-> "latchComplete", unroll |-> "latchUnroll", runtime |-> "latchRuntime"][pc]
  BY Zenon DEF CloneBodies, Latch
<1> QED
  BY <1>2, <1>3, <1>4

\* One more of the copies is connected; behind the last the code may run.
LEMMA ConnectLatchStep ==
  ASSUME IInv, ConnectLatch
  PROVE  IInv'
<1>1. /\ pc \in Modes /\ count \in Nat \ {0} /\ n \in 0 .. count - 1
      /\ Suits(pc) /\ IsUnrolled(code, pc, count, n)
      /\ n' = n + 1 /\ count' = count /\ loop' = loop
      /\ pc' = IF n + 1 = count THEN "run" ELSE pc
  BY DEF IInv, CodeShape, Control, ConnectLatch, Suits, Modes
<1>2. PICK j : /\ j = (n + 1) % count
               /\ code' = IF NeedConditional(j) THEN [code EXCEPT ![Body(n)].then = Dest(j)]
                          ELSE [code EXCEPT ![Body(n)] = Run(Dest(j))]
  BY Zenon DEF ConnectLatch, Run
<1>3. j = IF n = count - 1 THEN 0 ELSE n + 1
  <2>1. CASE n = count - 1
    <3>1. 1 \in Nat /\ 0 \in 0 .. count - 1 /\ n + 1 = count * 1 + 0
      BY <1>1, <2>1
    <3>2. (n + 1) % count = 0
      BY <1>1, <3>1, Remainder
    <3> QED
      BY <1>2, <2>1, <3>2
  <2>2. CASE n # count - 1
    <3>1. 0 \in Nat /\ n + 1 \in 0 .. count - 1 /\ n + 1 = count * 0 + (n + 1)
      BY <1>1, <2>2
    <3>2. (n + 1) % count = n + 1
      BY <1>1, <3>1, Remainder
    <3> QED
      BY <1>2, <2>2, <3>2
  <2> QED
    BY <2>1, <2>2
<1>4. Body(n) \in DOMAIN code /\ code[Body(n)] = Latch(Body(n))
  BY <1>1 DEF IsUnrolled, Bodies
<1>5. /\ DOMAIN code' = DOMAIN code
      /\ code'[Body(n)] = IF NeedConditional(j) THEN Latch(Dest(j)) ELSE Run(Dest(j))
      /\ \A c \in DOMAIN code \ {Body(n)} : code'[c] = code[c]
  <2>1. CASE NeedConditional(j)
    <3>1. code' = [code EXCEPT ![Body(n)].then = Dest(j)]
      BY <1>2, <2>1
    <3> QED
      BY <1>4, <2>1, <3>1, LatchMoved
  <2>2. CASE ~NeedConditional(j)
    <3>1. code' = [code EXCEPT ![Body(n)] = Run(Dest(j))]
      BY <1>2, <2>2
    <3> QED
      BY <1>4, <2>2, <3>1
  <2> QED
    BY <2>1, <2>2
<1>6. (IF NeedConditional(j) THEN Latch(Dest(j)) ELSE Run(Dest(j))) = Connected(pc, count, n)
  BY <1>1, <1>3 DEF NeedConditional, Dest, Connected, Modes
<1>7. IsUnrolled(code', pc, count, n + 1)
  BY <1>1, <1>5, <1>6, LatchConnected
<1>8. Control'
  BY <1>1 DEF IInv, Control, ConnectLatch, Modes
<1>9. CodeShape'
  <2>1. \A mode : Suits(mode) => Suits(mode)'
    BY <1>1 DEF Suits
  <2>2. CASE n + 1 = count
    BY <1>1, <1>7, <2>1, <2>2 DEF CodeShape, Modes
  <2>3. CASE n + 1 # count
    BY <1>1, <1>7, <2>1, <2>3 DEF CodeShape, Modes
  <2> QED
    BY <2>2, <2>3
<1> QED
  BY <1>1, <1>8, <1>9, StartRunning DEF ConnectLatch, Modes
-----------------------------------------------------------------------------
(* The code runs *)

\* What decides at the end of each sort of block
LEMMA Tests ==
  ASSUME NEW b
  PROVE  /\ code[b].test = "always" => Test(b)
         /\ code[b].test = "latch" => (Test(b) <=> done + 1 # loop.trips)
         /\ code[b].test = "extra" => (Test(b) <=> ModVal # 0)
         /\ code[b].test = "equal" => (Test(b) <=> ModVal = b[2])
         /\ code[b].test = "short" => (Test(b) <=> TripCountValue < count)
BY DEF Test

\* Where each sort of block leads to
LEMMA Moves ==
  ASSUME Step, NEW b, NEW c
  PROVE  /\ code[at] = Go(b) => at' = b /\ done' = done
         /\ code[at] = Run(b) => at' = b /\ done' = done + 1
         /\ code[at] = Latch(b) => done' = done + 1 /\ at' = IF done + 1 # loop.trips THEN b ELSE Exit
         /\ code[at] = Guard("extra", b, c) => done' = done /\ at' = IF ModVal # 0 THEN b ELSE c
         /\ code[at] = Guard("equal", b, c) => done' = done /\ at' = IF ModVal = at[2] THEN b ELSE c
         /\ code[at] = Guard("short", b, c) => done' = done /\ at' = IF TripCountValue < count THEN b ELSE c
<1>1. /\ at' = IF Test(at) THEN code[at].then ELSE code[at].else
      /\ done' = IF code[at].body THEN done + 1 ELSE done
  BY DEF Step
<1>2. ASSUME code[at] = Go(b) PROVE at' = b /\ done' = done
  BY <1>1, <1>2, BlockFields, Tests
<1>3. ASSUME code[at] = Run(b) PROVE at' = b /\ done' = done + 1
  BY <1>1, <1>3, BlockFields, Tests
<1>4. ASSUME code[at] = Latch(b)
      PROVE  done' = done + 1 /\ at' = IF done + 1 # loop.trips THEN b ELSE Exit
  <2>1. code[at].test = "latch" /\ code[at].then = b /\ code[at].else = Exit /\ code[at].body
    BY <1>4, BlockFields
  <2> QED
    BY <1>1, <2>1, Tests
<1>5. ASSUME code[at] = Guard("extra", b, c)
      PROVE  done' = done /\ at' = IF ModVal # 0 THEN b ELSE c
  <2>1. code[at].test = "extra" /\ code[at].then = b /\ code[at].else = c /\ ~code[at].body
    BY <1>5, BlockFields
  <2> QED
    BY <1>1, <2>1, Tests
<1>6. ASSUME code[at] = Guard("equal", b, c), NEW k, k = at[2]
      PROVE  done' = done /\ at' = IF ModVal = k THEN b ELSE c
  <2>1. code[at].test = "equal" /\ code[at].then = b /\ code[at].else = c /\ ~code[at].body
    BY <1>6, BlockFields
  <2> QED
    BY <1>1, <1>6, <2>1, Tests
<1>7. ASSUME code[at] = Guard("short", b, c)
      PROVE  done' = done /\ at' = IF TripCountValue < count THEN b ELSE c
  <2>1. code[at].test = "short" /\ code[at].then = b /\ code[at].else = c /\ ~code[at].body
    BY <1>7, BlockFields
  <2> QED
    BY <1>1, <2>1, Tests
<1> QED
  BY <1>2, <1>3, <1>4, <1>5, <1>6, <1>7

\* A product is no less than its factors.
LEMMA Product ==
  ASSUME NEW a \in Nat \ {0}, NEW b \in Nat \ {0}
  PROVE  a * b \in Nat /\ a * b >= a /\ a * b >= b
<1>1. a * b \in Nat
  OBVIOUS
<1>2. PICK c \in Nat : c = a * (b - 1) /\ a * b = c + a
  OBVIOUS
<1>3. PICK d \in Nat : d = (a - 1) * b /\ a * b = d + b
  OBVIOUS
<1> DEFINE m == a * b
<1>4. m \in Nat /\ m = c + a /\ m = d + b
  BY <1>1, <1>2, <1>3
<1> HIDE DEF m
<1>5. m \in Nat /\ m >= a /\ m >= b
  BY <1>4
<1> QED
  BY <1>5 DEF m

\* A round of the unrolled loop leaves one multiple of the factor less to do.
LEMMA RoundDone ==
  ASSUME NEW factor \in Nat \ {0}, NEW trips \in Nat, NEW ran \in Nat, ran < trips,
         ran + 1 # trips, NEW q \in 1 .. trips, trips - ran + (factor - 1) = factor * q
  PROVE  \E p \in 1 .. trips : trips - (ran + 1) + 0 = factor * p
<1>1. PICK p \in Nat : p = q - 1
  OBVIOUS
<1>2. factor * p = factor * q - factor
  BY <1>1
<1>3. trips - (ran + 1) + 0 = factor * p
  BY <1>2
<1>4. p # 0
  <2> SUFFICES ASSUME p = 0 PROVE FALSE
    OBVIOUS
  <2>1. factor * p = 0
    OBVIOUS
  <2> QED
    BY <1>3, <2>1
<1>5. p \in 1 .. trips
  BY <1>1, <1>4
<1> QED
  BY <1>3, <1>5

\* In the middle of a round there is more to do.
LEMMA RoundGoesOn ==
  ASSUME NEW factor \in Nat \ {0}, NEW trips \in Nat, NEW ran \in Nat, NEW k \in 0 .. factor - 2,
         NEW q \in 1 .. trips, trips - ran + k = factor * q
  PROVE  ran + 1 < trips
<1> DEFINE m == factor * q
<1>1. m \in Nat /\ m >= factor
  BY Product
<1>2. m = trips - ran + k
  OBVIOUS
<1> HIDE DEF m
<1> QED
  BY <1>1, <1>2

\* The trip count the prolog computes is the one of the loop, or 0.
LEMMA TripFacts ==
  ASSUME loop \in Loops
  PROVE  /\ TripCountValue \in Nat /\ TripCountValue <= loop.trips
         /\ TripCountValue # 0 => TripCountValue = loop.trips
         /\ loop.trips < 2^TripWidth => TripCountValue = loop.trips
<1>1. PICK w : w = 2^TripWidth
  OBVIOUS
<1>2. loop.trips \in Nat \ {0} /\ loop.trips <= w /\ w \in Nat \ {0}
  BY <1>1, LoopFacts
<1>3. TripCountValue = loop.trips % w
  BY <1>1 DEF TripCountValue
<1>4. CASE loop.trips < w
  <2>1. 0 \in Nat /\ loop.trips \in 0 .. w - 1 /\ loop.trips = w * 0 + loop.trips
    BY <1>2, <1>4
  <2>2. loop.trips % w = loop.trips
    BY <1>2, <2>1, Remainder
  <2> QED
    BY <1>2, <1>3, <2>2
<1>5. CASE loop.trips = w
  <2>1. 1 \in Nat /\ 0 \in 0 .. w - 1 /\ loop.trips = w * 1 + 0
    BY <1>2, <1>5
  <2>2. loop.trips % w = 0
    BY <1>2, <2>1, Remainder
  <2> QED
    BY <1>1, <1>2, <1>3, <1>5, <2>2
<1> QED
  BY <1>2, <1>4, <1>5

\* What the prolog has to do
LEMMA ModFacts ==
  ASSUME loop \in Loops, count \in Nat \ {0}
  PROVE  /\ ModVal \in 0 .. count - 1 /\ ModVal <= TripCountValue
         /\ \E q \in Nat : TripCountValue = count * q + ModVal
         /\ TripCountValue < count => ModVal = TripCountValue
<1>1. TripCountValue \in Nat
  BY TripFacts
<1>2. PICK q \in Nat : TripCountValue = count * q + (TripCountValue % count) /\ TripCountValue % count \in 0 .. count - 1
  BY <1>1, Division
<1>3. ModVal \in 0 .. count - 1 /\ TripCountValue = count * q + ModVal
  BY <1>2 DEF ModVal
<1>4. count * q >= 0
  OBVIOUS
<1>5. ASSUME TripCountValue < count
      PROVE  ModVal = TripCountValue
  <2>1. 0 \in Nat /\ TripCountValue \in 0 .. count - 1 /\ TripCountValue = count * 0 + TripCountValue
    BY <1>1, <1>5
  <2>2. TripCountValue % count = TripCountValue
    BY <1>1, <2>1, Remainder
  <2> QED
    BY <2>2 DEF ModVal
<1> QED
  BY <1>1, <1>3, <1>4, <1>5

\* A step of the running code runs a body, and leaves the loop only after the
\* last one; or it runs none, and leaves the loop only from the end of the
\* prolog, which has then run all there is, as far as it knows.
RunsBody ==
  /\ done' = done + 1 /\ done < loop.trips
  /\ at' = Exit => done' = loop.trips

RunsNone ==
  /\ done' = done
  /\ at' = Exit => done = TripCountValue /\ loop.clonable /\ loop.countable

Effect == Running' /\ (RunsBody \/ RunsNone)

\* The code runs on in the same unrolled loop.
LEMMA RunningOn ==
  ASSUME Step, NEW mode \in Modes, Suits(mode), IsUnrolled(code, mode, count, count),
         InUnrolled(mode)'
  PROVE  Running'
<1>1. code' = code /\ count' = count /\ loop' = loop
  BY DEF Step
<1>2. Suits(mode)' /\ IsUnrolled(code', mode, count', count')
  BY <1>1 DEF Suits
<1> QED
  BY <1>2 DEF Running

\* The original loop
LEMMA OriginalStep ==
  ASSUME IInv, Step, IsOriginal(code), InOriginal, done < loop.trips
  PROVE  Effect
<1>1. /\ loop \in Loops /\ loop' = loop /\ code' = code
      /\ loop.trips \in Nat \ {0} /\ done \in Nat
  BY LoopFacts DEF IInv, Control, Position, Step
<1>2. Body(0) # Exit /\ Body(0) # Enter
  BY BlockNames
<1>3. CASE at = Enter
  <2>1. code[at] = Go(Body(0))
    BY <1>3 DEF IsOriginal
  <2>2. at' = Body(0) /\ done' = done
    BY <2>1, Moves
  <2> QED
    BY <1>1, <1>2, <2>2 DEF Effect, RunsNone, Running, InOriginal
<1>4. CASE at = Body(0)
  <2>1. code[at] = Latch(Body(0))
    BY <1>4 DEF IsOriginal
  <2>2. done' = done + 1 /\ at' = IF done + 1 # loop.trips THEN Body(0) ELSE Exit
    BY <2>1, Moves
  <2>3. RunsBody
    BY <1>2, <2>2 DEF RunsBody
  <2>4. Running'
    BY <1>1, <1>2, <2>2 DEF Running, InOriginal
  <2> QED
    BY <2>3, <2>4 DEF Effect
<1> QED
  BY <1>3, <1>4 DEF InOriginal

\* The bodies of the unrolled loop
LEMMA BodyStep ==
  ASSUME IInv, Step, NEW mode \in Modes, Suits(mode), IsUnrolled(code, mode, count, count),
         InBodies(mode), done < loop.trips
  PROVE  Effect
<1>1. /\ loop \in Loops /\ loop' = loop /\ count' = count
      /\ loop.trips \in Nat \ {0} /\ done \in Nat /\ count \in Nat \ {0}
  BY LoopFacts DEF IInv, Control, Position, Step, Suits
<1>2. \A k \in Int : Body(k) # Exit
  BY BlockNames
<1>3. PICK k \in 0 .. count - 1 : /\ at = Body(k)
                                  /\ mode = "latchComplete" => done = k
                                  /\ mode = "latchRuntime" => Whole(k)
  BY DEF InBodies
<1>4. code[at] = Connected(mode, count, k)
  BY <1>1, <1>3 DEF IsUnrolled
<1>5. ASSUME NEW j \in 0 .. count - 1, at' = Body(j), done' = done + 1, done + 1 < loop.trips,
             mode = "latchComplete" => done + 1 = j,
             mode = "latchRuntime" => \E p \in 1 .. loop.trips : loop.trips - (done + 1) + j = count * p
      PROVE  Effect
  <2>1. Whole(j)' \/ mode # "latchRuntime"
    BY <1>1, <1>5 DEF Whole
  <2>2. InBodies(mode)'
    BY <1>1, <1>5, <2>1 DEF InBodies
  <2>3. InUnrolled(mode)'
    BY <1>1, <1>5, <2>2 DEF InUnrolled
  <2>4. Running'
    BY <2>3, RunningOn
  <2>5. RunsBody
    BY <1>2, <1>5 DEF RunsBody
  <2> QED
    BY <2>4, <2>5 DEF Effect
<1>6. ASSUME at' = Exit, done' = done + 1, done + 1 = loop.trips
      PROVE  Effect
  BY <1>6 DEF Effect, Running, RunsBody
<1>7. CASE k = count - 1 /\ mode = "latchComplete"
  <2>1. code[at] = Run(Exit)
    BY <1>4, <1>7 DEF Connected
  <2>2. at' = Exit /\ done' = done + 1
    BY <2>1, Moves
  <2>3. done + 1 = loop.trips
    BY <1>1, <1>3, <1>7 DEF Suits
  <2> QED
    BY <1>6, <2>2, <2>3
<1>8. CASE k = count - 1 /\ mode # "latchComplete"
  <2>1. code[at] = Latch(Body(0))
    BY <1>4, <1>8 DEF Connected
  <2>2. done' = done + 1 /\ at' = IF done + 1 # loop.trips THEN Body(0) ELSE Exit
    BY <2>1, Moves
  <2>3. CASE done + 1 = loop.trips
    BY <1>6, <2>2, <2>3
  <2>4. CASE done + 1 # loop.trips
    <3>1. ASSUME mode = "latchRuntime"
          PROVE  \E p \in 1 .. loop.trips : loop.trips - (done + 1) + 0 = count * p
      <4>1. PICK q \in 1 .. loop.trips : loop.trips - done + k = count * q
        BY <1>3, <3>1 DEF Whole
      <4>2. loop.trips - done + (count - 1) = count * q
        BY <1>8, <4>1
      <4> QED
        BY <1>1, <2>4, <4>2, RoundDone
    <3>2. at' = Body(0) /\ done + 1 < loop.trips /\ 0 \in 0 .. count - 1
      BY <1>1, <2>2, <2>4
    <3> QED
      BY <1>5, <1>8, <2>2, <3>1, <3>2
  <2> QED
    BY <2>3, <2>4
<1>9. CASE k \in 0 .. count - 2 /\ mode = "latchUnroll"
  <2>1. code[at] = Latch(Body(k + 1))
    BY <1>1, <1>4, <1>9 DEF Connected
  <2>2. done' = done + 1 /\ at' = IF done + 1 # loop.trips THEN Body(k + 1) ELSE Exit
    BY <2>1, Moves
  <2>3. CASE done + 1 = loop.trips
    BY <1>6, <2>2, <2>3
  <2>4. CASE done + 1 # loop.trips
    <3>1. at' = Body(k + 1) /\ done + 1 < loop.trips /\ k + 1 \in 0 .. count - 1
      BY <1>1, <1>9, <2>2, <2>4
    <3> QED
      BY <1>5, <1>9, <2>2, <3>1
  <2> QED
    BY <2>3, <2>4
<1>10. CASE k \in 0 .. count - 2 /\ mode # "latchUnroll"
  <2>1. code[at] = Run(Body(k + 1))
    BY <1>1, <1>4, <1>10 DEF Connected
  <2>2. done' = done + 1 /\ at' = Body(k + 1) /\ k + 1 \in 0 .. count - 1
    BY <1>1, <1>10, <2>1, Moves
  <2>3. CASE mode = "latchComplete"
    <3>1. done + 1 = k + 1 /\ done + 1 < loop.trips
      BY <1>1, <1>3, <1>10, <2>3 DEF Suits
    <3> QED
      BY <1>5, <2>2, <2>3, <3>1
  <2>4. CASE mode = "latchRuntime"
    <3>1. PICK q \in 1 .. loop.trips : loop.trips - done + k = count * q
      BY <1>3, <2>4 DEF Whole
    <3>2. done + 1 < loop.trips
      BY <1>1, <1>10, <3>1, RoundGoesOn
    <3>3. loop.trips - (done + 1) + (k + 1) = count * q
      BY <1>1, <3>1
    <3> QED
      BY <1>5, <2>2, <2>4, <3>2, <3>3
  <2> QED
    BY <1>10, <2>3, <2>4 DEF Modes
<1>11. k = count - 1 \/ k \in 0 .. count - 2
  BY <1>1
<1> QED
  BY <1>7, <1>8, <1>9, <1>10, <1>11

\* The prolog runs the iterations that are left over, and no more; it goes on
\* to the loop when at least a round of it is to be done.
LEMMA PrologStep ==
  ASSUME IInv, Step, Suits("latchRuntime"), IsUnrolled(code, "latchRuntime", count, count), InProlog
  PROVE  Effect
<1>1. /\ loop \in Loops /\ loop' = loop /\ count' = count
      /\ loop.trips \in Nat \ {0} /\ done \in Nat
      /\ count \in Nat \ {0} /\ count > 2 /\ loop.clonable /\ loop.countable
  BY LoopFacts DEF IInv, Control, Position, Step, Suits
<1>2. /\ \A k \in Int : Body(k) # Exit /\ Extra(k) # Exit /\ Compare(k) # Exit
      /\ PEnd # Exit
  BY BlockNames
<1>3. TripCountValue' = TripCountValue /\ ModVal' = ModVal
  BY <1>1 DEF TripCountValue, ModVal
<1>4. /\ TripCountValue \in Nat /\ TripCountValue <= loop.trips
      /\ TripCountValue # 0 => TripCountValue = loop.trips
  BY <1>1, TripFacts
<1>5. /\ ModVal \in 0 .. count - 1 /\ ModVal <= TripCountValue
      /\ TripCountValue < count => ModVal = TripCountValue
  BY <1>1, ModFacts
<1>6. IsProlog(code, count, 0) /\ code[PEnd] = Guard("short", Exit, Body(0))
  BY DEF IsUnrolled
<1>7. ASSUME InProlog', at' # Exit,
             done' = done \/ (done' = done + 1 /\ done < loop.trips)
      PROVE  Effect
  <2>1. InUnrolled("latchRuntime")'
    BY <1>7 DEF InUnrolled
  <2>2. Running'
    BY <2>1, RunningOn DEF Modes
  <2> QED
    BY <1>7, <2>2 DEF Effect, RunsBody, RunsNone
<1>8. CASE at = Enter /\ done = 0
  <2>1. code[at] = Guard("extra", Compare(1), PEnd)
    BY <1>1, <1>6, <1>8 DEF IsProlog, FirstCompare
  <2>2. done' = done /\ at' = IF ModVal # 0 THEN Compare(1) ELSE PEnd
    BY <2>1, Moves
  <2>3. InProlog' /\ at' # Exit
    <3>1. CASE ModVal = 0
      BY <1>1, <1>2, <1>3, <1>8, <2>2, <3>1 DEF InProlog
    <3>2. CASE ModVal # 0
      <4>1. 1 \in 1 .. count - 2 /\ at' = Compare(1) /\ done' = 0 /\ 1 <= ModVal
        BY <1>1, <1>5, <1>8, <2>2, <3>2
      <4> QED
        BY <1>1, <1>2, <1>3, <4>1 DEF InProlog
    <3> QED
      BY <3>1, <3>2
  <2> QED
    BY <1>7, <2>2, <2>3
<1>9. ASSUME NEW k \in 1 .. count - 2, at = Compare(k), done = 0, k <= ModVal
      PROVE  Effect
  <2>1. code[at] = Guard("equal", Extra(k), FirstCompare(count, k))
    BY <1>1, <1>6, <1>9 DEF IsProlog
  <2>2. at[2] = k
    BY <1>1, <1>9, BlockNames
  <2>3. done' = done /\ at' = IF ModVal = k THEN Extra(k) ELSE FirstCompare(count, k)
    BY <2>1, <2>2, Moves
  <2>4. InProlog' /\ at' # Exit
    <3>1. CASE ModVal = k
      <4>1. k \in 1 .. count - 1 /\ at' = Extra(k) /\ done' + k = ModVal
        BY <1>1, <1>9, <2>3, <3>1
      <4> QED
        BY <1>1, <1>2, <1>3, <4>1 DEF InProlog
    <3>2. CASE ModVal # k /\ k = count - 2
      <4>1. /\ count - 1 \in 1 .. count - 1 /\ at' = Extra(count - 1)
            /\ done' + (count - 1) = ModVal
        BY <1>1, <1>5, <1>9, <2>3, <3>2 DEF FirstCompare
      <4> QED
        BY <1>1, <1>2, <1>3, <4>1 DEF InProlog
    <3>3. CASE ModVal # k /\ k # count - 2
      <4>1. k + 1 \in 1 .. count - 2 /\ at' = Compare(k + 1) /\ done' = 0 /\ k + 1 <= ModVal
        BY <1>1, <1>5, <1>9, <2>3, <3>3 DEF FirstCompare
      <4> QED
        BY <1>1, <1>2, <1>3, <4>1 DEF InProlog
    <3> QED
      BY <3>1, <3>2, <3>3
  <2> QED
    BY <1>7, <2>3, <2>4
<1>10. ASSUME NEW k \in 1 .. count - 1, at = Extra(k), done + k = ModVal
       PROVE  Effect
  <2>1. code[at] = Run(NextCopy(0, k))
    BY <1>1, <1>6, <1>10 DEF IsProlog
  <2>2. done' = done + 1 /\ at' = NextCopy(0, k)
    BY <2>1, Moves
  <2>3. done < loop.trips
    BY <1>1, <1>4, <1>5, <1>10
  <2>4. InProlog' /\ at' # Exit
    <3>1. CASE k = 1
      <4>1. at' = PEnd /\ done' = ModVal
        BY <1>1, <1>10, <2>2, <3>1 DEF NextCopy
      <4> QED
        BY <1>2, <1>3, <4>1 DEF InProlog
    <3>2. CASE k # 1
      <4>1. k - 1 \in 1 .. count - 1 /\ at' = Extra(k - 1) /\ done' + (k - 1) = ModVal
        BY <1>1, <1>10, <2>2, <3>2 DEF NextCopy
      <4> QED
        BY <1>1, <1>2, <1>3, <4>1 DEF InProlog
    <3> QED
      BY <3>1, <3>2
  <2> QED
    BY <1>7, <2>2, <2>3, <2>4
<1>11. CASE at = PEnd /\ done = ModVal
  <2>1. done' = done /\ at' = IF TripCountValue < count THEN Exit ELSE Body(0)
    BY <1>6, <1>11, Moves
  <2>2. CASE TripCountValue < count
    BY <1>1, <1>5, <1>11, <2>1, <2>2 DEF Effect, Running, RunsNone
  <2>3. CASE ~(TripCountValue < count)
    <3>1. loop.trips = TripCountValue /\ done < loop.trips
      BY <1>1, <1>4, <1>5, <1>11, <2>3
    <3>2. PICK q \in Nat : loop.trips = count * q + ModVal
      BY <1>1, <3>1, ModFacts
    <3>3. q # 0
      <4> SUFFICES ASSUME q = 0 PROVE FALSE
        OBVIOUS
      <4>1. count * q = 0
        BY <1>1
      <4> QED
        BY <1>1, <1>11, <3>1, <3>2, <4>1
    <3>4. count * q \in Nat /\ count * q >= q
      BY <1>1, <3>3, Product
    <3>5. q \in 1 .. loop.trips /\ loop.trips - done' + 0 = count * q
      <4> DEFINE m == count * q
      <4>1. m \in Nat /\ m >= q /\ loop.trips = m + ModVal
        BY <3>2, <3>4
      <4> HIDE DEF m
      <4>2. q \in 1 .. loop.trips /\ loop.trips - done' + 0 = m
        BY <1>1, <1>5, <1>11, <2>1, <3>3, <4>1
      <4> QED
        BY <4>2 DEF m
    <3>6. Whole(0)'
      BY <1>1, <3>5 DEF Whole
    <3>7. 0 \in 0 .. count - 1 /\ at' = Body(0) /\ done' < loop.trips
      BY <1>1, <2>1, <2>3, <3>1
    <3>8. InUnrolled("latchRuntime")'
      BY <1>1, <3>6, <3>7 DEF InUnrolled, InBodies
    <3>9. Running'
      BY <3>8, RunningOn DEF Modes
    <3> QED
      BY <1>2, <2>1, <2>3, <3>9 DEF Effect, RunsNone
  <2> QED
    BY <2>2, <2>3
<1> QED
  BY <1>8, <1>9, <1>10, <1>11 DEF InProlog

\* Wherever the program is, a step runs a body or none, as it should.
LEMMA StepEffect ==
  ASSUME IInv, Step
  PROVE  Effect
<1>1. at # Exit /\ Running
  BY DEF IInv, Position, Step
<1>2. CASE IsOriginal(code) /\ InOriginal /\ done < loop.trips
  BY <1>2, OriginalStep
<1>3. ASSUME NEW mode \in Modes, Suits(mode), IsUnrolled(code, mode, count, count), InUnrolled(mode)
      PROVE  Effect
  <2>1. CASE InBodies(mode) /\ done < loop.trips
    BY <1>3, <2>1, BodyStep
  <2>2. CASE mode # "latchRuntime" /\ at = Enter /\ done = 0
    <3>1. /\ 0 \in 0 .. count - 1 /\ loop \in Loops /\ loop.trips \in Nat \ {0}
      BY <1>3, LoopFacts DEF IInv, Control, Suits
    <3>2. at' = Body(0) /\ done' = done
      <4>1. code[at] = Go(Body(0))
        BY <1>3, <2>2 DEF IsUnrolled
      <4> QED
        BY <4>1, Moves
    <3>3. Body(0) # Exit /\ count' = count /\ loop' = loop
      BY BlockNames DEF Step
    <3>4. InUnrolled(mode)'
      BY <2>2, <3>1, <3>2, <3>3 DEF InUnrolled, InBodies
    <3>5. Running'
      BY <1>3, <3>4, RunningOn
    <3> QED
      BY <3>2, <3>3, <3>5 DEF Effect, RunsNone
  <2>3. CASE mode = "latchRuntime" /\ InProlog
    BY <1>3, <2>3, PrologStep
  <2> QED
    BY <1>3, <2>1, <2>2, <2>3 DEF InUnrolled
<1> QED
  BY <1>1, <1>2, <1>3 DEF Running

\* A step of the code that runs keeps the invariant,
LEMMA StepStep ==
  ASSUME IInv, Step
  PROVE  IInv'
<1>1. Effect
  BY StepEffect
<1>2. /\ pc = "run" /\ pc' = pc /\ loop' = loop /\ pass' = pass
      /\ count' = count /\ n' = n /\ code' = code
  BY DEF Step
<1>3. Control'
  BY <1>2 DEF IInv, Control
<1>4. CodeShape'
  <2>1. \A mode : Suits(mode) => Suits(mode)'
    BY <1>2 DEF Suits
  <2> QED
    BY <1>2, <2>1 DEF IInv, CodeShape, Modes
<1>5. Position'
  <2>1. loop.trips \in Nat /\ done \in 0 .. loop.trips
    BY LoopFacts DEF IInv, Control, Position
  <2>2. done' \in 0 .. loop.trips /\ Running'
    BY <1>1, <2>1 DEF Effect, RunsBody, RunsNone
  <2> QED
    BY <1>2, <2>2 DEF Position
<1> QED
  BY <1>3, <1>4, <1>5 DEF IInv

\* and so does a body that leaves the loop.
LEMMA BreakStep ==
  ASSUME IInv, Break
  PROVE  IInv'
<1>1. /\ pc = "run" /\ pc' = pc /\ loop' = loop /\ pass' = pass
      /\ count' = count /\ n' = n /\ code' = code /\ done' = done /\ at' = Exit
  BY DEF Break
<1>2. Control'
  BY <1>1 DEF IInv, Control
<1>3. CodeShape'
  <2>1. \A mode : Suits(mode) => Suits(mode)'
    BY <1>1 DEF Suits
  <2> QED
    BY <1>1, <2>1 DEF IInv, CodeShape, Modes
<1>4. Position'
  BY <1>1 DEF IInv, Position, Running
<1> QED
  BY <1>2, <1>3, <1>4 DEF IInv

\* The invariant is inductive.
LEMMA NextIInv == IInv /\ [Next]_vars => IInv'
<1> SUFFICES ASSUME IInv, [Next]_vars
             PROVE  IInv'
  OBVIOUS
<1>1. CASE Unroll
  BY <1>1, StaticUnrollStep, ComputeUnrollCountStep, BeginPrologStep, CloneExtraStep,
     ConnectPrologStep, CloneBodiesStep, ConnectLatchStep DEF Unroll
<1>2. CASE Step
  BY <1>2, StepStep
<1>3. CASE Break
  BY <1>3, BreakStep
<1>4. CASE UNCHANGED vars
  <2>1. /\ loop' = loop /\ pass' = pass /\ pc' = pc /\ count' = count /\ n' = n
        /\ code' = code /\ at' = at /\ done' = done
    BY <1>4 DEF vars
  <2>2. \A mode : Suits(mode)' <=> Suits(mode)
    BY <2>1 DEF Suits
  <2>3. Control' /\ CodeShape'
    BY <2>1, <2>2 DEF IInv, Control, CodeShape, Modes
  <2>4. Running => Running'
    <3>1. InOriginal => InOriginal'
      BY <2>1 DEF InOriginal
    <3>2. ModVal' = ModVal
      BY <2>1 DEF ModVal, TripCountValue
    <3>3. \A k : Whole(k) => Whole(k)'
      BY <2>1 DEF Whole
    <3>4. \A mode : InBodies(mode) => InBodies(mode)'
      BY <2>1, <3>3 DEF InBodies
    <3>5. InProlog => InProlog'
      BY <2>1, <3>2 DEF InProlog
    <3>6. \A mode : InUnrolled(mode) => InUnrolled(mode)'
      BY <2>1, <3>4, <3>5 DEF InUnrolled
    <3> QED
      BY <2>1, <2>2, <3>1, <3>6 DEF Running
  <2>5. Position'
    BY <2>1, <2>4 DEF IInv, Position
  <2> QED
    BY <2>3, <2>5 DEF IInv
<1> QED
  BY <1>1, <1>2, <1>3, <1>4 DEF Next

\* At every step of the passes the code has the shape it should have by then,
\* and when it runs the program is where the number of bodies run puts it.
THEOREM Invariance == Spec => []IInv
<1>1. Init => IInv
  BY InitIInv
<1>2. IInv /\ [Next]_vars => IInv'
  BY NextIInv
<1> QED
  BY <1>1, <1>2, PTL DEF Spec

-----------------------------------------------------------------------------
(* No branch dangles *)

Into(block, blocks) == {block.then, block.else} \subseteq blocks

Closed(blocks) ==
  /\ {Enter, Body(0)} \subseteq DOMAIN blocks
  /\ \A b \in DOMAIN blocks : Into(blocks[b], DOMAIN blocks \cup {Exit})

\* No branch of the original loop dangles,
LEMMA OriginalClosed ==
  ASSUME NEW blocks, IsOriginal(blocks)
  PROVE  Closed(blocks)
BY BlockFields DEF IsOriginal, Closed, Into

\* The blocks of the prolog lead to blocks of the prolog, but for the last.
LEMMA PrologInto ==
  ASSUME NEW blocks, NEW factor \in Nat, NEW i \in 0 .. factor - 1, IsProlog(blocks, factor, i),
         NEW b \in PrologBlocks(factor, i) \ {PEnd}
  PROVE  Into(blocks[b], PrologBlocks(factor, i))
<1>1. \A k \in i .. factor - 1 : FirstCompare(factor, k) \in PrologBlocks(factor, i)
  BY DEF FirstCompare, PrologBlocks
<1>2. \A k \in i + 1 .. factor - 1 : NextCopy(i, k) \in PrologBlocks(factor, i)
  <2> SUFFICES ASSUME NEW k \in i + 1 .. factor - 1
               PROVE  NextCopy(i, k) \in PrologBlocks(factor, i)
    OBVIOUS
  <2>1. CASE k = i + 1
    BY <2>1 DEF NextCopy, PrologBlocks
  <2>2. CASE k # i + 1
    <3>1. k - 1 \in i + 1 .. factor - 1
      BY <2>2
    <3> QED
      BY <2>2, <3>1 DEF NextCopy, PrologBlocks
  <2> QED
    BY <2>1, <2>2
<1>3. CASE b = Enter
  <2>1. blocks[b] = Guard("extra", FirstCompare(factor, i), PEnd)
    BY <1>3 DEF IsProlog
  <2>2. {FirstCompare(factor, i), PEnd} \subseteq PrologBlocks(factor, i)
    BY <1>1 DEF PrologBlocks
  <2> QED
    BY <2>1, <2>2, BlockFields DEF Into
<1>4. ASSUME NEW k \in i + 1 .. factor - 1, b = Extra(k)
      PROVE  Into(blocks[b], PrologBlocks(factor, i))
  <2>1. blocks[b] = Run(NextCopy(i, k))
    BY <1>4 DEF IsProlog
  <2> QED
    BY <1>2, <2>1, BlockFields DEF Into
<1>5. ASSUME NEW k \in i + 1 .. factor - 2, b = Compare(k)
      PROVE  Into(blocks[b], PrologBlocks(factor, i))
  <2>1. blocks[b] = Guard("equal", Extra(k), FirstCompare(factor, k))
    BY <1>5 DEF IsProlog
  <2>2. k \in i + 1 .. factor - 1 /\ k \in i .. factor - 1
    OBVIOUS
  <2>3. {Extra(k), FirstCompare(factor, k)} \subseteq PrologBlocks(factor, i)
    BY <1>1, <2>2 DEF PrologBlocks
  <2> QED
    BY <2>1, <2>3, BlockFields DEF Into
<1> QED
  BY <1>3, <1>4, <1>5 DEF PrologBlocks

\* none of an unfinished or finished prolog,
LEMMA PrologClosed ==
  ASSUME NEW blocks, NEW factor \in Nat, NEW i \in 0 .. factor - 1, NEW last,
         IsPrologOf(blocks, factor, i, last), Into(last, {Body(0), Exit})
  PROVE  Closed(blocks)
<1>1. DOMAIN blocks = PrologBlocks(factor, i) \cup {Body(0)} /\ Enter \in PrologBlocks(factor, i)
  BY DEF IsPrologOf, PrologBlocks
<1>2. ASSUME NEW b \in PrologBlocks(factor, i) \ {PEnd}
      PROVE  Into(blocks[b], DOMAIN blocks \cup {Exit})
  <2>1. Into(blocks[b], PrologBlocks(factor, i))
    BY PrologInto DEF IsPrologOf
  <2> QED
    BY <1>1, <2>1 DEF Into
<1>3. Into(blocks[PEnd], DOMAIN blocks \cup {Exit})
  BY <1>1 DEF IsPrologOf, Into
<1>4. Into(blocks[Body(0)], DOMAIN blocks \cup {Exit})
  BY <1>1, BlockFields DEF IsPrologOf, Into
<1> QED
  BY <1>1, <1>2, <1>3, <1>4 DEF Closed

\* and none of an unrolled loop.
LEMMA UnrolledClosed ==
  ASSUME NEW blocks, NEW mode, NEW factor \in Nat \ {0}, NEW i \in 0 .. factor,
         IsUnrolled(blocks, mode, factor, i)
  PROVE  Closed(blocks)
<1>1. /\ DOMAIN blocks = EntryBlocks(mode, factor) \cup Bodies(factor)
      /\ \A k \in 0 .. factor - 1 : Body(k) \in DOMAIN blocks
      /\ {Enter, Body(0)} \subseteq DOMAIN blocks
  BY DEF IsUnrolled, EntryBlocks, PrologBlocks, Bodies
<1>2. ASSUME NEW b \in EntryBlocks(mode, factor)
      PROVE  Into(blocks[b], DOMAIN blocks \cup {Exit})
  <2>1. CASE mode # "latchRuntime"
    <3>1. blocks[b] = Go(Body(0))
      BY <1>2, <2>1 DEF EntryBlocks, IsUnrolled
    <3> QED
      BY <1>1, <3>1, BlockFields DEF Into
  <2>2. CASE mode = "latchRuntime" /\ b = PEnd
    <3>1. blocks[b] = Guard("short", Exit, Body(0))
      BY <2>2 DEF IsUnrolled
    <3> QED
      BY <1>1, <3>1, BlockFields DEF Into
  <2>3. CASE mode = "latchRuntime" /\ b # PEnd
    <3>1. b \in PrologBlocks(factor, 0) \ {PEnd} /\ 0 \in 0 .. factor - 1 /\ factor \in Nat
      BY <1>2, <2>3 DEF EntryBlocks
    <3>2. IsProlog(blocks, factor, 0) /\ PrologBlocks(factor, 0) \subseteq DOMAIN blocks
      BY <1>1, <2>3 DEF EntryBlocks, IsUnrolled
    <3>3. Into(blocks[b], PrologBlocks(factor, 0))
      BY <3>1, <3>2, PrologInto
    <3> QED
      BY <3>2, <3>3 DEF Into
  <2> QED
    BY <2>1, <2>2, <2>3
<1>3. ASSUME NEW k \in 0 .. factor - 1
      PROVE  Into(blocks[Body(k)], DOMAIN blocks \cup {Exit})
  <2>1. \E b \in DOMAIN blocks \cup {Exit} : blocks[Body(k)] \in {Run(b), Latch(b)}
    <3>1. CASE k < i /\ k = factor - 1
      <4>1. blocks[Body(k)] \in {Run(Exit), Latch(Body(0))}
        BY <3>1 DEF IsUnrolled, Connected
      <4> QED
        BY <1>1, <4>1
    <3>2. CASE k < i /\ k # factor - 1
      <4>1. blocks[Body(k)] \in {Run(Body(k + 1)), Latch(Body(k + 1))} /\ k + 1 \in 0 .. factor - 1
        BY <3>2 DEF IsUnrolled, Connected
      <4> QED
        BY <1>1, <4>1
    <3>3. CASE ~(k < i)
      <4>1. blocks[Body(k)] = Latch(Body(k))
        BY <3>3 DEF IsUnrolled
      <4> QED
        BY <1>1, <4>1
    <3> QED
      BY <3>1, <3>2, <3>3
  <2> QED
    BY <2>1, BlockFields DEF Into
<1> QED
  BY <1>1, <1>2, <1>3 DEF Closed, Bodies

\* At every step of the passes, and when the code runs, every branch leads to
\* a block that exists, the program is in such a block, and the bodies are
\* counted in the type of the trip count: no pass leaves an edge to a copy it
\* did not make.
THEOREM TypeCorrect == Spec => []TypeOK
<1>1. ASSUME IInv
      PROVE  TypeOK
  <2>1. /\ loop \in Loops /\ loop.trips \in Nat \ {0} /\ loop.trips <= 2^TripWidth
        /\ 2^TripWidth \in Nat /\ done \in 0 .. loop.trips /\ count \in Nat /\ n \in 0 .. count
    BY <1>1, LoopFacts DEF IInv, Control, Position
  <2>2. Closed(code)
    <3>1. CASE IsOriginal(code)
      BY <3>1, OriginalClosed
    <3>2. CASE pc = "extra"
      <4>1. n \in 0 .. count - 1 /\ IsPrologOf(code, count, n, Go(Body(0)))
        BY <1>1, <3>2 DEF IInv, CodeShape
      <4>2. Into(Go(Body(0)), {Body(0), Exit})
        BY BlockFields DEF Into
      <4> QED
        BY <2>1, <4>1, <4>2, PrologClosed
    <3>3. CASE pc = "runtime"
      <4>1. count > 2 /\ IsPrologOf(code, count, 0, Guard("short", Exit, Body(0)))
        BY <1>1, <3>3 DEF IInv, CodeShape, Suits
      <4>2. Into(Guard("short", Exit, Body(0)), {Body(0), Exit})
        BY BlockFields DEF Into
      <4>3. 0 \in 0 .. count - 1
        BY <2>1, <4>1
      <4> QED
        BY <2>1, <4>1, <4>2, <4>3, PrologClosed
    <3>4. ASSUME NEW mode \in Modes, NEW i \in 0 .. count, Suits(mode), IsUnrolled(code, mode, count, i)
          PROVE  Closed(code)
      <4>1. count \in Nat \ {0}
        BY <2>1, <3>4 DEF Suits
      <4> QED
        BY <3>4, <4>1, UnrolledClosed
    <3>5. CASE pc \in Modes
      <4>1. Suits(pc) /\ IsUnrolled(code, pc, count, n)
        BY <1>1, <3>5 DEF IInv, CodeShape
      <4> QED
        BY <2>1, <3>4, <3>5, <4>1
    <3>6. CASE pc = "run"
      <4>1. count \in 0 .. count
        BY <2>1
      <4> QED
        BY <1>1, <3>1, <3>4, <3>6, <4>1 DEF IInv, CodeShape
    <3> QED
      BY <1>1, <3>1, <3>2, <3>3, <3>5, <3>6 DEF IInv, Control, CodeShape, Modes
  <2>3. at \in DOMAIN code \cup {Exit}
    <3>1. CASE at \in {Enter, Body(0)}
      BY <2>2, <3>1 DEF Closed
    <3>2. ASSUME NEW mode \in Modes, Suits(mode), IsUnrolled(code, mode, count, count), InUnrolled(mode)
          PROVE  at \in DOMAIN code \cup {Exit}
      <4>1. CASE InBodies(mode)
        BY <3>2, <4>1 DEF InBodies, IsUnrolled, Bodies
      <4>2. CASE mode = "latchRuntime" /\ InProlog
        <5>1. /\ \A k \in 1 .. count - 2 : Compare(k) \in DOMAIN code
              /\ \A k \in 1 .. count - 1 : Extra(k) \in DOMAIN code
              /\ {Enter, PEnd} \subseteq DOMAIN code
          BY <3>2, <4>2 DEF IsUnrolled, EntryBlocks, PrologBlocks
        <5> QED
          BY <4>2, <5>1 DEF InProlog
      <4> QED
        BY <3>1, <3>2, <4>1, <4>2 DEF InUnrolled
    <3>3. CASE pc # "run"
      BY <1>1, <3>1, <3>3 DEF IInv, Position
    <3>4. CASE pc = "run"
      BY <1>1, <3>1, <3>2, <3>4 DEF IInv, Position, Running, InOriginal
    <3> QED
      BY <3>3, <3>4
  <2>4. done \in 0 .. 2^TripWidth + 1
    BY <2>1
  <2>5. Control
    BY <1>1 DEF IInv
  <2> QED
    BY <2>2, <2>3, <2>4, <2>5 DEF TypeOK, Control, Closed, Into
<1> QED
  BY <1>1, Invariance, PTL

-----------------------------------------------------------------------------
(* The unrolled code runs the original loop *)

\* The trip count of every loop that may get a prolog is one its type holds.
TripCountFits == \A l \in Loops : l.clonable /\ l.countable => l.trips < 2^TripWidth

\* Whatever the profile, the unrolled code runs the body as often as the loop
\* did, and then leaves it, or leaves it from the body as the body does: each
\* step of LoopUnroll is one of CountedLoop, or none. Of a loop with 2^TripWidth
\* iterations the prolog computes a trip count of 0 and branches around it.
THEOREM Implementation ==
  ASSUME TripCountFits
  PROVE  Spec => RunsOriginal
<1> DEFINE mleft == at = Exit \/ done = loop.trips
<1>1. Init => AsWritten!Init
  <2> SUFFICES ASSUME Init
               PROVE  AsWritten!Init
    OBVIOUS
  <2>1. loop \in Loops /\ done = 0 /\ at = Enter /\ loop.trips # 0
    BY LoopFacts DEF Init
  <2>2. mleft = FALSE
    BY <2>1, BlockNames
  <2> QED
    BY <2>1, <2>2 DEF AsWritten!Init
<1>2. IInv /\ [Next]_vars => [AsWritten!Next]_AsWritten!vars
  <2> SUFFICES ASSUME IInv, [Next]_vars
               PROVE  AsWritten!Next \/ (loop' = loop /\ done' = done /\ mleft' = mleft)
    BY DEF AsWritten!vars
  <2>1. loop \in Loops /\ loop.trips \in Nat \ {0} /\ done \in 0 .. loop.trips
    BY LoopFacts DEF IInv, Control, Position
  <2>2. CASE Step
    <3>1. loop' = loop /\ at # Exit /\ Effect
      BY <2>2, StepEffect DEF Step
    <3>2. CASE RunsBody
      <4>1. done' = done + 1 /\ done < loop.trips /\ mleft = FALSE
        BY <2>1, <3>1, <3>2 DEF RunsBody
      <4>2. mleft' = (done + 1 = loop.trips)
        BY <3>1, <3>2 DEF RunsBody
      <4> QED
        BY <3>1, <4>1, <4>2 DEF AsWritten!Next, AsWritten!Iterate
    <3>3. CASE RunsNone
      <4>1. done' = done /\ (at' = Exit => done = loop.trips)
        BY <2>1, <3>3, TripFacts, TripCountFits DEF RunsNone, TripCountFits
      <4>2. mleft' = mleft
        BY <3>1, <4>1
      <4> QED
        BY <3>1, <4>1, <4>2
    <3> QED
      BY <3>1, <3>2, <3>3 DEF Effect
  <2>3. CASE Break
    <3>1. loop' = loop /\ done' = done /\ at # Exit /\ at' = Exit /\ loop.early
      BY <2>3 DEF Break
    <3>2. CASE done = loop.trips
      BY <3>1, <3>2
    <3>3. CASE done # loop.trips
      <4>1. mleft = FALSE /\ mleft' = TRUE
        BY <3>1, <3>3
      <4> QED
        BY <3>1, <4>1 DEF AsWritten!Next, AsWritten!Break
    <3> QED
      BY <3>2, <3>3
  <2>4. CASE Unroll \/ UNCHANGED vars
    <3>1. loop' = loop /\ done' = done /\ at' = at
      BY <2>4 DEF vars, Unroll, StaticUnroll, ComputeUnrollCount, BeginProlog, CloneExtra,
                  ConnectProlog, CloneBodies, ConnectLatch
    <3> QED
      BY <3>1
  <2> QED
    BY <2>2, <2>3, <2>4 DEF Next
<1> QED
  BY <1>1, <1>2, Invariance, PTL DEF Spec, RunsOriginal, AsWritten!Spec

-----------------------------------------------------------------------------
(* As many copies as the profile asks for *)

\* The next power of two is less than twice what it is the next one of.
LEMMA NextPower ==
  ASSUME NEW number \in Word, number <= 2^(CountBits - 1),
         NEW p \in getNextHighestPowerOf2(number)
  PROVE  \/ number = 0 /\ p = 0
         \/ \E e \in 0 .. CountBits - 1 : p = 2^e /\ number <= p /\ p < 2 * number
<1>1. number \in Nat /\ CountBits \in Nat \ {0}
  BY WordFacts, WidthsAssumption
<1>2. CASE number = 0
  BY <1>2 DEF getNextHighestPowerOf2, isPowerOf2
<1>3. ASSUME NEW e \in 0 .. CountBits - 1, number = 2^e
      PROVE  p = 2^e /\ number <= p /\ p < 2 * number
  <2>1. 2^e \in Nat \ {0}
    <3>1. e \in Nat
      BY <1>1
    <3> QED
      BY <3>1, PowerIsCardinality
  <2>2. p = 2^e
    BY <1>3 DEF getNextHighestPowerOf2, isPowerOf2
  <2> QED
    BY <1>3, <2>1, <2>2
<1>4. CASE ~isPowerOf2(number)
  <2>1. PICK s \in 0 .. CountBits : s = Shifts(number) /\ number < 2^s /\ (s = 0 \/ 2^(s - 1) <= number)
    BY ShiftsBounds
  <2>2. number # 0 /\ \A e \in 0 .. CountBits - 1 : number # 2^e
    BY <1>4 DEF isPowerOf2
  <2>3. 2^0 = 1
    <3>1. IsFiniteSet({}) /\ Cardinality({}) = 0
      BY FS_EmptySet
    <3>2. Cardinality(SUBSET {}) = 2^0
      BY <3>1, FS_SUBSET
    <3>3. SUBSET {} = {{}}
      OBVIOUS
    <3> QED
      BY <3>2, <3>3, FS_Singleton
  <2>4. s # 0
    <3> SUFFICES ASSUME s = 0 PROVE FALSE
      OBVIOUS
    <3>1. number < 1
      BY <2>1, <2>3
    <3> QED
      BY <1>1, <2>2, <3>1
  <2>5. s - 1 \in Nat /\ s - 1 \in 0 .. CountBits - 1 /\ (s - 1) + 1 = s
    BY <1>1, <2>4
  <2>6. 2^s = 2 * 2^(s - 1) /\ 2^(s - 1) \in Nat
    BY <2>5, PowerDoubles, PowerIsCardinality
  <2>7. 2^(s - 1) < number
    BY <1>1, <2>1, <2>2, <2>4, <2>5, <2>6
  <2>8. s # CountBits
    BY <1>1, <2>6, <2>7
  <2>9. p = 2^s
    BY <1>1, <1>4, <2>1, <2>8 DEF getNextHighestPowerOf2
  <2>10. number <= p /\ p < 2 * number /\ s \in 0 .. CountBits - 1
    BY <1>1, <2>1, <2>6, <2>7, <2>8, <2>9
  <2> QED
    BY <2>9, <2>10
<1> QED
  BY <1>2, <1>3, <1>4 DEF isPowerOf2

\* Of two powers of two, the lesser is a power of two that is a word.
LEMMA LesserPower ==
  ASSUME NEW e \in 0 .. CountBits - 1
  PROVE  isPowerOf2(Lesser(2^e, maxUnrollCount))
<1>1. PICK f \in 0 .. TripWidth - 1 : maxUnrollCount = 2^f
  BY UnrollCountAssumption
<1>2. e \in Nat /\ f \in Nat /\ CountBits \in Nat
  BY WidthsAssumption
<1>3. 2^e \in Nat /\ 2^f \in Nat
  BY <1>2, PowerIsCardinality
<1>4. CASE 2^f <= 2^e
  <2>1. f <= e
    BY <1>2, <1>4, PowerExponent
  <2>2. f \in 0 .. CountBits - 1
    BY <1>2, <2>1
  <2>3. Lesser(2^e, maxUnrollCount) = 2^f
    BY <1>1, <1>3, <1>4 DEF Lesser
  <2> QED
    BY <2>2, <2>3 DEF isPowerOf2
<1>5. CASE ~(2^f <= 2^e)
  <2>1. Lesser(2^e, maxUnrollCount) = 2^e
    BY <1>1, <1>3, <1>5 DEF Lesser
  <2> QED
    BY <2>1 DEF isPowerOf2
<1> QED
  BY <1>4, <1>5

\* Where the profile has all counts, the passes read the greatest.
LEMMA ExecutionCountIsMax ==
  ASSUME NEW blocks \in SUBSET Word, blocks # {}
  PROVE  Max(blocks) \in Word /\ ExecutionCounts(blocks) = {Max(blocks)}
<1> DEFINE seen == {0} \cup (blocks \ {Missing})
<1>1. blocks \in SUBSET Nat /\ seen = {0} \cup blocks
  BY WordFacts, MissingAssumption
<1> DEFINE top == 2^CountBits - 1
<1>2. top \in Nat /\ \A k \in seen : k <= top
  <2>1. top \in Nat /\ \A w \in Word : w <= top
    BY WordFacts
  <2>2. seen \subseteq Word
    BY <1>1, WordFacts
  <2> QED
    BY <2>1, <2>2
<1> HIDE DEF top
<1>3. Max(blocks) \in blocks /\ \A k \in blocks : Max(blocks) >= k
  <2>1. \A k \in blocks : k <= top
    BY <1>1, <1>2
  <2> QED
    BY <1>1, <1>2, <2>1, GreatestElement
<1>4. Max(seen) \in seen /\ \A k \in seen : Max(seen) >= k
  <2> HIDE DEF seen
  <2>1. seen \in SUBSET Nat /\ seen # {}
    BY <1>1
  <2> QED
    BY <1>2, <2>1, GreatestElement
<1>5. Max(seen) = Max(blocks)
  <2> HIDE DEF seen
  <2>1. PICK a, b : a = Max(seen) /\ b = Max(blocks)
    OBVIOUS
  <2>2. b \in blocks /\ b \in Nat /\ \A k \in blocks : b >= k
    BY <1>1, <1>3, <2>1
  <2>3. a \in seen /\ \A k \in seen : a >= k
    BY <1>4, <2>1, Zenon
  <2>4. a \in Nat /\ a >= b /\ b >= a
    BY <1>1, <2>2, <2>3
  <2> QED
    BY <2>1, <2>2, <2>4
<1>6. {c \in blocks : c \in Word \cup {Missing}} = blocks
  OBVIOUS
<1>7. ExecutionCounts(blocks) = {Max(seen)}
  BY <1>6 DEF ExecutionCounts
<1> QED
  BY <1>3, <1>5, <1>7

\* A pass that unrolls by the profile, where its counts fit and the shift is
\* defined, makes the least power of two of copies that is no less than the
\* profile asks for, or the maximum: neither the rounding nor the search for
\* the power of two loses any, nor makes twice as many.
THEOREM Copies == Spec => []EnoughCopies
<1>1. Init => EnoughCopies
  BY DEF Init, EnoughCopies
<1>2. EnoughCopies /\ IInv /\ [Next]_vars => EnoughCopies'
  <2> SUFFICES ASSUME EnoughCopies, IInv, [Next]_vars
               PROVE  EnoughCopies'
    OBVIOUS
  <2>1. CASE ~(pc' \in {"unroll", "prolog"})
    BY <2>1 DEF EnoughCopies
  <2>2. CASE UNCHANGED vars
    BY <2>2 DEF vars, EnoughCopies, Lesser, isPowerOf2
  <2>3. CASE ComputeUnrollCount /\ pc' \in {"unroll", "prolog"}
    <3> DEFINE asked == IF pass = "simple" THEN Max(loop.blocks) ELSE Max(loop.blocks) \div loop.calls
    <3> SUFFICES ASSUME loop.blocks \cup {loop.calls} \subseteq Word, asked <= 2^(CountBits - 1)
                 PROVE  /\ isPowerOf2(count')
                        /\ count' >= Lesser(asked, maxUnrollCount)
                        /\ count' > 0 => count' < 2 * asked
      BY <2>3 DEF ComputeUnrollCount, EnoughCopies
    <3>1. loop \in Loops /\ pass \in {"simple", "complex"} /\ loop.blocks # {}
      BY LoopsAssumption DEF IInv, Control
    <3>2. Max(loop.blocks) \in Word /\ ExecutionCounts(loop.blocks) = {Max(loop.blocks)}
      BY <3>1, ExecutionCountIsMax
    <3>3. Rounded(loop.calls) = {loop.calls} /\ loop.calls \in Nat
      BY WordFacts, MissingAssumption DEF Rounded
    <3>4. /\ ~(pass = "complex" /\ loop.calls = 0)
          /\ \E p \in getNextHighestPowerOf2(asked) : count' = Lesser(p, maxUnrollCount)
      BY <2>3, <3>2, <3>3 DEF ComputeUnrollCount
    <3>5. asked \in Word
      <4>1. CASE pass = "simple"
        BY <3>2, <4>1
      <4>2. CASE pass = "complex"
        <5>1. Max(loop.blocks) \in Nat /\ loop.calls \in Nat \ {0}
          BY <3>2, <3>3, <3>4, <4>2, WordFacts
        <5>2. asked \in Nat /\ asked <= Max(loop.blocks)
          BY <4>2, <5>1, Quotient
        <5> QED
          BY <3>2, <5>1, <5>2, WordFacts DEF Word
      <4> QED
        BY <3>1, <4>1, <4>2
    <3> HIDE DEF asked
    <3>6. asked \in Nat /\ maxUnrollCount \in Nat \ {0}
      BY <3>5, WordFacts, MaxUnrollCountType
    <3>7. PICK p \in getNextHighestPowerOf2(asked) : count' = Lesser(p, maxUnrollCount)
      BY <3>4
    <3>8. CASE asked = 0 /\ p = 0
      <4>1. count' = 0 /\ Lesser(asked, maxUnrollCount) = 0
        BY <3>6, <3>7, <3>8 DEF Lesser
      <4> QED
        BY <4>1 DEF isPowerOf2
    <3>9. ASSUME NEW e \in 0 .. CountBits - 1, p = 2^e, asked <= p, p < 2 * asked
          PROVE  /\ isPowerOf2(count')
                 /\ count' >= Lesser(asked, maxUnrollCount)
                 /\ count' > 0 => count' < 2 * asked
      <4>1. isPowerOf2(count')
        BY <3>7, <3>9, LesserPower
      <4>2. p \in Nat
        <5>1. e \in Nat
          BY <3>9, WidthsAssumption
        <5> QED
          BY <3>9, <5>1, PowerIsCardinality
      <4>3. count' >= Lesser(asked, maxUnrollCount) /\ count' < 2 * asked
        BY <3>6, <3>7, <3>9, <4>2 DEF Lesser
      <4> QED
        BY <4>1, <4>3
    <3> QED
      BY <3>5, <3>8, <3>9, NextPower
  <2>4. ComputeUnrollCount \/ UNCHANGED vars \/ ~(pc' \in {"unroll", "prolog"})
    <3>1. StaticUnroll => ~(pc' \in {"unroll", "prolog"})
      BY DEF StaticUnroll
    <3>2. BeginProlog \/ CloneExtra \/ ConnectProlog => ~(pc' \in {"unroll", "prolog"})
      BY DEF BeginProlog, CloneExtra, ConnectProlog
    <3>3. CloneBodies => ~(pc' \in {"unroll", "prolog"})
      <4> SUFFICES ASSUME CloneBodies
                   PROVE  ~(pc' \in {"unroll", "prolog"})
        OBVIOUS
      <4>1. \/ pc' = "run"
            \/ pc' = [complete |-> "latchComplete", unroll |-> "latchUnroll", runtime |-> "latchRuntime"][pc]
        BY Zenon DEF CloneBodies
      <4>2. pc \in {"complete", "unroll", "runtime"}
        BY DEF CloneBodies
      <4> QED
        BY <4>1, <4>2
    <3>4. ConnectLatch => ~(pc' \in {"unroll", "prolog"})
      BY DEF ConnectLatch
    <3>5. Step \/ Break => ~(pc' \in {"unroll", "prolog"})
      BY DEF Step, Break
    <3> QED
      BY <3>1, <3>2, <3>3, <3>4, <3>5 DEF Next, Unroll
  <2> QED
    BY <2>1, <2>2, <2>3, <2>4
<1> QED
  BY <1>1, <1>2, Invariance, PTL DEF Spec
=============================================================================
