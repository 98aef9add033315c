---------------------------- MODULE LoopUnroll -----------------------------
(***************************************************************************)
(* The two profile-guided loop unrolling passes, on one loop, and the code *)
(* they leave behind, as it runs: SimplePgoLoopUnrollPass.cpp ("simple"),  *)
(* PgoLoopUnrollPass.cpp with PgoLoopUnrollRuntime.cpp ("complex"), both   *)
(* with their default options, and what they call in Transforms/Utils,     *)
(* LoopUnroll.cpp and LoopUnrollRuntime.cpp.                               *)
(*                                                                         *)
(* A loop is in simplified form and is left at its latch; with "early" its *)
(* body has another way out. What the body computes is left out, and with  *)
(* it the PHI nodes; merging a block into its only predecessor changes     *)
(* nothing that is modelled. A loop is a record:                           *)
(*   trips      times the body runs: the backedge-taken count plus one;    *)
(*   static     this number is a constant;                                 *)
(*   early      the body may leave the loop;                               *)
(*   countable  one exiting block, one exit, an integer backedge count;    *)
(*   clonable   preheader, conditional latch, no indirectbr, no blockaddr; *)
(*   inlinable  a call to inline, or an instruction not to be duplicated;  *)
(*   large      size times trip count is above the threshold of 150;       *)
(*   blocks     the profile's execution counts of its blocks;              *)
(*   calls      the profile's execution count of its function.             *)
(***************************************************************************)
EXTENDS Integers, FiniteSetsExt

CONSTANTS Loops,
          TripWidth,       \* bits of the backedge-taken count
          CountBits,       \* bits of unsigned
          maxUnrollCount,  \* 128
          Missing          \* -1.0, the count of a block without a profile

Flags == {"static", "early", "countable", "clonable", "inlinable", "large"}

ASSUME WidthsAssumption == TripWidth \in Nat /\ CountBits \in Nat \ {0}
ASSUME MissingAssumption == Missing \notin Nat
ASSUME UnrollCountAssumption ==
  \E e \in 0 .. TripWidth - 1 : maxUnrollCount = 2^e
ASSUME LoopsAssumption ==
  \A l \in Loops :
    /\ l.trips \in 1 .. 2^TripWidth
    /\ \A f \in Flags : l[f] \in BOOLEAN
    /\ l.early => ~l.static /\ ~l.countable
    /\ l.blocks # {} /\ l.blocks \cup {l.calls} \subseteq Nat \cup {Missing}

VARIABLES
  loop,    \* the loop (never changes)
  pass,    \* "simple" or "complex" (never changes)
  pc,      \* what the pass does next; "run" once the code runs, or "trap"
  count,   \* the unroll factor
  n,       \* the copy or the latch to be made next
  code,    \* the blocks: whether they hold a body, and how they end
  at,      \* the block the program is in
  done     \* history: bodies run to their end

vars == <<loop, pass, pc, count, n, code, at, done>>

Word == 0 .. 2^CountBits - 1

Enter    == <<"preheader", 0>>
PEnd     == <<"prolog.end", 0>>
Exit     == <<"exit", 0>>
Compare(k) == <<"unr.cmp", k>>
Extra(k) == <<"unr", k>>
Body(k)  == <<"body", k>>

\* A block that ends in a branch: on test to then, otherwise to else
Block(body, test, then, else) == [body |-> body, test |-> test, then |-> then, else |-> else]
Jump(body, to) == Block(body, "always", to, to)

Put(blocks, b, def) == [c \in DOMAIN blocks \cup {b} |-> IF c = b THEN def ELSE blocks[c]]

Original == Put(Put(<<>>, Enter, Jump(FALSE, Body(0))), Body(0), Block(TRUE, "latch", Body(0), Exit))

Init ==
  /\ loop \in Loops
  /\ pass \in {"simple", "complex"}
  /\ pc = "static"
  /\ count = 0 /\ n = 0
  /\ code = Original
  /\ at = Enter
  /\ done = 0

-----------------------------------------------------------------------------
(* How often to unroll *)

TripCount == IF loop.static THEN loop.trips ELSE 0

\* staticUnroll: try to unroll completely. The simple pass goes on to the
\* profile when the loop is too large or not to be cloned, the complex pass
\* only when the trip count is unknown.
StaticUnroll ==
  /\ pc = "static"
  /\ IF TripCount = 0 THEN pc' = "profile" /\ UNCHANGED count
     ELSE IF loop.inlinable THEN pc' = "run" /\ UNCHANGED count
     ELSE IF (TripCount # 1 /\ loop.large) \/ ~loop.clonable
          THEN pc' = (IF pass = "simple" THEN "profile" ELSE "run") /\ UNCHANGED count
     ELSE pc' = "complete" /\ count' = TripCount
  /\ UNCHANGED <<loop, pass, n, code, at, done>>

\* (unsigned) (c + 0.5): a missing count becomes 0; what does not fit in an
\* unsigned is undefined.
Rounded(c) == IF c = Missing THEN {0} ELSE IF c \in Word THEN {c} ELSE Word

\* The maximum over the blocks, or the count of the function
ExecutionCounts(blocks) ==
  LET fits == {c \in blocks : c \in Word \cup {Missing}}
      most == Max({0} \cup (fits \ {Missing}))
  IN IF fits = blocks THEN {most} ELSE {w \in Word : most <= w}

\* (number & (number - 1)) == 0
isPowerOf2(number) == number = 0 \/ \E e \in 0 .. CountBits - 1 : number = 2^e

\* The number of shifts that make it 0
Shifts(number) == CHOOSE s \in 0 .. CountBits : number < 2^s /\ (s = 0 \/ 2^(s - 1) <= number)

Bug_getNextHighestPowerOf2(number) ==
  IF Shifts(number) < CountBits THEN {2^Shifts(number)} ELSE Word

\* A shift by the width of unsigned is undefined.
getNextHighestPowerOf2(number) ==
  IF isPowerOf2(number) THEN {number}
  ELSE IF Shifts(number) < CountBits THEN {2^Shifts(number)} ELSE Word

Lesser(a, b) == IF a < b THEN a ELSE b

\* The simple pass takes the count of the loop, the complex pass divides it by
\* the count of the function: SIGFPE if that is 0.
ComputeUnrollCount ==
  /\ pc = "profile"
  /\ \E executionCount \in ExecutionCounts(loop.blocks), functionCount \in Rounded(loop.calls) :
       IF pass = "complex" /\ functionCount = 0 THEN pc' = "trap" /\ UNCHANGED count
       ELSE \E p \in getNextHighestPowerOf2(IF pass = "simple" THEN executionCount
                                            ELSE executionCount \div functionCount) :
              /\ count' = Lesser(p, maxUnrollCount)
              /\ pc' = IF pass = "simple" THEN "unroll"
                       ELSE IF count' <= 2 THEN "run" ELSE "prolog"
  /\ UNCHANGED <<loop, pass, n, code, at, done>>

-----------------------------------------------------------------------------
(* The prolog for the iterations that are left over *)

\* PgoUnrollLoop and UnrollRuntimeLoopProlog: the preconditions; the preheader
\* is split off and tests for extra iterations.
BeginProlog ==
  /\ pc = "prolog"
  /\ IF loop.clonable /\ loop.countable /\ isPowerOf2(count)
     THEN /\ code' = Put(Put(code, Enter, Block(FALSE, "extra", PEnd, PEnd)),
                         PEnd, Jump(FALSE, Body(0)))
          /\ n' = count - 1
          /\ pc' = "extra"
     ELSE pc' = "run" /\ UNCHANGED <<code, n>>
  /\ UNCHANGED <<loop, pass, count, at, done>>

\* The copy made before, behind which the next one goes
LastCopy == IF n = count - 1 THEN Enter ELSE Extra(n + 1)

Bug_CompareBB == IF n = count - 2 THEN Extra(n + 1) ELSE Compare(n)

\* Where the comparison goes that was made before, and at first the first copy
CompareBB == IF n = count - 2 THEN Extra(n + 1) ELSE Compare(n + 1)

\* Copies are made from the one for count - 1 left over iterations down; a copy
\* but the first gets a comparison, that leads to the one made before.
CloneExtra ==
  /\ pc = "extra" /\ n > 0
  /\ LET linked == [code EXCEPT ![LastCopy].then = Extra(n),
                                ![LastCopy].else = IF LastCopy = Enter THEN @ ELSE Extra(n)]
         copied == Put(linked, Extra(n), Jump(TRUE, PEnd))
     IN code' = IF n = count - 1 THEN copied
                ELSE [Put(copied, Compare(n), Block(FALSE, "equal", Extra(n), CompareBB))
                        EXCEPT ![Enter].then = Compare(n)]
  /\ n' = n - 1
  /\ UNCHANGED <<loop, pass, pc, count, at, done>>

\* A branch around the loop for fewer iterations than the unroll factor
ConnectProlog ==
  /\ pc = "extra" /\ n = 0
  /\ code' = [code EXCEPT ![PEnd] = Block(FALSE, "short", Exit, Body(0))]
  /\ pc' = "runtime"
  /\ UNCHANGED <<loop, pass, count, n, at, done>>

-----------------------------------------------------------------------------
(* The unrolled loop *)

\* The copies of the body; each still ends as the loop did.
CloneBodies ==
  /\ pc \in {"complete", "unroll", "runtime"}
  /\ IF pc = "unroll" /\ (~loop.clonable \/ count < 2)
     THEN pc' = "run" /\ UNCHANGED code
     ELSE /\ code' = [b \in DOMAIN code \cup {Body(k) : k \in 1 .. count - 1} |->
                        IF b \in DOMAIN code THEN code[b] ELSE Block(TRUE, "latch", b, Exit)]
          /\ pc' = [complete |-> "latchComplete", unroll |-> "latchUnroll",
                    runtime |-> "latchRuntime"][pc]
  /\ n' = 0
  /\ UNCHANGED <<loop, pass, count, at, done>>

\* Only a latch that may be the last one keeps its test.
NeedConditional(j) == \/ pc = "latchUnroll"
                      \/ pc = "latchRuntime" /\ j = 0

Bug_Dest(j) == IF pc = "latchComplete" /\ j = 0 THEN Exit ELSE Body(n + 1)

Dest(j) == IF pc = "latchComplete" /\ j = 0 THEN Exit ELSE Body(j)

ConnectLatch ==
  /\ pc \in {"latchComplete", "latchUnroll", "latchRuntime"} /\ n < count
  /\ LET j == (n + 1) % count
     IN code' = IF NeedConditional(j) THEN [code EXCEPT ![Body(n)].then = Dest(j)]
                ELSE [code EXCEPT ![Body(n)] = Jump(TRUE, Dest(j))]
  /\ n' = n + 1
  /\ pc' = IF n + 1 = count THEN "run" ELSE pc
  /\ UNCHANGED <<loop, pass, count, at, done>>

-----------------------------------------------------------------------------
(* The code runs *)

Bug_TripCountValue == loop.trips - 1

\* The backedge-taken count plus one, in the type of the count
TripCountValue == loop.trips % 2^TripWidth

ModVal == TripCountValue % count

\* The latch test counts the bodies run.
Test(b) ==
  CASE code[b].test = "always" -> TRUE
    [] code[b].test = "latch"  -> done + 1 # loop.trips
    [] code[b].test = "extra"  -> ModVal # 0
    [] code[b].test = "equal"  -> ModVal = b[2]
    [] code[b].test = "short"  -> TripCountValue < count

Step ==
  /\ pc = "run" /\ at # Exit
  /\ done <= 2^TripWidth
  /\ at' = IF Test(at) THEN code[at].then ELSE code[at].else
  /\ done' = IF code[at].body THEN done + 1 ELSE done
  /\ UNCHANGED <<loop, pass, pc, count, n, code>>

\* The body leaves the loop.
Break ==
  /\ pc = "run" /\ at # Exit
  /\ code[at].body /\ loop.early
  /\ at' = Exit
  /\ UNCHANGED <<loop, pass, pc, count, n, code, done>>

Unroll == StaticUnroll \/ ComputeUnrollCount \/ BeginProlog \/ CloneExtra
          \/ ConnectProlog \/ CloneBodies \/ ConnectLatch

Next == Unroll \/ Step \/ Break

Spec == Init /\ [][Next]_vars /\ WF_vars(Unroll) /\ WF_vars(Step)

-----------------------------------------------------------------------------
(* Properties *)

\* The types; every branch leads to a block that exists.
TypeOK ==
  /\ loop \in Loops /\ pass \in {"simple", "complex"}
  /\ pc \in {"static", "profile", "prolog", "extra", "complete", "unroll", "runtime",
             "latchComplete", "latchUnroll", "latchRuntime", "run", "trap"}
  /\ count \in Nat /\ n \in 0 .. count
  /\ {Enter, Body(0)} \subseteq DOMAIN code
  /\ \A b \in DOMAIN code : {code[b].then, code[b].else} \subseteq DOMAIN code \cup {Exit}
  /\ at \in DOMAIN code \cup {Exit}
  /\ done \in 0 .. 2^TripWidth + 1

\* Whatever profile the passes act on, and however they unroll, the unrolled
\* code runs the body as often as the loop did and then leaves it.
AsWritten == INSTANCE CountedLoop WITH left <- at = Exit \/ done = loop.trips
RunsOriginal == AsWritten!Spec

\* LoopUnrollRuntime.cpp:106: the original loop is branched around if the trip
\* count is less than the unroll factor. (It is also if the trip count is one
\* that its type does not hold.)
ShortGoAround == [][at = PEnd /\ at' = Exit => loop.trips < count]_vars

\* The unrolled code leaves the loop, unless the compiler died unrolling it.
LoopEnds == <>(pc = "trap" \/ at = Exit)

\* A loop that is unrolled by its profile gets the least power of two of
\* copies that is no less than what the profile asks for, or the maximum.
\* (Where the counts fit and the shift is defined.)
EnoughCopies ==
  LET asked == IF pass = "simple" THEN Max(loop.blocks) ELSE Max(loop.blocks) \div loop.calls
  IN pc \in {"unroll", "prolog"} /\ loop.blocks \cup {loop.calls} \subseteq Word
       /\ asked <= 2^(CountBits - 1) =>
     /\ isPowerOf2(count)
     /\ count >= Lesser(asked, maxUnrollCount)
     /\ count > 0 => count < 2 * asked
=============================================================================
