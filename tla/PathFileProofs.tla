-------------------------- MODULE PathFileProofs ---------------------------
(***************************************************************************)
(* Proofs about PathFile, for any number of functions, paths and runs, and *)
(* with both faults: the types hold; a run that seeks back changes nothing *)
(* but the holes it left; and the loader has of every path what the last   *)
(* run left of it.                                                         *)
(*                                                                         *)
(* The last is shown with an invariant of the whole file: it is a sequence *)
(* of items (arguments, and packets, each with a list of functions and of  *)
(* their entries), and behind them at most what the run has written so far *)
(* of its packet, or one packet that was left unfinished and begins with   *)
(* a hole. The loader is at an item, or at a function inside one, and has  *)
(* what the packets in front of it say.                                    *)
(***************************************************************************)
EXTENDS PathFile, FiniteSetTheorems, LibraryFacts, TLAPS

-----------------------------------------------------------------------------
(* write() *)

\* A write keeps the file a sequence of words; it reaches to the end of what
\* was written, or to its old end.
LEMMA WriteType ==
  ASSUME NEW f \in Seq(Word), NEW p \in Nat, NEW w \in Seq(Word)
  PROVE  /\ WriteAt(f, p, w) \in Seq(Word)
         /\ Len(WriteAt(f, p, w)) = IF p + Len(w) > Len(f) THEN p + Len(w) ELSE Len(f)
<1> DEFINE N == IF p + Len(w) > Len(f) THEN p + Len(w) ELSE Len(f)
           g == [n \in 1 .. N |->
                   IF n \in p + 1 .. p + Len(w) THEN w[n - p] ELSE IF n <= Len(f) THEN f[n] ELSE 0]
<1>1. WriteAt(f, p, w) = g
  BY DEF WriteAt
<1>2. N \in Nat
  OBVIOUS
<1>3. ASSUME NEW n \in 1 .. N PROVE g[n] \in Word
  <2>1. 0 \in Word
    BY WordAssumption DEF Word, PathInfo
  <2>2. CASE n \in p + 1 .. p + Len(w)
    <3>1. n - p \in 1 .. Len(w)
      BY <2>2
    <3> QED
      BY <2>2, <3>1
  <2>3. CASE n \notin p + 1 .. p + Len(w) /\ n <= Len(f)
    BY <2>3
  <2>4. CASE n \notin p + 1 .. p + Len(w) /\ ~(n <= Len(f))
    BY <2>1, <2>4
  <2> QED
    BY <2>2, <2>3, <2>4
<1>4. g \in Seq(Word) /\ Len(g) = N
  <2> HIDE DEF N
  <2>1. g \in [1 .. N -> Word]
    BY <1>3
  <2> QED
    BY <1>2, <2>1
<1> QED
  BY <1>1, <1>4

LEMMA WriteTwo ==
  ASSUME NEW f \in Seq(Word), NEW p \in Nat, NEW w \in Seq(Word), Len(w) = 2
  PROVE  /\ WriteAt(f, p, w) \in Seq(Word)
         /\ Len(WriteAt(f, p, w)) = IF p + 2 > Len(f) THEN p + 2 ELSE Len(f)
<1>1. Len(WriteAt(f, p, w)) = IF p + Len(w) > Len(f) THEN p + Len(w) ELSE Len(f)
  BY WriteType
<1> QED
  BY <1>1, WriteType

\* What is written of an old word stands in front of the place or behind the words.
LEMMA WriteKeeps ==
  ASSUME NEW f \in Seq(Word), NEW p \in Nat, NEW w \in Seq(Word), NEW n \in 1 .. Len(f),
         n \notin p + 1 .. p + Len(w)
  PROVE  WriteAt(f, p, w)[n] = f[n]
  BY DEF WriteAt

\* A hole of file f at place h
HoleIn(f, h) == \A n \in {h + 1, h + 2} : n <= Len(f) => f[n] = 0

LEMMA HoleIsHole == \A h : Hole(h) <=> HoleIn(file, h)
  BY DEF Hole, HoleIn

\* The words of a write beside a hole do not fill it.
LEMMA HoleStays ==
  ASSUME NEW f \in Seq(Word), NEW p \in Nat, NEW w \in Seq(Word), NEW h \in Nat,
         HoleIn(f, h), h + 2 <= p \/ p + Len(w) <= h
  PROVE  HoleIn(WriteAt(f, p, w), h)
<1>0. \A n \in {h + 1, h + 2} : n <= Len(f) => f[n] = 0
  BY Zenon DEF HoleIn
<1> SUFFICES ASSUME NEW n \in {h + 1, h + 2}, n <= Len(WriteAt(f, p, w))
             PROVE  WriteAt(f, p, w)[n] = 0
  BY Zenon DEF HoleIn
<1>1. n \notin p + 1 .. p + Len(w)
  OBVIOUS
<1>2. Len(WriteAt(f, p, w)) = IF p + Len(w) > Len(f) THEN p + Len(w) ELSE Len(f)
  BY WriteType
<1>3. n \in 1 .. IF p + Len(w) > Len(f) THEN p + Len(w) ELSE Len(f)
  BY <1>2
<1>4. WriteAt(f, p, w)[n] = IF n <= Len(f) THEN f[n] ELSE 0
  BY <1>1, <1>3 DEF WriteAt
<1> QED
  BY <1>0, <1>4

\* What is skipped at the end of a file is a hole.
LEMMA SkippedIsHole ==
  ASSUME NEW f, NEW h \in Nat, Len(f) \in Nat, Len(f) <= h
  PROVE  \A n \in {h + 1, h + 2} : n <= Len(f) => f[n] = 0
  OBVIOUS

-----------------------------------------------------------------------------
(* What is written *)

LEMMA TypeOfBounds ==
  /\ Len(Storage) \in Nat /\ Len(Storage) <= WordMax /\ WordMax \in Nat
  /\ Functions = 1 .. Len(Storage) /\ Word = 0 .. WordMax
  /\ 0 \in Word /\ 1 \in Word /\ 5 \in Word
  BY TablesAssumption, WordAssumption DEF Functions, Word, PathInfo

\* Functions and the numbers of executed paths are words.
LEMMA FunctionHeaderType ==
  ASSUME TypeOK, fn \in Functions
  PROVE  FunctionHeader \in Seq(Word) /\ Len(FunctionHeader) = 2
<1>1. fn \in Word
  BY TypeOfBounds
<1>2. IsFiniteSet(Paths[fn]) /\ Cardinality(Paths[fn]) <= WordMax
  BY TablesAssumption
<1>3. Executed(fn) \in SUBSET Paths[fn]
  BY DEF Executed
<1>4. IsFiniteSet(Executed(fn)) /\ Cardinality(Executed(fn)) <= Cardinality(Paths[fn])
  BY <1>2, <1>3, FS_Subset
<1>5. Cardinality(Executed(fn)) \in Nat /\ Cardinality(Paths[fn]) \in Nat
  BY <1>2, <1>4, FS_CardinalityType
<1>6. Cardinality(Executed(fn)) \in Word
  BY <1>2, <1>4, <1>5, TypeOfBounds
<1> QED
  BY <1>1, <1>6 DEF FunctionHeader

LEMMA EntryType ==
  ASSUME TypeOK, pc = "entries", NEW n \in todo
  PROVE  <<n, table[fn][n]>> \in Seq(Word) /\ Len(<<n, table[fn][n]>>) = 2
<1>1. fn \in Functions /\ n \in Paths[fn]
  BY DEF TypeOK, Executed
<1>2. n \in Word
  BY <1>1, TablesAssumption
<1>3. table[fn][n] \in Word
  BY <1>1 DEF TypeOK
<1> QED
  BY <1>2, <1>3

LEMMA HeaderType ==
  ASSUME TypeOK, pc = "function"
  PROVE  <<PathInfo, functions>> \in Seq(Word) /\ Len(<<PathInfo, functions>>) = 2
<1>1. functions \in Word
  BY TypeOfBounds DEF TypeOK
<1> QED
  BY <1>1, TypeOfBounds DEF PathInfo

LEMMA ArgsType ==
  ASSUME TypeOK
  PROVE  /\ ArgsWrites[arg] \in Seq(Word)
         /\ Len(ArgsWrites) = 3 /\ (arg = 3 => ArgsWrites[arg] = ArgData)
<1>1. Len(ArgsWrites) = 3 /\ arg \in {1, 2, 3}
  BY DEF TypeOK, ArgsWrites
<1>2. <<ArgumentInfo>> \in Seq(Word) /\ <<ArgBytes>> \in Seq(Word) /\ ArgData \in Seq(Word)
  BY TypeOfBounds, ArgumentsAssumption DEF ArgumentInfo
<1>3. /\ arg = 1 => ArgsWrites[arg] = <<ArgumentInfo>>
      /\ arg = 2 => ArgsWrites[arg] = <<ArgBytes>>
      /\ arg = 3 => ArgsWrites[arg] = ArgData
  BY <1>1 DEF ArgsWrites
<1> QED
  BY <1>1, <1>2, <1>3

-----------------------------------------------------------------------------
(* The inductive invariant *)

LEMMA InitInv == Init => IInv
<1> SUFFICES ASSUME Init PROVE IInv
  OBVIOUS
<1> USE DEF Init
<1>1. NoPaths = [f \in Functions |-> [n \in Paths[f] |-> 0]]
  BY DEF NoPaths
<1>2. DOMAIN table = Functions /\ \A f \in Functions : table[f] \in [Paths[f] -> Word]
  BY <1>1, TypeOfBounds
<1>3. arg \in 1 .. Len(ArgsWrites)
  BY DEF ArgsWrites
<1>4. file \in Seq(Word) /\ Len(file) = 0
  OBVIOUS
<1>5. /\ fn \in 1 .. Len(Storage) + 1 /\ functions \in 0 .. fn
      /\ header \in Nat /\ fnHeader \in Nat /\ pos \in Nat /\ runs \in Nat /\ steps \in Nat
      /\ base \in 0 .. Len(file) /\ at \in 0 .. Len(file) /\ left \in Word
  BY <1>4, TypeOfBounds
<1>6. TypeOK
  <2> HIDE DEF Init
  <2>1. pc = "idle" /\ lst = "idle" /\ broken = FALSE
    BY DEF Init
  <2> QED
    BY <1>2, <1>3, <1>4, <1>5, <2>1 DEF TypeOK
<1>7. PlacesInv
  BY DEF PlacesInv
<1> QED
  BY <1>6, <1>7 DEF IInv

\* What OwnHolesOnly asks of a step
Safe ==
  /\ Len(file) <= Len(file')
  /\ \A n \in 1 .. Len(file) : file'[n] # file[n] => n > base /\ (~broken' => file[n] = 0)

LEMMA SafeIfSame == TypeOK /\ UNCHANGED file => Safe
  BY DEF Safe, TypeOK

\* A write is safe at the end of the file, and once a write() failed at any
\* place behind the words of earlier runs.
LEMMA SafeWrite ==
  ASSUME TypeOK, NEW p \in Nat, NEW w \in Seq(Word), file' = WriteAt(file, p, w), base <= p,
         broken' = broken,
         ~broken => \A n \in p + 1 .. p + Len(w) : n <= Len(file) => file[n] = 0
  PROVE  Safe
<1>1. file \in Seq(Word) /\ base \in Nat
  BY DEF TypeOK
<1>2. Len(file) <= Len(file')
  BY <1>1, WriteType
<1>3. ASSUME NEW n \in 1 .. Len(file), file'[n] # file[n]
      PROVE  n > base /\ (~broken' => file[n] = 0)
  <2>1. n \in p + 1 .. p + Len(w)
    BY <1>1, <1>3, WriteKeeps
  <2> QED
    BY <1>1, <2>1
<1> QED
  BY <1>2, <1>3 DEF Safe

LEMMA StartInv == IInv /\ Start => IInv' /\ Safe
<1> SUFFICES ASSUME IInv, Start PROVE IInv' /\ Safe
  OBVIOUS
<1> USE DEF IInv
<1>1. NoPaths = [f \in Functions |-> [n \in Paths[f] |-> 0]]
  BY DEF NoPaths
<1>2. DOMAIN table' = Functions /\ \A f \in Functions : table'[f] \in [Paths[f] -> Word]
  BY <1>1, TypeOfBounds DEF Start
<1>3. TypeOK'
  BY <1>2 DEF TypeOK, Start, placeVars, history, loadVars
<1>4. PlacesInv'
  BY DEF PlacesInv, Start
<1> QED
  BY <1>3, <1>4, SafeIfSame DEF Start

LEMMA IncrementInv ==
  ASSUME IInv, NEW f \in Functions, NEW n \in Paths[f], NEW k \in Times, Increment(f, n, k)
  PROVE  IInv' /\ Safe
<1> USE DEF IInv
<1>1. table[f][n] \in Word /\ k \in Nat
  BY TablesAssumption DEF TypeOK
<1>2. Added(table[f][n], k) \in Word
  BY <1>1, TypeOfBounds DEF Added
<1>3. \A g \in Functions : table'[g] \in [Paths[g] -> Word]
  BY <1>2 DEF TypeOK, Increment
<1>4. DOMAIN table' = Functions
  BY DEF TypeOK, Increment
<1>5. TypeOK'
  BY <1>3, <1>4 DEF TypeOK, Increment, placeVars, history, loadVars
<1>6. PlacesInv'
  BY DEF PlacesInv, Increment
<1> QED
  BY <1>5, <1>6, SafeIfSame DEF Increment

LEMMA ExitInv == IInv /\ Exit => IInv' /\ Safe
<1> SUFFICES ASSUME IInv, Exit PROVE IInv' /\ Safe
  OBVIOUS
<1> USE DEF IInv
<1>1. Len(file) \in Nat
  BY DEF TypeOK
<1>2. TypeOK'
  BY <1>1, ArgsType DEF TypeOK, Exit, progVars, history, loadVars, EndOfFile, ArgsWrites
<1>3. PlacesInv'
  BY <1>1 DEF PlacesInv, Exit, EndOfFile
<1> QED
  BY <1>2, <1>3, SafeIfSame DEF Exit

\* The parts of TypeOK that a step of the handler does not touch
LEMMA HandlerType ==
  ASSUME TypeOK, UNCHANGED <<progVars, base, broken, loadVars>>, pc # "idle",
         file' \in Seq(Word), Len(file) <= Len(file')
  PROVE  /\ runs' \in Nat /\ steps' \in Nat
         /\ DOMAIN table' = Functions /\ \A f \in Functions : table'[f] \in [Paths[f] -> Word]
         /\ \A f \in Functions : Executed(f)' = Executed(f)
         /\ base' \in 0 .. Len(file') /\ broken' \in BOOLEAN
         /\ lst' \in {"idle", "reading", "done", "failed", "undefined"} /\ lst' = "idle"
         /\ at' \in 0 .. Len(file') /\ left' \in Word
<1>1. runs' = runs /\ steps' = steps /\ table' = table /\ lst' = lst /\ at' = at /\ left' = left
  BY DEF progVars, loadVars
<1>2. Len(file) \in Nat /\ Len(file') \in Nat
  BY DEF TypeOK
<1>3. base' \in 0 .. Len(file') /\ at' \in 0 .. Len(file')
  BY <1>1, <1>2 DEF TypeOK
<1> QED
  BY <1>1, <1>3 DEF TypeOK, Executed

LEMMA WriteArgsInv == IInv /\ WriteArgs => IInv' /\ Safe
<1> SUFFICES ASSUME IInv, WriteArgs PROVE IInv' /\ Safe
  OBVIOUS
<1> DEFINE w == ArgsWrites[arg]
<1>1. w \in Seq(Word) /\ Len(ArgsWrites) = 3 /\ (arg = 3 => w = ArgData)
  BY ArgsType DEF IInv
<1>2. file \in Seq(Word) /\ pos \in Nat /\ base \in 0 .. Len(file) /\ arg \in 1 .. 3
  BY <1>1 DEF IInv, TypeOK
<1>3. pc = "args" /\ file' = WriteAt(file, pos, w) /\ base <= pos /\ (~broken => pos = Len(file))
  BY DEF IInv, WriteArgs, PlacesInv
<1> HIDE DEF w
<1>4. /\ file' \in Seq(Word)
      /\ Len(file') = IF pos + Len(w) > Len(file) THEN pos + Len(w) ELSE Len(file)
  BY <1>1, <1>2, <1>3, WriteType
<1>5. Len(w) \in Nat /\ Len(file) \in Nat /\ Len(file') \in Nat
  BY <1>1, <1>2, <1>4
<1>6. base' = base /\ broken' = broken /\ UNCHANGED <<progVars, fnHeader, todo, loadVars>>
  BY DEF WriteArgs, history
<1>7. Safe
  BY <1>1, <1>2, <1>3, <1>5, <1>6, SafeWrite DEF IInv
<1>8. CASE arg < 3
  <2>1. pos' = pos + Len(w) /\ arg' = arg + 1 /\ UNCHANGED <<pc, fn, functions, header>>
    BY <1>1, <1>8 DEF WriteArgs, w
  <2>2. arg' \in 1 .. 3 /\ pos' \in Nat
    BY <1>2, <1>5, <1>8, <2>1
  <2>3. TypeOK'
    BY <1>1, <1>3, <1>4, <1>5, <1>6, <2>1, <2>2, HandlerType DEF IInv, TypeOK, ArgsWrites
  <2>4. PlacesInv'
    BY <1>2, <1>3, <1>4, <1>5, <1>6, <2>1 DEF PlacesInv
  <2> QED
    BY <1>7, <2>3, <2>4 DEF IInv
<1>9. CASE arg = 3
  <2>1. /\ header' = pos + Len(w) /\ pos' = pos + Len(w) + 2
        /\ pc' = "function" /\ fn' = 1 /\ functions' = 0 /\ arg' = arg
    BY <1>1, <1>9 DEF WriteArgs
  <2>2. header' \in Nat /\ pos' \in Nat /\ fn' \in 1 .. Len(Storage) + 1 /\ arg' \in 1 .. 3
    BY <1>2, <1>5, <1>9, <2>1, TypeOfBounds
  <2>3. TypeOK'
    BY <1>1, <1>3, <1>4, <1>5, <1>6, <2>1, <2>2, HandlerType DEF IInv, TypeOK, ArgsWrites
  <2>4. ~broken => Len(file') <= header'
    BY <1>2, <1>3, <1>4, <1>5, <2>1
  <2>5. ~broken => Hole(header)'
    BY <1>5, <2>2, <2>4, SkippedIsHole DEF Hole
  <2>6. base' <= pos' /\ base' <= header' /\ header' + 2 <= pos' /\ (~broken => Len(file') <= pos')
    BY <1>2, <1>3, <1>5, <1>6, <2>1, <2>4
  <2>7. PlacesInv'
    BY <1>6, <2>1, <2>5, <2>6 DEF PlacesInv
  <2> QED
    BY <1>7, <2>3, <2>7 DEF IInv
<1> QED
  BY <1>2, <1>8, <1>9

LEMMA SkipFunctionInv == IInv /\ SkipFunction => IInv' /\ Safe
<1> SUFFICES ASSUME IInv, SkipFunction PROVE IInv' /\ Safe
  OBVIOUS
<1>1. fn' = fn + 1 /\ pc' = "function" /\ fn \in 1 .. Len(Storage) /\ functions < fn
  BY TypeOfBounds DEF SkipFunction, NextFunction, IInv, TypeOK
<1>2. fn' \in 1 .. Len(Storage) + 1 /\ functions \in 0 .. fn' /\ functions < fn'
  BY <1>1, TypeOfBounds DEF IInv, TypeOK
<1>3. TypeOK'
  BY <1>1, <1>2, HandlerType DEF IInv, TypeOK, SkipFunction, placeVars, history, ArgsWrites
<1>4. PlacesInv'
  BY <1>1 DEF IInv, PlacesInv, SkipFunction, placeVars, history, Hole
<1> QED
  BY <1>3, <1>4, SafeIfSame DEF IInv, SkipFunction

LEMMA BeginFunctionInv == IInv /\ BeginFunction => IInv' /\ Safe
<1> SUFFICES ASSUME IInv, BeginFunction PROVE IInv' /\ Safe
  OBVIOUS
<1>1. file \in Seq(Word) /\ Len(file) \in Nat /\ pos \in Nat /\ header \in Nat /\ base \in Nat
  BY DEF IInv, TypeOK
<1>2. /\ pc = "function" /\ pc' = "entries" /\ fn \in Functions /\ todo' = Executed(fn)
      /\ functions' = functions + 1 /\ pos' = pos + 2
      /\ UNCHANGED <<progVars, arg, fn, header, base, broken, loadVars>>
  BY DEF BeginFunction, history
<1>3. base <= pos /\ base <= header
      /\ (~broken => Hole(header) /\ header + 2 <= pos /\ Len(file) <= pos)
  BY <1>2 DEF IInv, PlacesInv
<1>4. /\ fn' = fn /\ fn \in 1 .. Len(Storage) + 1 /\ functions' \in 0 .. fn
  BY <1>2, TypeOfBounds DEF IInv, TypeOK
<1>5. CASE Storage[fn] = "array"
  <2>1. fnHeader' = pos /\ file' = file
    BY <1>5 DEF BeginFunction
  <2>2. TypeOK'
    BY <1>1, <1>2, <1>4, <2>1, HandlerType DEF IInv, TypeOK, ArgsWrites
  <2>3. Storage[fn'] = "array" /\ broken' = broken /\ base' = base /\ header' = header
    BY <1>2, <1>5
  <2>4. PlacesInv'
    BY <1>1, <1>2, <1>3, <2>1, <2>3 DEF PlacesInv, Hole
  <2> QED
    BY <2>1, <2>2, <2>4, SafeIfSame DEF IInv
<1>6. CASE Storage[fn] # "array"
  <2>1. fnHeader' = fnHeader /\ file' = WriteAt(file, pos, FunctionHeader)
    BY <1>6 DEF BeginFunction
  <2>2. FunctionHeader \in Seq(Word) /\ Len(FunctionHeader) = 2
    BY <1>2, FunctionHeaderType DEF IInv
  <2>3. file' \in Seq(Word) /\ Len(file') = IF pos + 2 > Len(file) THEN pos + 2 ELSE Len(file)
    BY <1>1, <2>1, <2>2, WriteTwo
  <2>4. TypeOK'
    BY <1>1, <1>2, <1>4, <2>1, <2>3, HandlerType DEF IInv, TypeOK, ArgsWrites
  <2>5. ~broken => Hole(header)'
    <3> SUFFICES ASSUME ~broken PROVE Hole(header)'
      OBVIOUS
    <3>1. HoleIn(file, header) /\ header + 2 <= pos
      BY <1>3, HoleIsHole
    <3>2. HoleIn(file', header)
      BY <1>1, <2>1, <2>2, <3>1, HoleStays
    <3> QED
      BY <1>2, <3>2 DEF Hole, HoleIn
  <2>6. Storage[fn'] # "array" /\ broken' = broken /\ base' = base /\ header' = header
    BY <1>2, <1>6
  <2>7. PlacesInv'
    BY <1>1, <1>2, <1>3, <2>1, <2>3, <2>5, <2>6 DEF PlacesInv
  <2>8. Safe
    BY <1>1, <1>2, <1>3, <2>1, <2>2, SafeWrite DEF IInv
  <2> QED
    BY <2>4, <2>7, <2>8 DEF IInv
<1> QED
  BY <1>5, <1>6

LEMMA WriteEntryInv ==
  ASSUME IInv, NEW n \in todo, WriteEntry(n)
  PROVE  IInv' /\ Safe
<1> DEFINE w == <<n, table[fn][n]>>
<1>1. file \in Seq(Word) /\ Len(file) \in Nat /\ pos \in Nat /\ header \in Nat /\ fnHeader \in Nat
      /\ base \in Nat
  BY DEF IInv, TypeOK
<1>2. /\ pc = "entries" /\ pc' = "entries" /\ todo' = todo \ {n}
      /\ file' = WriteAt(file, pos, w) /\ pos' = pos + 2
      /\ UNCHANGED <<progVars, arg, fn, functions, header, fnHeader, base, broken, loadVars>>
  BY DEF WriteEntry, placeVars, history
<1>3. w \in Seq(Word) /\ Len(w) = 2
  BY <1>2, EntryType DEF IInv
<1> HIDE DEF w
<1>4. /\ base <= pos /\ base <= header /\ (Storage[fn] = "array" => base <= fnHeader)
      /\ ~broken => Hole(header) /\ header + 2 <= pos /\ Len(file) <= pos
      /\ ~broken /\ Storage[fn] = "array" =>
            Hole(fnHeader) /\ header + 2 <= fnHeader /\ fnHeader + 2 <= pos
  BY <1>2 DEF IInv, PlacesInv
<1>5. file' \in Seq(Word) /\ Len(file') = IF pos + 2 > Len(file) THEN pos + 2 ELSE Len(file)
  BY <1>1, <1>2, <1>3, WriteTwo
<1>6. TypeOK'
  BY <1>1, <1>2, <1>5, HandlerType DEF IInv, TypeOK, ArgsWrites
<1>7. ~broken => Hole(header)'
  <2> SUFFICES ASSUME ~broken PROVE Hole(header)'
    OBVIOUS
  <2>1. HoleIn(file, header) /\ header + 2 <= pos
    BY <1>4, HoleIsHole
  <2>2. HoleIn(file', header)
    BY <1>1, <1>2, <1>3, <2>1, HoleStays
  <2> QED
    BY <1>2, <2>2 DEF Hole, HoleIn
<1>8. ~broken /\ Storage[fn] = "array" => Hole(fnHeader)'
  <2> SUFFICES ASSUME ~broken, Storage[fn] = "array" PROVE Hole(fnHeader)'
    OBVIOUS
  <2>1. HoleIn(file, fnHeader) /\ fnHeader + 2 <= pos
    BY <1>4, HoleIsHole
  <2>2. HoleIn(file', fnHeader)
    BY <1>1, <1>2, <1>3, <2>1, HoleStays
  <2> QED
    BY <1>2, <2>2 DEF Hole, HoleIn
<1>9. PlacesInv'
  <2>1. /\ pc' = "entries" /\ broken' = broken /\ fn' = fn
        /\ base' = base /\ header' = header /\ fnHeader' = fnHeader
    BY <1>2
  <2> QED
    BY <1>1, <1>2, <1>4, <1>5, <1>7, <1>8, <2>1 DEF PlacesInv
<1>10. Safe
  BY <1>1, <1>2, <1>3, <1>4, SafeWrite DEF IInv
<1> QED
  BY <1>6, <1>9, <1>10 DEF IInv

LEMMA EndFunctionInv == IInv /\ EndFunction => IInv' /\ Safe
<1> SUFFICES ASSUME IInv, EndFunction PROVE IInv' /\ Safe
  OBVIOUS
<1>1. file \in Seq(Word) /\ Len(file) \in Nat /\ pos \in Nat /\ header \in Nat /\ fnHeader \in Nat
      /\ base \in Nat
  BY DEF IInv, TypeOK
<1>2. /\ pc = "entries" /\ pc' = "function" /\ fn' = fn + 1 /\ fn \in Functions
      /\ UNCHANGED <<progVars, arg, todo, functions, header, fnHeader, base, broken, loadVars>>
  BY DEF EndFunction, NextFunction, placeVars, history, IInv, TypeOK
<1>3. /\ base <= pos /\ base <= header /\ (Storage[fn] = "array" => base <= fnHeader)
      /\ ~broken => Hole(header) /\ header + 2 <= pos /\ Len(file) <= pos
      /\ ~broken /\ Storage[fn] = "array" =>
            Hole(fnHeader) /\ header + 2 <= fnHeader /\ fnHeader + 2 <= pos
  BY <1>2 DEF IInv, PlacesInv
<1>4. fn' \in 1 .. Len(Storage) + 1 /\ functions \in 0 .. fn' /\ functions < fn'
  BY <1>2, TypeOfBounds DEF IInv, TypeOK
<1>5. CASE Storage[fn] = "array"
  <2>1. file' = WriteAt(file, fnHeader, FunctionHeader) /\ pos' = pos
    BY <1>5 DEF EndFunction, AfterHeader
  <2>2. FunctionHeader \in Seq(Word) /\ Len(FunctionHeader) = 2
    BY <1>2, FunctionHeaderType DEF IInv
  <2>3. file' \in Seq(Word) /\ Len(file') = IF fnHeader + 2 > Len(file) THEN fnHeader + 2 ELSE Len(file)
    BY <1>1, <2>1, <2>2, WriteTwo
  <2>4. TypeOK'
    BY <1>1, <1>2, <1>4, <2>1, <2>3, HandlerType DEF IInv, TypeOK, ArgsWrites
  <2>5. ~broken => Hole(header)'
    <3> SUFFICES ASSUME ~broken PROVE Hole(header)'
      OBVIOUS
    <3>1. HoleIn(file, header) /\ header + 2 <= fnHeader
      BY <1>3, <1>5, HoleIsHole
    <3>2. HoleIn(file', header)
      BY <1>1, <2>1, <2>2, <3>1, HoleStays
    <3> QED
      BY <1>2, <3>2 DEF Hole, HoleIn
  <2>6. PlacesInv'
    BY <1>1, <1>2, <1>3, <1>5, <2>1, <2>3, <2>5 DEF PlacesInv
  <2>7. ~broken => \A n \in fnHeader + 1 .. fnHeader + 2 : n <= Len(file) => file[n] = 0
    BY <1>1, <1>3, <1>5 DEF Hole
  <2>8. Safe
    BY <1>1, <1>2, <1>3, <1>5, <2>1, <2>2, <2>7, SafeWrite DEF IInv
  <2> QED
    BY <2>4, <2>6, <2>8 DEF IInv
<1>6. CASE Storage[fn] # "array"
  <2>1. file' = file /\ pos' = pos
    BY <1>6 DEF EndFunction
  <2>2. TypeOK'
    BY <1>1, <1>2, <1>4, <2>1, HandlerType DEF IInv, TypeOK, ArgsWrites
  <2>3. PlacesInv'
    BY <1>1, <1>2, <1>3, <2>1 DEF PlacesInv, Hole
  <2> QED
    BY <2>1, <2>2, <2>3, SafeIfSame DEF IInv
<1> QED
  BY <1>5, <1>6

LEMMA FinishInv == IInv /\ Finish => IInv' /\ Safe
<1> SUFFICES ASSUME IInv, Finish PROVE IInv' /\ Safe
  OBVIOUS
<1> DEFINE w == <<PathInfo, functions>>
<1>1. file \in Seq(Word) /\ Len(file) \in Nat /\ header \in Nat /\ base \in Nat
  BY DEF IInv, TypeOK
<1>2. /\ pc = "function" /\ pc' = "idle" /\ file' = WriteAt(file, header, w)
      /\ UNCHANGED <<progVars, arg, pos, fn, todo, functions, header, fnHeader, base, broken, loadVars>>
  BY DEF Finish, placeVars
<1>3. w \in Seq(Word) /\ Len(w) = 2
  BY <1>2, HeaderType DEF IInv
<1> HIDE DEF w
<1>4. file' \in Seq(Word) /\ Len(file') = IF header + 2 > Len(file) THEN header + 2 ELSE Len(file)
  BY <1>1, <1>2, <1>3, WriteTwo
<1>5. TypeOK'
  BY <1>1, <1>2, <1>4, HandlerType DEF IInv, TypeOK, ArgsWrites
<1>6. PlacesInv'
  BY <1>2 DEF PlacesInv
<1>7. base <= header /\ (~broken => Hole(header))
  BY <1>2 DEF IInv, PlacesInv
<1>8. ~broken => \A n \in header + 1 .. header + 2 : n <= Len(file) => file[n] = 0
  BY <1>1, <1>7 DEF Hole
<1>9. Safe
  BY <1>1, <1>2, <1>3, <1>7, <1>8, SafeWrite DEF IInv
<1> QED
  BY <1>5, <1>6, <1>9 DEF IInv

\* A failed write changes no word, and moves the position back to a hole at most.
LEMMA WriteFailsInv == IInv /\ WriteFails => IInv' /\ Safe
<1> SUFFICES ASSUME IInv, WriteFails PROVE IInv' /\ Safe
  OBVIOUS
<1>1. /\ broken' = TRUE
      /\ UNCHANGED <<file, progVars, arg, todo, header, fnHeader, base, loadVars>>
  BY DEF WriteFails, placeVars
<1>2. /\ runs' = runs /\ steps' = steps /\ table' = table /\ lst' = lst /\ at' = at /\ left' = left
      /\ \A f \in Functions : Executed(f)' = Executed(f)
  BY <1>1 DEF progVars, loadVars, Executed
<1>safe. Safe
  BY <1>1, SafeIfSame DEF IInv
<1>3. (pc' = "idle" /\ fn' = fn /\ pos' = pos /\ functions' = functions) => IInv'
  <2> SUFFICES ASSUME pc' = "idle", fn' = fn, pos' = pos, functions' = functions PROVE IInv'
    OBVIOUS
  <2>1. TypeOK'
    BY <1>1, <1>2 DEF IInv, TypeOK, ArgsWrites
  <2>2. PlacesInv'
    BY <1>1 DEF PlacesInv
  <2> QED
    BY <2>1, <2>2 DEF IInv
<1>4. (/\ NextFunction /\ pc \in {"function", "entries"} /\ fn \in Functions
       /\ functions' \in 0 .. fn /\ pos' \in Nat /\ base <= pos') => IInv'
  <2> SUFFICES ASSUME NextFunction, pc \in {"function", "entries"}, fn \in Functions,
                      functions' \in 0 .. fn, pos' \in Nat, base <= pos'
               PROVE  IInv'
    OBVIOUS
  <2>1. lst = "idle"
    BY DEF IInv, TypeOK
  <2>2. fn' \in 1 .. Len(Storage) + 1 /\ functions' \in 0 .. fn' /\ functions' < fn'
    BY TypeOfBounds DEF NextFunction
  <2>3. TypeOK'
    BY <1>1, <1>2, <2>1, <2>2 DEF IInv, TypeOK, ArgsWrites, NextFunction
  <2>4. PlacesInv'
    BY <1>1 DEF IInv, PlacesInv, NextFunction
  <2> QED
    BY <2>3, <2>4 DEF IInv
<1>5. /\ pos \in Nat /\ fnHeader \in Nat /\ base \in Nat /\ functions \in 0 .. fn
      /\ pc = "function" => functions < fn /\ fn \in 1 .. Len(Storage) + 1
      /\ pc = "entries" => fn \in Functions
      /\ pc \in {"function", "entries"} => base <= pos
      /\ pc = "entries" /\ Storage[fn] = "array" => base <= fnHeader
  BY DEF IInv, TypeOK, PlacesInv
<1>6. CASE pc' = "idle" /\ fn' = fn /\ pos' = pos /\ functions' = functions
  BY <1>safe, <1>3, <1>6, Zenon
<1>7. CASE /\ pc = "function" /\ fn \in Functions
           /\ NextFunction /\ functions' = functions + 1 /\ pos' = pos
  <2>1. functions' \in 0 .. fn
    BY <1>5, <1>7, TypeOfBounds
  <2>2. pos' \in Nat /\ base <= pos' /\ pc \in {"function", "entries"}
    BY <1>5, <1>7
  <2> QED
    BY <1>safe, <1>4, <1>7, <2>1, <2>2, Zenon
<1>8. CASE pc = "entries" /\ NextFunction /\ pos' = pos /\ functions' = functions
  <2>1. /\ functions' \in 0 .. fn /\ pos' \in Nat /\ base <= pos'
        /\ pc \in {"function", "entries"} /\ fn \in Functions
    BY <1>5, <1>8
  <2> QED
    BY <1>safe, <1>4, <1>8, <2>1, Zenon
<1>9. CASE /\ pc = "entries" /\ Storage[fn] = "array"
           /\ NextFunction /\ pos' = fnHeader /\ functions' = functions
  <2>1. /\ functions' \in 0 .. fn /\ pos' \in Nat /\ base <= pos'
        /\ pc \in {"function", "entries"} /\ fn \in Functions
    BY <1>5, <1>9
  <2> QED
    BY <1>safe, <1>4, <1>9, <2>1, Zenon
<1>10. \/ pc' = "idle" /\ fn' = fn /\ pos' = pos /\ functions' = functions
       \/ /\ pc = "function" /\ fn \in Functions
          /\ NextFunction /\ functions' = functions + 1 /\ pos' = pos
       \/ pc = "entries" /\ NextFunction /\ pos' = pos /\ functions' = functions
       \/ /\ pc = "entries" /\ Storage[fn] = "array"
          /\ NextFunction /\ pos' = fnHeader /\ functions' = functions
  BY DEF WriteFails
<1> QED
  BY <1>6, <1>7, <1>8, <1>9, <1>10

LEMMA KillInv == IInv /\ Kill => IInv' /\ Safe
<1> SUFFICES ASSUME IInv, Kill PROVE IInv' /\ Safe
  OBVIOUS
<1>1. TypeOK'
  BY DEF IInv, TypeOK, Kill, progVars, placeVars, loadVars, ArgsWrites
<1>2. PlacesInv'
  BY DEF PlacesInv, Kill
<1> QED
  BY <1>1, <1>2, SafeIfSame DEF IInv, Kill

\* The loader stays inside the file.
LEMMA LoadInv == IInv /\ Load => IInv' /\ Safe
<1> SUFFICES ASSUME IInv, Load PROVE IInv' /\ Safe
  OBVIOUS
<1>1. /\ file \in Seq(Word) /\ Len(file) \in Nat /\ at \in 0 .. Len(file) /\ left \in Word
      /\ lst # "idle" => pc = "idle"
  BY DEF IInv, TypeOK
<1>2. UNCHANGED <<file, pc, progVars, arg, pos, fn, todo, functions, placeVars, history>>
  BY DEF Load
<1>3. /\ lst' \in {"reading", "done", "failed", "undefined"} /\ pc = "idle"
      /\ at' \in 0 .. Len(file) /\ left' \in Word
  <2>1. CASE LoaderOpen
    BY <1>1, <2>1 DEF LoaderOpen
  <2>2. CASE lst = "reading" /\ LoaderEnd
    BY <1>1, <2>2, TypeOfBounds DEF LoaderEnd
  <2>3. CASE lst = "reading" /\ ReadArguments
    <3>1. file[at + 2] \in Nat
      <4>1. at + 2 \in 1 .. Len(file)
        BY <1>1, <2>3 DEF ReadArguments, Rest
      <4> QED
        BY <1>1, <4>1, TypeOfBounds
    <3>2. (file[at + 2] + 3) \div 4 \in Nat
      BY <3>1
    <3> QED
      BY <1>1, <2>3, <3>2 DEF ReadArguments
  <2>4. CASE lst = "reading" /\ ReadPathInfo
    BY <1>1, <2>4 DEF ReadPathInfo, Rest
  <2>5. CASE lst = "reading" /\ BadSyntax
    BY <1>1, <2>5 DEF BadSyntax
  <2>6. CASE lst = "reading" /\ ReadFunction
    <3>1. /\ Rest >= 2 /\ Rest >= 2 + 2 * file[at + 2] /\ left > 0
          /\ at' = at + 2 + 2 * file[at + 2] /\ left' = left - 1 /\ lst' = lst
      BY <2>6 DEF ReadFunction
    <3>2. file[at + 2] \in Nat
      <4>1. at + 2 \in 1 .. Len(file)
        BY <1>1, <3>1 DEF Rest
      <4> QED
        BY <1>1, <4>1, TypeOfBounds
    <3>3. at' \in 0 .. Len(file)
      BY <1>1, <3>1, <3>2 DEF Rest
    <3> QED
      BY <1>1, <2>6, <3>1, <3>3, TypeOfBounds
  <2>7. CASE lst = "reading" /\ BadFunction
    BY <1>1, <2>7 DEF BadFunction
  <2> QED
    BY <2>1, <2>2, <2>3, <2>4, <2>5, <2>6, <2>7 DEF Load
<1>4. TypeOK'
  BY <1>2, <1>3 DEF IInv, TypeOK, progVars, placeVars, history, ArgsWrites, Executed
<1>5. PlacesInv'
  BY <1>2, <1>3 DEF PlacesInv
<1> QED
  BY <1>2, <1>4, <1>5, SafeIfSame DEF IInv

LEMMA StutterInv == IInv /\ UNCHANGED vars => IInv' /\ Safe
<1> SUFFICES ASSUME IInv, UNCHANGED vars PROVE IInv' /\ Safe
  OBVIOUS
<1>1. TypeOK'
  BY DEF IInv, TypeOK, vars, progVars, placeVars, history, loadVars, ArgsWrites, Executed
<1>2. PlacesInv'
  BY DEF IInv, PlacesInv, Hole, vars, placeVars, history
<1> QED
  BY <1>1, <1>2, SafeIfSame DEF IInv, vars

LEMMA StepInv == IInv /\ [Next]_vars => IInv' /\ Safe
<1> SUFFICES ASSUME IInv, [Next]_vars PROVE IInv' /\ Safe
  OBVIOUS
<1>1. CASE Program
  BY <1>1, StartInv, IncrementInv, ExitInv DEF Program
<1>2. CASE Handler
  BY <1>2, WriteArgsInv, SkipFunctionInv, BeginFunctionInv, WriteEntryInv, EndFunctionInv, FinishInv
     DEF Handler
<1> QED
  BY <1>1, <1>2, WriteFailsInv, KillInv, LoadInv, StutterInv DEF Next

-----------------------------------------------------------------------------
(* Counts and totals *)

\* The paths of the module
AllPaths == UNION {{f} \X Paths[f] : f \in Functions}

\* The tables of the program
Tables ==
  {t \in [Functions -> UNION {[Paths[f] -> Word] : f \in Functions}] :
     \A f \in Functions : t[f] \in [Paths[f] -> Word]}

PacketSet == [complete : BOOLEAN, table : Tables]

\* The largest element of a set that has one
LEMMA MaxIs ==
  ASSUME NEW S, S \subseteq Int, NEW x \in S, \A y \in S : y <= x
  PROVE  Max(S) = x
<1>1. \E z \in S : \A y \in S : z >= y
  OBVIOUS
<1>2. Max(S) \in S /\ \A y \in S : Max(S) >= y
  BY <1>1, Zenon DEF Max
<1>3. Max(S) \in Int /\ x \in Int /\ Max(S) >= x /\ Max(S) <= x
  BY <1>2
<1> QED
  BY <1>3

\* A non-empty set of numbers up to k has a largest one.
LEMMA MaxExists ==
  ASSUME NEW k \in Nat, NEW S \in SUBSET (1 .. k), S # {}
  PROVE  Max(S) \in S /\ \A y \in S : y <= Max(S)
<1> DEFINE P == {n \in Nat : \A T \in SUBSET (1 .. n) : T # {} => \E x \in T : \A y \in T : y <= x}
<1>1. 0 \in P
  <2>1. 1 .. 0 = {}
    OBVIOUS
  <2> QED
    BY <2>1
<1>2. ASSUME NEW n \in Nat, n \in P
      PROVE  n + 1 \in P
  <2> SUFFICES ASSUME NEW T \in SUBSET (1 .. n + 1), T # {}
               PROVE  \E x \in T : \A y \in T : y <= x
    OBVIOUS
  <2>1. CASE n + 1 \in T
    BY <2>1
  <2>2. CASE n + 1 \notin T
    <3>1. T \in SUBSET (1 .. n)
      BY <2>2
    <3> QED
      BY <1>2, <3>1
  <2> QED
    BY <2>1, <2>2
<1> HIDE DEF P
<1>3. k \in P
  BY <1>1, <1>2, NatInd
<1>4. PICK x \in S : \A y \in S : y <= x
  BY <1>3 DEF P
<1>5. S \subseteq Int
  OBVIOUS
<1>6. Max(S) = x
  BY <1>4, <1>5, MaxIs
<1> QED
  BY <1>4, <1>6

\* How often a path was run in packet k of a history
RunIn(ps, k, path) == ps[k].table[path[1]][path[2]]

\* The packets among the first k in which a path, or a function, was run
With(ps, k, path) == {r \in 1 .. k : RunIn(ps, r, path) # 0}
WithSome(ps, k, f) == {r \in 1 .. k : \E n \in Paths[f] : RunIn(ps, r, <<f, n>>) # 0}

\* What the loader has of a path, and of a function, behind the first k packets
Count(ps, k, path) == IF With(ps, k, path) = {} THEN 0 ELSE RunIn(ps, Max(With(ps, k, path)), path)
Sum(ps, k, f) == IF WithSome(ps, k, f) = {} THEN 0 ELSE Total(ps[Max(WithSome(ps, k, f))].table[f])

\* The same when it has read the functions G of the next packet as well
Value(ps, k, G, path) ==
  IF path[1] \in G /\ RunIn(ps, k + 1, path) # 0 THEN RunIn(ps, k + 1, path) ELSE Count(ps, k, path)
Kept(ps, k, G) == [path \in {p \in AllPaths : Value(ps, k, G, p) # 0} |-> Value(ps, k, G, path)]
Tally(ps, k, G, f) == IF f \in G THEN Total(ps[k + 1].table[f]) ELSE Sum(ps, k, f)

Progress(ps, ld, tot, k, G) ==
  /\ ld = Kept(ps, k, G)
  /\ DOMAIN tot = 0 .. Len(Storage)
  /\ \A f \in Functions : tot[f] = Tally(ps, k, G, f)

LEMMA CountNext ==
  ASSUME NEW ps, NEW k \in Nat, NEW path
  PROVE  Count(ps, k + 1, path) = IF RunIn(ps, k + 1, path) # 0 THEN RunIn(ps, k + 1, path) ELSE Count(ps, k, path)
<1>1. CASE RunIn(ps, k + 1, path) # 0
  <2>1. /\ k + 1 \in With(ps, k + 1, path) /\ With(ps, k + 1, path) \subseteq Int
        /\ \A y \in With(ps, k + 1, path) : y <= k + 1
    BY <1>1 DEF With
  <2>2. Max(With(ps, k + 1, path)) = k + 1
    BY <2>1, MaxIs
  <2> QED
    BY <1>1, <2>1, <2>2 DEF Count
<1>2. CASE RunIn(ps, k + 1, path) = 0
  <2>1. With(ps, k + 1, path) = With(ps, k, path)
    <3>1. \A r \in 1 .. k + 1 : r \in 1 .. k \/ r = k + 1
      OBVIOUS
    <3>2. 1 .. k \subseteq 1 .. k + 1
      OBVIOUS
    <3> QED
      BY <1>2, <3>1, <3>2 DEF With
  <2> QED
    BY <1>2, <2>1 DEF Count
<1> QED
  BY <1>1, <1>2

LEMMA SumNext ==
  ASSUME NEW ps, NEW k \in Nat, NEW f
  PROVE  Sum(ps, k + 1, f) = IF \E n \in Paths[f] : RunIn(ps, k + 1, <<f, n>>) # 0
                         THEN Total(ps[k + 1].table[f]) ELSE Sum(ps, k, f)
<1> DEFINE Some(r) == \E n \in Paths[f] : RunIn(ps, r, <<f, n>>) # 0
<1>0. \A m : WithSome(ps, m, f) = {r \in 1 .. m : Some(r)}
  BY DEF WithSome
<1> HIDE DEF Some
<1>1. CASE Some(k + 1)
  <2>1. /\ k + 1 \in WithSome(ps, k + 1, f) /\ WithSome(ps, k + 1, f) \subseteq Int
        /\ \A y \in WithSome(ps, k + 1, f) : y <= k + 1
    BY <1>0, <1>1
  <2>2. Max(WithSome(ps, k + 1, f)) = k + 1
    BY <2>1, MaxIs
  <2>3. Sum(ps, k + 1, f) = Total(ps[k + 1].table[f])
    BY <2>1, <2>2 DEF Sum
  <2> QED
    BY <1>1, <2>3 DEF Some
<1>2. CASE ~Some(k + 1)
  <2>1. WithSome(ps, k + 1, f) = WithSome(ps, k, f)
    <3>1. \A r \in 1 .. k + 1 : r \in 1 .. k \/ r = k + 1
      OBVIOUS
    <3>2. 1 .. k \subseteq 1 .. k + 1
      OBVIOUS
    <3> QED
      BY <1>0, <1>2, <3>1, <3>2
  <2>2. Sum(ps, k + 1, f) = Sum(ps, k, f)
    BY <2>1 DEF Sum
  <2> QED
    BY <1>2, <2>2 DEF Some
<1> QED
  BY <1>1, <1>2

\* A path of the module is a pair of a function and one of its paths.
LEMMA PathIs ==
  ASSUME NEW p \in AllPaths
  PROVE  \E g \in Functions : \E n \in Paths[g] : p = <<g, n>> /\ p[1] = g /\ p[2] = n
<1>1. PICK g \in Functions : p \in {g} \X Paths[g]
  BY DEF AllPaths
<1>2. p[1] = g /\ p[2] \in Paths[g] /\ p = <<p[1], p[2]>>
  BY <1>1
<1> QED
  BY <1>1, <1>2

\* When the functions that were run in packet k + 1 are read, it is read.
LEMMA PacketRead ==
  ASSUME NEW ps, NEW k \in Nat, NEW G, NEW ld, NEW tot, Progress(ps, ld, tot, k, G),
         \A g \in Functions : g \in G <=> \E n \in Paths[g] : RunIn(ps, k + 1, <<g, n>>) # 0
  PROVE  Progress(ps, ld, tot, k + 1, {})
<1> DEFINE V(p) == Value(ps, k, G, p)
           W(p) == Value(ps, k + 1, {}, p)
<1>1. ASSUME NEW p \in AllPaths
      PROVE  V(p) = W(p)
  <2>1. PICK g \in Functions : \E n \in Paths[g] : p = <<g, n>> /\ p[1] = g
    BY PathIs
  <2>2. RunIn(ps, k + 1, p) # 0 => p[1] \in G
    BY <2>1
  <2>3. W(p) = Count(ps, k + 1, p)
    BY DEF Value
  <2>4. Count(ps, k + 1, p) = IF RunIn(ps, k + 1, p) # 0 THEN RunIn(ps, k + 1, p) ELSE Count(ps, k, p)
    BY CountNext
  <2> QED
    BY <2>2, <2>3, <2>4 DEF Value
<1>2. Kept(ps, k, G) = [p \in {q \in AllPaths : V(q) # 0} |-> V(p)]
  BY DEF Kept
<1>3. Kept(ps, k + 1, {}) = [p \in {q \in AllPaths : W(q) # 0} |-> W(p)]
  BY DEF Kept
<1> HIDE DEF V, W
<1>4. Kept(ps, k + 1, {}) = Kept(ps, k, G)
  BY <1>1, <1>2, <1>3
<1>5. ASSUME NEW f \in Functions
      PROVE  Tally(ps, k + 1, {}, f) = Tally(ps, k, G, f)
  <2>1. Tally(ps, k + 1, {}, f) = Sum(ps, k + 1, f)
    BY DEF Tally
  <2>2. Sum(ps, k + 1, f) = IF \E n \in Paths[f] : RunIn(ps, k + 1, <<f, n>>) # 0
                         THEN Total(ps[k + 1].table[f]) ELSE Sum(ps, k, f)
    BY SumNext
  <2>3. Sum(ps, k + 1, f) = IF f \in G THEN Total(ps[k + 1].table[f]) ELSE Sum(ps, k, f)
    BY <2>2
  <2> QED
    BY <2>1, <2>3 DEF Tally
<1> QED
  BY <1>4, <1>5 DEF Progress

\* Before anything is read
LEMMA NothingRead ==
  ASSUME NEW ps, NEW ld, NEW tot, ld = [k \in {} |-> 0], tot = [f \in 0 .. Len(Storage) |-> 0]
  PROVE  Progress(ps, ld, tot, 0, {})
<1>1. 1 .. 0 = {}
  OBVIOUS
<1>2. \A p : Value(ps, 0, {}, p) = 0
  BY <1>1 DEF Value, Count, With
<1>3. Kept(ps, 0, {}) = [k \in {} |-> 0]
  BY <1>2 DEF Kept
<1>4. ASSUME NEW f \in Functions
      PROVE  tot[f] = Tally(ps, 0, {}, f)
  <2>1. f \in 0 .. Len(Storage)
    BY TypeOfBounds
  <2> QED
    BY <1>1, <2>1 DEF Tally, Sum, WithSome
<1> QED
  BY <1>3, <1>4 DEF Progress

\* What a path has behind k packets is the number of a packet in which it was run.
LEMMA CountNotZero ==
  ASSUME NEW ps, NEW k \in Nat, NEW p
  PROVE  Count(ps, k, p) # 0 <=> \E r \in 1 .. k : RunIn(ps, r, p) # 0
<1>1. CASE With(ps, k, p) = {}
  BY <1>1 DEF With, Count
<1>2. CASE With(ps, k, p) # {}
  <2>1. With(ps, k, p) \in SUBSET (1 .. k)
    BY DEF With
  <2>2. Max(With(ps, k, p)) \in With(ps, k, p)
    BY <1>2, <2>1, MaxExists
  <2> QED
    BY <1>2, <2>2 DEF With, Count
<1> QED
  BY <1>1, <1>2

\* The result, in the words of LoadedLatest
LEMMA AllRead ==
  ASSUME NEW k \in Nat, Progress(packets, loaded, totals, k, {}), Readable = 1 .. k
  PROVE  /\ loaded = [path \in {p \in UNION {{f} \X Paths[f] : f \in Functions} :
                                  \E r \in Readable : Ran(r, p) # 0} |-> LastCount(path)]
         /\ \A f \in Functions : totals[f] = LastTotal(f)
<1>1. \A p : Value(packets, k, {}, p) = Count(packets, k, p)
  BY DEF Value
<1>2. \A p : (\E r \in Readable : Ran(r, p) # 0) <=> Count(packets, k, p) # 0
  BY CountNotZero DEF Ran, RunIn
<1>3. ASSUME NEW p, Count(packets, k, p) # 0
      PROVE  LastCount(p) = Count(packets, k, p)
  BY <1>3 DEF LastCount, Count, With, Ran, RunIn
<1>4. loaded = [path \in {p \in AllPaths : Count(packets, k, p) # 0} |-> Count(packets, k, path)]
  BY <1>1 DEF Progress, Kept
<1>5. ASSUME NEW f \in Functions
      PROVE  totals[f] = LastTotal(f)
  <2>1. totals[f] = Sum(packets, k, f)
    BY DEF Progress, Tally
  <2>2. LastTotal(f) = Sum(packets, k, f)
    BY DEF LastTotal, Sum, WithSome, Ran, RunIn
  <2> QED
    BY <2>1, <2>2
<1>6. {p \in AllPaths : \E r \in Readable : Ran(r, p) # 0} = {p \in AllPaths : Count(packets, k, p) # 0}
  BY <1>2
<1>7. loaded = [path \in {p \in AllPaths : \E r \in Readable : Ran(r, p) # 0} |-> LastCount(path)]
  BY <1>3, <1>4, <1>6
<1> QED
  BY <1>5, <1>7 DEF AllPaths

-----------------------------------------------------------------------------
(* The entries of a function *)

\* l lists the elements of S, each of them once.
IsList(l, S) ==
  /\ l \in Seq(S)
  /\ \A i, j \in 1 .. Len(l) : l[i] = l[j] => i = j
  /\ \A n \in S : \E j \in 1 .. Len(l) : l[j] = n

Exec(tab, g) == {n \in Paths[g] : tab[g][n] # 0}

EntriesAt(f, p, g, l, tab) ==
  \A j \in 1 .. Len(l) : f[p + 1 + 2 * j] = l[j] /\ f[p + 2 + 2 * j] = tab[g][l[j]]

\* Function g of a table is in file f between the places p and q.
FuncAt(f, p, q, g, l, tab) ==
  /\ p \in Nat /\ q = p + 2 + 2 * Len(l)
  /\ f[p + 1] = g /\ f[p + 2] = Len(l)
  /\ EntriesAt(f, p, g, l, tab)

\* Elements without a value do not count.
LEMMA SumZeros ==
  ASSUME NEW S, IsFiniteSet(S), NEW T \in SUBSET S, NEW g, \A y \in S : g[y] \in Nat,
         \A y \in S \ T : g[y] = 0
  PROVE  SumFunctionOnSet(g, S) = SumFunctionOnSet(g, T)
<1> DEFINE R == S \ T
           C == {U \in SUBSET R : SumFunctionOnSet(g, T \cup U) = SumFunctionOnSet(g, T)}
<1>1. {} \in C
  OBVIOUS
<1>2. ASSUME NEW U \in SUBSET R, NEW x \in R \ U, U \in C
      PROVE  U \cup {x} \in C
  <2>1. IsFiniteSet(T \cup U) /\ x \notin T \cup U /\ \A y \in (T \cup U) \cup {x} : g[y] \in Nat
    BY FS_Subset
  <2>2. SumFunctionOnSet(g, (T \cup U) \cup {x}) = g[x] + SumFunctionOnSet(g, T \cup U)
    BY <2>1, SumAdd
  <2>3. SumFunctionOnSet(g, T \cup U) \in Nat
    BY <2>1, SumType
  <2>4. SumFunctionOnSet(g, (T \cup U) \cup {x}) = SumFunctionOnSet(g, T)
    BY <1>2, <2>2, <2>3
  <2>5. (T \cup U) \cup {x} = T \cup (U \cup {x})
    OBVIOUS
  <2> QED
    BY <2>4, <2>5
<1>3. IsFiniteSet(R)
  BY FS_Subset
<1>4. T \cup R = S
  OBVIOUS
<1> HIDE DEF C, R
<1>5. R \in C
  BY <1>1, <1>2, <1>3, SetInd
<1> QED
  BY <1>4, <1>5 DEF C

LEMMA TotalIs ==
  ASSUME NEW count
  PROVE  Total(count) = SumFunctionOnSet(count, DOMAIN count) % (WordMax + 1)
  BY DEF Total, MapThenSumSet, SumFunctionOnSet, FoldFunctionOnSet

\* The sum over the elements of a list
LEMMA ListSum ==
  ASSUME NEW E, NEW l, IsList(l, E), NEW c, NEW g,
         \A j \in 1 .. Len(l) : c[j] \in Nat /\ g[l[j]] = c[j]
  PROVE  SumFunctionOnSet(g, E) = SumFunctionOnSet(c, 1 .. Len(l))
<1>1. PICK A : A = 1 .. Len(l)
  OBVIOUS
<1>2. /\ l \in Seq(E)
      /\ \A i, j \in A : l[i] = l[j] => i = j
      /\ \A n \in E : \E j \in A : l[j] = n
  BY <1>1 DEF IsList
<1>3. IsFiniteSet(A)
  <2>1. Len(l) \in Nat
    BY <1>2
  <2> QED
    BY <1>1, <2>1, FS_Interval
<1>4. \A j \in A : l[j] \in E
  BY <1>1, <1>2
<1>5. PICK ix : ix = [n \in E |-> CHOOSE j \in A : l[j] = n]
  OBVIOUS
<1>6. \A j \in A : ix[l[j]] = j
  BY <1>2, <1>4, <1>5
<1>7. \A j \in A : c[j] \in Nat /\ g[l[j]] = c[j]
  BY <1>1
<1>8. {l[j] : j \in A} = E
  BY <1>2, <1>4
<1>9. SumFunctionOnSet(g, {l[j] : j \in A}) = SumFunctionOnSet(c, A)
  BY <1>3, <1>6, <1>7, SumListed
<1> QED
  BY <1>1, <1>8, <1>9

\* The entries of a list with all that is not 0 have the total of the table.
LEMMA ListTotal ==
  ASSUME NEW P, IsFiniteSet(P), NEW g, DOMAIN g = P, \A n \in P : g[n] \in Nat,
         NEW l, IsList(l, {n \in P : g[n] # 0}), NEW c, DOMAIN c = 1 .. Len(l),
         \A j \in 1 .. Len(l) : c[j] = g[l[j]]
  PROVE  Total(c) = Total(g)
<1>1. PICK E : E = {n \in P : g[n] # 0}
  OBVIOUS
<1>2. IsList(l, E)
  BY <1>1
<1>3. \A j \in 1 .. Len(l) : l[j] \in E
  BY <1>2 DEF IsList
<1>4. \A j \in 1 .. Len(l) : c[j] \in Nat /\ g[l[j]] = c[j]
  BY <1>1, <1>3
<1>5. SumFunctionOnSet(g, E) = SumFunctionOnSet(c, 1 .. Len(l))
  BY <1>2, <1>4, ListSum
<1>6. E \in SUBSET P /\ \A y \in P \ E : g[y] = 0
  BY <1>1
<1>7. SumFunctionOnSet(g, P) = SumFunctionOnSet(g, E)
  BY <1>6, SumZeros
<1> QED
  BY <1>5, <1>7, TotalIs

\* The loader reads a function.
LEMMA FunctionRead ==
  ASSUME NEW ps, NEW k \in Nat, NEW G, NEW f \in Functions, f \notin G, NEW tab \in Tables,
         ps[k + 1].table = tab, NEW l, IsList(l, Exec(tab, f)), NEW q,
         FuncAt(file, at, q, f, l, tab), Progress(ps, loaded, totals, k, G), ReadFunction
  PROVE  Progress(ps, loaded', totals', k, G \cup {f}) /\ at' = q /\ left' = left - 1
<1> DEFINE E == Exec(tab, f)
           h == file[at + 1]
           m == file[at + 2]
           entries == 1 .. m
           number == [j \in entries |-> file[at + 1 + 2 * j]]
           count  == [j \in entries |-> file[at + 2 + 2 * j]]
           Final(n) == Max({j \in entries : number[j] = n})
           X == {<<h, number[j]>> : j \in entries}
<1>0. /\ loaded' = [p \in DOMAIN loaded \cup X |-> IF p \in X THEN count[Final(p[2])] ELSE loaded[p]]
      /\ totals' = [totals EXCEPT ![h] = Total(count)]
      /\ at' = at + 2 + 2 * m /\ left' = left - 1
  BY Zenon DEF ReadFunction
<1>h. h = f /\ m = Len(l) /\ q = at + 2 + 2 * Len(l)
  BY Zenon DEF FuncAt
<1> HIDE DEF h, m
<1>1. /\ loaded' = [p \in DOMAIN loaded \cup X |-> IF p \in X THEN count[Final(p[2])] ELSE loaded[p]]
      /\ totals' = [totals EXCEPT ![f] = Total(count)]
      /\ at' = q /\ left' = left - 1
  BY <1>0, <1>h, Zenon
<1> HIDE <1>0
<1>2. /\ l \in Seq(E) /\ Len(l) \in Nat
      /\ \A i, j \in entries : l[i] = l[j] => i = j
      /\ \A n \in E : \E j \in entries : l[j] = n
      /\ \A j \in entries : l[j] \in E
  <2> HIDE DEF E
  <2>1. /\ l \in Seq(E)
        /\ \A i, j \in 1 .. Len(l) : l[i] = l[j] => i = j
        /\ \A n \in E : \E j \in 1 .. Len(l) : l[j] = n
    BY DEF IsList, E
  <2> QED
    BY <1>h, <2>1
<1>3. \A j \in entries : number[j] = l[j] /\ count[j] = tab[f][l[j]]
  BY <1>h DEF FuncAt, EntriesAt
<1>4. DOMAIN count = entries
  OBVIOUS
<1>t. /\ \A n \in E : n \in Paths[f] /\ tab[f][n] # 0
      /\ \A n \in Paths[f] : tab[f][n] # 0 => n \in E
      /\ \A n : RunIn(ps, k + 1, <<f, n>>) = tab[f][n]
  BY DEF Exec, RunIn
<1> HIDE DEF number, count, E
<1>n. m \in Nat
  BY <1>2, <1>h
<1> HIDE DEF entries
<1>5. X = {<<f, n>> : n \in E}
  <2>1. \A j \in entries : <<h, number[j]>> = <<f, l[j]>> /\ l[j] \in E
    BY <1>2, <1>3, <1>h
  <2>2. \A n \in E : \E j \in entries : <<h, number[j]>> = <<f, n>>
    BY <1>2, <2>1
  <2> QED
    BY <2>1, <2>2
<1>6. ASSUME NEW n \in E
      PROVE  count[Final(n)] = tab[f][n]
  <2>1. PICK j \in entries : l[j] = n
    BY <1>2
  <2>2. {i \in entries : number[i] = n} = {j}
    <3>1. \A i \in entries : number[i] = n <=> i = j
      BY <1>2, <1>3, <2>1
    <3> QED
      BY <3>1
  <2>3. Max({j}) = j
    <3>1. j \in Int
      BY <1>n DEF entries
    <3>2. {j} \subseteq Int /\ j \in {j} /\ \A y \in {j} : y <= j
      BY <3>1
    <3> QED
      BY <3>2, MaxIs
  <2> QED
    BY <1>3, <2>1, <2>2, <2>3
<1> HIDE DEF Final, X
<1>7. DOMAIN loaded = {p \in AllPaths : Value(ps, k, G, p) # 0}
      /\ \A p \in DOMAIN loaded : loaded[p] = Value(ps, k, G, p)
  BY DEF Progress, Kept
<1>8. ASSUME NEW p \in AllPaths
      PROVE  /\ p \in X => Value(ps, k, G \cup {f}, p) = tab[f][p[2]] /\ tab[f][p[2]] # 0 /\ p[2] \in E
             /\ p \notin X => Value(ps, k, G \cup {f}, p) = Value(ps, k, G, p)
  <2>1. PICK g \in Functions : \E n \in Paths[g] : p = <<g, n>> /\ p[1] = g /\ p[2] = n
    BY PathIs
  <2>2. PICK n \in Paths[g] : p = <<g, n>> /\ p[1] = g /\ p[2] = n
    BY <2>1
  <2>3. CASE p \in X
    <3>1. g = f /\ n \in E
      BY <1>5, <2>2, <2>3
    <3>2. RunIn(ps, k + 1, p) = tab[f][n] /\ tab[f][n] # 0
      BY <1>t, <2>2, <3>1
    <3> QED
      BY <2>2, <2>3, <3>1, <3>2 DEF Value
  <2>4. CASE p \notin X
    <3>1. CASE g = f
      <4>1. n \notin E
        BY <1>5, <2>2, <2>4, <3>1
      <4>2. RunIn(ps, k + 1, p) = 0
        BY <1>t, <2>2, <3>1, <4>1
      <4> QED
        BY <2>4, <4>2 DEF Value
    <3>2. CASE g # f
      BY <2>2, <2>4, <3>2 DEF Value
    <3> QED
      BY <3>1, <3>2
  <2> QED
    BY <2>3, <2>4
<1>9. X \subseteq AllPaths
  <2> SUFFICES ASSUME NEW n \in E PROVE <<f, n>> \in AllPaths
    BY <1>5
  <2> QED
    BY <1>t DEF AllPaths
<1>10. loaded' = Kept(ps, k, G \cup {f})
  <2>1. DOMAIN loaded \cup X = {p \in AllPaths : Value(ps, k, G \cup {f}, p) # 0}
    BY <1>7, <1>8, <1>9
  <2>2. ASSUME NEW p \in DOMAIN loaded \cup X
        PROVE  (IF p \in X THEN count[Final(p[2])] ELSE loaded[p]) = Value(ps, k, G \cup {f}, p)
    <3>1. p \in AllPaths
      BY <1>7, <1>9
    <3>2. CASE p \in X
      BY <1>6, <1>8, <3>1, <3>2
    <3>3. CASE p \notin X
      BY <1>7, <1>8, <3>1, <3>3
    <3> QED
      BY <3>2, <3>3
  <2>3. loaded' = [p \in DOMAIN loaded \cup X |-> Value(ps, k, G \cup {f}, p)]
    BY <1>1, <2>2
  <2> QED
    BY <2>1, <2>3 DEF Kept
<1>11. Total(count) = Total(tab[f])
  <2>1. IsFiniteSet(Paths[f])
    BY TablesAssumption
  <2>2. DOMAIN tab[f] = Paths[f] /\ \A n \in Paths[f] : tab[f][n] \in Nat
    <3>1. tab[f] \in [Paths[f] -> Word]
      BY DEF Tables
    <3> QED
      BY <3>1, TypeOfBounds
  <2>3. IsList(l, {n \in Paths[f] : tab[f][n] # 0})
    BY DEF Exec
  <2>4. DOMAIN count = 1 .. Len(l) /\ \A j \in 1 .. Len(l) : count[j] = tab[f][l[j]]
    BY <1>3, <1>4, <1>h DEF entries
  <2> QED
    BY <2>1, <2>2, <2>3, <2>4, ListTotal
<1>12. DOMAIN totals' = 0 .. Len(Storage)
  BY <1>1 DEF Progress
<1>13. ASSUME NEW g \in Functions
       PROVE  totals'[g] = Tally(ps, k, G \cup {f}, g)
  <2>1. g \in DOMAIN totals
    BY TypeOfBounds DEF Progress
  <2>2. CASE g = f
    BY <1>1, <1>11, <2>1, <2>2 DEF Tally
  <2>3. CASE g # f
    <3>1. totals'[g] = totals[g]
      BY <1>1, <2>1, <2>3
    <3> QED
      BY <2>3, <3>1 DEF Tally, Progress
  <2> QED
    BY <2>2, <2>3
<1> QED
  BY <1>1, <1>10, <1>12, <1>13 DEF Progress

-----------------------------------------------------------------------------
(* The packets in the file *)

\* Behind the header at place h and up to place e, file f has c functions of a
\* table: fns[j] with the paths lists[j], from place off[j] on.
BodyAt(f, h, e, tab, c, fns, off, lists) ==
  /\ c \in Nat /\ off \in [Nat -> Nat] /\ off[1] = h + 2 /\ off[c + 1] = e
  /\ \A j \in 1 .. c :
       /\ fns[j] \in Functions /\ IsList(lists[j], Exec(tab, fns[j]))
       /\ FuncAt(f, off[j], off[j + 1], fns[j], lists[j], tab)
       /\ h + 2 <= off[j] /\ off[j + 1] <= e
  /\ \A i, j \in 1 .. c : fns[i] = fns[j] => i = j

\* A complete packet: the header is there, and every function that was run.
Complete(f, p, q, tab, c, fns, off, lists) ==
  /\ BodyAt(f, p, q, tab, c, fns, off, lists)
  /\ p + 2 <= q /\ f[p + 1] = PathInfo /\ f[p + 2] = c
  /\ \A g \in Functions : (\E j \in 1 .. c : fns[j] = g) <=> Exec(tab, g) # {}

PathAt(f, p, q, tab) ==
  \E c, fns, off, lists : Complete(f, p, q, tab, c, fns, off, lists)

ArgsAt(f, p, q) ==
  q = p + 2 + Len(ArgData) /\ f[p + 1] = ArgumentInfo /\ f[p + 2] = ArgBytes

\* Between p and q stand arguments, or the next packet of the history ps.
Item(f, ps, p, q, k, m) ==
  \/ m = k /\ ArgsAt(f, p, q)
  \/ m = k + 1 /\ PathAt(f, p, q, ps[m].table)

\* The first pl[M + 1] words of file f are M such items, with nd[M + 1] packets.
Laid(f, ps, M, pl, nd) ==
  /\ M \in Nat /\ pl \in [Nat -> Nat] /\ nd \in [Nat -> Nat] /\ pl[1] = 0 /\ nd[1] = 0
  /\ pl[M + 1] <= Len(f) /\ nd[M + 1] <= Len(ps)
  /\ \A x \in 1 .. M :
       /\ pl[x] <= pl[x + 1] /\ pl[x + 1] <= pl[M + 1] /\ nd[x + 1] <= nd[M + 1]
       /\ Item(f, ps, pl[x], pl[x + 1], nd[x], nd[x + 1])
  /\ \A r \in 1 .. nd[M + 1] : ps[r].complete

\* The words behind place a and up to b are the same.
Same(f, f2, a, b) == \A n \in Nat : a < n /\ n <= b => f2[n] = f[n]

LEMMA SameFunc ==
  ASSUME NEW f, NEW f2, NEW a \in Nat, NEW b \in Nat, Same(f, f2, a, b),
         NEW p \in Nat, NEW q \in Nat, NEW g, NEW l, Len(l) \in Nat, NEW tab,
         FuncAt(f, p, q, g, l, tab), a <= p, q <= b
  PROVE  FuncAt(f2, p, q, g, l, tab)
<1>1. PICK L : L = Len(l) /\ L \in Nat /\ q = p + 2 + 2 * L
  BY DEF FuncAt
<1>2. f2[p + 1] = f[p + 1] /\ f2[p + 2] = f[p + 2]
  <2>1. PICK u, w : u = p + 1 /\ w = p + 2
    OBVIOUS
  <2>2. u \in Nat /\ a < u /\ u <= b /\ w \in Nat /\ a < w /\ w <= b
    BY <1>1, <2>1
  <2>3. f2[u] = f[u] /\ f2[w] = f[w]
    BY <2>2 DEF Same
  <2> QED
    BY <2>1, <2>3
<1>3. ASSUME NEW j \in 1 .. L
      PROVE  f2[p + 1 + 2 * j] = l[j] /\ f2[p + 2 + 2 * j] = tab[g][l[j]]
  <2>1. PICK u, w : u = p + 1 + 2 * j /\ w = p + 2 + 2 * j
    OBVIOUS
  <2>2. u \in Nat /\ a < u /\ u <= b /\ w \in Nat /\ a < w /\ w <= b
    BY <1>1, <2>1
  <2>3. f2[u] = f[u] /\ f2[w] = f[w]
    BY <2>2 DEF Same
  <2>4. f[u] = l[j] /\ f[w] = tab[g][l[j]]
    BY <1>1, <2>1 DEF FuncAt, EntriesAt
  <2> QED
    BY <2>1, <2>3, <2>4
<1>4. f[p + 1] = g /\ f[p + 2] = Len(l)
  BY Zenon DEF FuncAt
<1>5. EntriesAt(f2, p, g, l, tab)
  BY <1>1, <1>3 DEF EntriesAt
<1> QED
  BY <1>1, <1>2, <1>4, <1>5 DEF FuncAt

LEMMA ListLen ==
  ASSUME NEW l, NEW S, IsList(l, S)
  PROVE  Len(l) \in Nat
  BY DEF IsList

LEMMA SameBody ==
  ASSUME NEW f, NEW f2, NEW h \in Nat, NEW e \in Nat, Same(f, f2, h + 2, e),
         NEW tab, NEW c, NEW fns, NEW off, NEW lists,
         BodyAt(f, h, e, tab, c, fns, off, lists)
  PROVE  BodyAt(f2, h, e, tab, c, fns, off, lists)
<1>1. /\ c \in Nat /\ off \in [Nat -> Nat]
      /\ \A j \in 1 .. c :
           /\ fns[j] \in Functions /\ IsList(lists[j], Exec(tab, fns[j]))
           /\ FuncAt(f, off[j], off[j + 1], fns[j], lists[j], tab)
           /\ h + 2 <= off[j] /\ off[j + 1] <= e
  BY DEF BodyAt
<1>2. ASSUME NEW j \in 1 .. c
      PROVE  FuncAt(f2, off[j], off[j + 1], fns[j], lists[j], tab)
  <2>1. PICK p, q, a : p = off[j] /\ q = off[j + 1] /\ a = h + 2
    OBVIOUS
  <2>2. p \in Nat /\ q \in Nat /\ a \in Nat /\ a <= p /\ q <= e /\ Same(f, f2, a, e)
    BY <1>1, <2>1
  <2>3. Len(lists[j]) \in Nat
    BY <1>1, ListLen
  <2>4. FuncAt(f, p, q, fns[j], lists[j], tab)
    BY <1>1, <2>1, Zenon
  <2>5. FuncAt(f2, p, q, fns[j], lists[j], tab)
    BY <2>2, <2>3, <2>4, SameFunc
  <2> QED
    BY <2>1, <2>5, Zenon
<1> QED
  BY <1>2 DEF BodyAt

LEMMA SamePath ==
  ASSUME NEW f, NEW f2, NEW p \in Nat, NEW q \in Nat, Same(f, f2, p, q),
         NEW tab, PathAt(f, p, q, tab)
  PROVE  PathAt(f2, p, q, tab)
<1>1. PICK c, fns, off, lists : Complete(f, p, q, tab, c, fns, off, lists)
  BY DEF PathAt
<1>2. BodyAt(f, p, q, tab, c, fns, off, lists) /\ p + 2 <= q /\ f[p + 1] = PathInfo /\ f[p + 2] = c
  BY <1>1 DEF Complete
<1>3. Same(f, f2, p + 2, q)
  BY DEF Same
<1>4. BodyAt(f2, p, q, tab, c, fns, off, lists)
  BY <1>2, <1>3, SameBody
<1>5. f2[p + 1] = f[p + 1] /\ f2[p + 2] = f[p + 2]
  <2>1. p + 1 \in Nat /\ p < p + 1 /\ p + 1 <= q /\ p + 2 \in Nat /\ p < p + 2
    BY <1>2
  <2> QED
    BY <1>2, <2>1 DEF Same
<1>6. Complete(f2, p, q, tab, c, fns, off, lists)
  BY <1>1, <1>2, <1>4, <1>5 DEF Complete
<1> QED
  BY <1>6 DEF PathAt

\* What is changed behind the items, and what is added to the history, changes no item.
LEMMA SameLaid ==
  ASSUME NEW f, NEW f2, NEW ps, NEW ps2, NEW M, NEW pl, NEW nd, Laid(f, ps, M, pl, nd),
         Len(f) \in Nat, Len(f2) \in Nat, Len(f) <= Len(f2), Same(f, f2, 0, pl[M + 1]),
         Len(ps) \in Nat, Len(ps2) \in Nat, Len(ps) <= Len(ps2),
         \A r \in 1 .. Len(ps) : ps2[r] = ps[r]
  PROVE  Laid(f2, ps2, M, pl, nd)
<1>1. M \in Nat /\ pl \in [Nat -> Nat] /\ nd \in [Nat -> Nat] /\ pl[1] = 0 /\ nd[1] = 0
  BY Zenon DEF Laid
<1>2. PICK e, K : e = pl[M + 1] /\ K = nd[M + 1]
  OBVIOUS
<1>3. e \in Nat /\ K \in Nat
  <2>1. M + 1 \in Nat
    BY <1>1
  <2> QED
    BY <1>1, <1>2, <2>1
<1>4. /\ e <= Len(f) /\ K <= Len(ps)
      /\ \A x \in 1 .. M :
           /\ pl[x] <= pl[x + 1] /\ pl[x + 1] <= e /\ nd[x + 1] <= K
           /\ Item(f, ps, pl[x], pl[x + 1], nd[x], nd[x + 1])
      /\ \A r \in 1 .. K : ps[r].complete
      /\ Same(f, f2, 0, e)
  BY <1>2, Zenon DEF Laid
<1>5. ASSUME NEW x \in 1 .. M
      PROVE  Item(f2, ps2, pl[x], pl[x + 1], nd[x], nd[x + 1])
  <2>1. PICK p, q, k, m : p = pl[x] /\ q = pl[x + 1] /\ k = nd[x] /\ m = nd[x + 1]
    OBVIOUS
  <2>2. x \in Nat /\ x + 1 \in Nat
    BY <1>1
  <2>3. p \in Nat /\ q \in Nat /\ k \in Nat /\ m \in Nat
    BY <1>1, <2>1, <2>2
  <2>4. p <= q /\ q <= e /\ m <= K /\ Item(f, ps, p, q, k, m)
    BY <1>4, <2>1, Zenon
  <2>5. Same(f, f2, p, q)
    BY <1>3, <1>4, <2>3, <2>4 DEF Same
  <2>6. CASE m = k /\ ArgsAt(f, p, q)
    <3>1. q = p + 2 + Len(ArgData) /\ f[p + 1] = ArgumentInfo /\ f[p + 2] = ArgBytes
      BY <2>6, Zenon DEF ArgsAt
    <3>2. PICK L \in Nat : L = Len(ArgData)
      BY ArgumentsAssumption
    <3>3. p + 1 \in Nat /\ p < p + 1 /\ p + 1 <= q /\ p + 2 \in Nat /\ p < p + 2 /\ p + 2 <= q
      <4>1. q = p + 2 + L
        BY <3>1, <3>2, Zenon
      <4> QED
        BY <2>3, <4>1
    <3>4. f2[p + 1] = f[p + 1] /\ f2[p + 2] = f[p + 2]
      BY <2>5, <3>3 DEF Same
    <3>5. Item(f2, ps2, p, q, k, m)
      BY <2>6, <3>1, <3>4, Zenon DEF Item, ArgsAt
    <3> QED
      BY <2>1, <3>5, Zenon
  <2>7. CASE m = k + 1 /\ PathAt(f, p, q, ps[m].table)
    <3>1. m \in 1 .. Len(ps)
      BY <1>3, <1>4, <2>3, <2>4, <2>7
    <3>2. ps2[m] = ps[m]
      BY <3>1
    <3>3. PathAt(f2, p, q, ps[m].table)
      BY <2>3, <2>5, <2>7, SamePath
    <3>4. Item(f2, ps2, p, q, k, m)
      BY <2>7, <3>2, <3>3, Zenon DEF Item
    <3> QED
      BY <2>1, <3>4, Zenon
  <2> QED
    BY <2>4, <2>6, <2>7, Zenon DEF Item
<1>6. \A r \in 1 .. K : ps2[r].complete
  <2> SUFFICES ASSUME NEW r \in 1 .. K PROVE ps2[r].complete
    OBVIOUS
  <2>1. r \in 1 .. Len(ps)
    BY <1>3, <1>4
  <2> QED
    BY <1>4, <2>1
<1>7. e <= Len(f2) /\ K <= Len(ps2)
  BY <1>3, <1>4
<1> QED
  BY <1>1, <1>2, <1>4, <1>5, <1>6, <1>7, Zenon DEF Laid

-----------------------------------------------------------------------------
(* The loader *)

\* Behind the last item a packet was left unfinished: its header is a hole.
Stuck(f, ps, e, k) ==
  k < Len(ps) /\ ~ps[k + 1].complete /\ e < Len(f) /\ f[e + 1] = 0

Ends(f, ps, M, pl, nd) ==
  \/ nd[M + 1] = Len(ps) /\ pl[M + 1] = Len(f)
  \/ Stuck(f, ps, pl[M + 1], nd[M + 1])

\* The loader, at place a with lf functions left, is inside a packet.
Inside(f, a, lf, ld, tot, ps, p, q, k) ==
  \E c, fns, off, lists :
    /\ Complete(f, p, q, ps[k + 1].table, c, fns, off, lists)
    /\ \E j \in 1 .. c :
         a = off[j] /\ lf = c - j + 1 /\ Progress(ps, ld, tot, k, {fns[i] : i \in 1 .. j - 1})

\* It is between two items, or inside one.
Where(f, a, lf, ld, tot, ps, M, pl, nd) ==
  \/ lf = 0 /\ \E x \in 1 .. M + 1 : a = pl[x] /\ Progress(ps, ld, tot, nd[x], {})
  \/ \E x \in 1 .. M : nd[x + 1] = nd[x] + 1 /\ Inside(f, a, lf, ld, tot, ps, pl[x], pl[x + 1], nd[x])

\* What is read next, in front of an item
LEMMA ReadStep ==
  ASSUME lst = "reading", Load, left = 0, Rest >= 2, Rest \in Nat, file[at + 1] \in {ArgumentInfo, PathInfo}
  PROVE  /\ file[at + 1] = ArgumentInfo => ReadArguments
         /\ file[at + 1] = PathInfo => ReadPathInfo
<1>1. LoaderEnd \/ ReadArguments \/ ReadPathInfo \/ BadSyntax \/ ReadFunction \/ BadFunction
  BY DEF Load, LoaderOpen
<1>2. ~LoaderEnd /\ ~BadSyntax /\ ~ReadFunction /\ ~BadFunction
  BY DEF LoaderEnd, BadSyntax, ReadFunction, BadFunction
<1> QED
  BY <1>1, <1>2 DEF ReadArguments, ReadPathInfo, ArgumentInfo, PathInfo

\* The loader reads over the arguments.
LEMMA ArgumentsRead ==
  ASSUME NEW p \in Nat, NEW q \in Nat, ArgsAt(file, p, q), q <= Len(file), Len(file) \in Nat,
         at = p, left = 0, lst = "reading", Load
  PROVE  at' = q /\ UNCHANGED <<lst, left, loaded, totals>>
<1>1. PICK L \in Nat : L = Len(ArgData)
  BY ArgumentsAssumption
<1>2. L = (ArgBytes + 3) \div 4
  BY <1>1, ArgumentsAssumption
<1>3. q = p + 2 + L /\ file[at + 1] = ArgumentInfo /\ file[at + 2] = ArgBytes
  BY <1>1, Zenon DEF ArgsAt
<1>4. Rest >= 2 /\ Rest \in Nat
  BY <1>3 DEF Rest
<1>5. ReadArguments
  BY <1>3, <1>4, ReadStep
<1> QED
  BY <1>2, <1>3, <1>5 DEF ReadArguments

\* The header of a packet is read.
LEMMA HeaderRead ==
  ASSUME NEW ps, NEW p \in Nat, NEW q \in Nat, NEW k \in Nat, PathAt(file, p, q, ps[k + 1].table),
         q <= Len(file), Len(file) \in Nat, at = p, left = 0, lst = "reading", Load,
         Progress(ps, loaded, totals, k, {})
  PROVE  /\ lst' = "reading"
         /\ \/ left' = 0 /\ at' = q /\ Progress(ps, loaded', totals', k + 1, {})
            \/ Inside(file, at', left', loaded', totals', ps, p, q, k)
<1> DEFINE tab == ps[k + 1].table
<1>1. PICK c, fns, off, lists : Complete(file, p, q, tab, c, fns, off, lists)
  BY DEF PathAt
<1>2. /\ BodyAt(file, p, q, tab, c, fns, off, lists) /\ p + 2 <= q
      /\ file[at + 1] = PathInfo /\ file[at + 2] = c
      /\ \A g \in Functions : (\E j \in 1 .. c : fns[j] = g) <=> Exec(tab, g) # {}
  BY <1>1, Zenon DEF Complete
<1>3. c \in Nat /\ off[1] = p + 2 /\ off[c + 1] = q
  BY <1>2, Zenon DEF BodyAt
<1>4. Rest >= 2 /\ Rest \in Nat
  BY <1>2 DEF Rest
<1>5. ReadPathInfo
  BY <1>2, <1>4, ReadStep
<1>6. at' = off[1] /\ left' = c /\ lst' = "reading" /\ loaded' = loaded /\ totals' = totals
  BY <1>2, <1>3, <1>5 DEF ReadPathInfo
<1>7. Progress(ps, loaded', totals', k, {})
  BY <1>6, Zenon
<1>8. CASE c = 0
  <2>1. at' = q /\ left' = 0
    BY <1>3, <1>6, <1>8
  <2>2. \A g \in Functions : Exec(tab, g) = {}
    <3>1. 1 .. c = {}
      BY <1>8
    <3> QED
      BY <1>2, <3>1, Zenon
  <2>3. PICK G : G = {}
    OBVIOUS
  <2>4. Progress(ps, loaded', totals', k + 1, {})
    <3>1. \A g \in Functions : g \in G <=> \E n \in Paths[g] : RunIn(ps, k + 1, <<g, n>>) # 0
      BY <2>2, <2>3 DEF Exec, RunIn
    <3>2. Progress(ps, loaded', totals', k, G)
      BY <1>7, <2>3, Zenon
    <3> QED
      BY <3>1, <3>2, PacketRead
  <2> QED
    BY <1>6, <2>1, <2>4
<1>9. CASE c # 0
  <2>1. 1 \in 1 .. c /\ left' = c - 1 + 1
    BY <1>3, <1>6, <1>9
  <2>2. {fns[i] : i \in 1 .. 1 - 1} = {}
    OBVIOUS
  <2>3. Progress(ps, loaded', totals', k, {fns[i] : i \in 1 .. 1 - 1})
    BY <1>7, <2>2, Zenon
  <2>4. Inside(file, at', left', loaded', totals', ps, p, q, k)
    BY <1>1, <1>6, <2>1, <2>3, Zenon DEF Inside
  <2> QED
    BY <1>6, <2>4
<1> QED
  BY <1>8, <1>9

\* One of its functions is read, perhaps the last.
LEMMA InsideRead ==
  ASSUME NEW ps, NEW p \in Nat, NEW q \in Nat, NEW k \in Nat, ps[k + 1].table \in Tables,
         Inside(file, at, left, loaded, totals, ps, p, q, k), file \in Seq(Word),
         q <= Len(file), lst = "reading", Load
  PROVE  /\ lst' = "reading"
         /\ \/ left' = 0 /\ at' = q /\ Progress(ps, loaded', totals', k + 1, {})
            \/ Inside(file, at', left', loaded', totals', ps, p, q, k)
<1>t. PICK tab : tab = ps[k + 1].table
  OBVIOUS
<1>1. PICK c, fns, off, lists :
        /\ Complete(file, p, q, tab, c, fns, off, lists)
        /\ \E j \in 1 .. c : /\ at = off[j] /\ left = c - j + 1
                             /\ Progress(ps, loaded, totals, k, {fns[i] : i \in 1 .. j - 1})
  BY <1>t, Zenon DEF Inside
<1>2. PICK j \in 1 .. c : /\ at = off[j] /\ left = c - j + 1
                          /\ Progress(ps, loaded, totals, k, {fns[i] : i \in 1 .. j - 1})
  BY <1>1
<1>3. /\ BodyAt(file, p, q, tab, c, fns, off, lists)
      /\ \A g \in Functions : (\E i \in 1 .. c : fns[i] = g) <=> Exec(tab, g) # {}
  BY <1>1, Zenon DEF Complete
<1>4. /\ c \in Nat /\ off \in [Nat -> Nat] /\ off[c + 1] = q
      /\ \A i1, i2 \in 1 .. c : fns[i1] = fns[i2] => i1 = i2
  BY <1>3, Zenon DEF BodyAt
<1>5. PICK f, l, b : f = fns[j] /\ l = lists[j] /\ b = off[j + 1]
  OBVIOUS
<1>6. f \in Functions /\ IsList(l, Exec(tab, f)) /\ FuncAt(file, at, b, f, l, tab) /\ b <= q
  BY <1>2, <1>3, <1>5, Zenon DEF BodyAt
<1>7. PICK G : G = {fns[i] : i \in 1 .. j - 1}
  OBVIOUS
<1>8. Progress(ps, loaded, totals, k, G)
  BY <1>2, <1>7, Zenon
<1>9. f \notin G
  <2>1. \A i \in 1 .. j - 1 : i \in 1 .. c /\ i # j
    BY <1>4
  <2> QED
    BY <1>4, <1>5, <1>7, <2>1
<1>10. PICK L \in Nat : L = Len(l) /\ b = at + 2 + 2 * L
  <2>1. Len(l) \in Nat
    BY <1>6, ListLen
  <2> QED
    BY <1>6, <2>1, Zenon DEF FuncAt
<1>11. /\ at \in Nat /\ left > 0 /\ left \in Nat
       /\ file[at + 1] = f /\ file[at + 2] = L /\ Len(file) \in Nat
  <2>1. file[at + 1] = f /\ file[at + 2] = L
    BY <1>6, <1>10, Zenon DEF FuncAt
  <2>2. j \in Nat /\ at = off[j] /\ left = c - j + 1
    BY <1>2, <1>4
  <2>3. at \in Nat
    BY <1>4, <2>2
  <2>4. left > 0 /\ left \in Nat
    BY <1>4, <2>2
  <2>5. Len(file) \in Nat
    OBVIOUS
  <2> QED
    BY <2>1, <2>3, <2>4, <2>5
<1>12. f <= Len(Storage)
  BY <1>6, TypeOfBounds
<1>13. Rest >= 2 + 2 * L /\ Rest >= 2 /\ Rest \in Nat
  BY <1>6, <1>10, <1>11 DEF Rest
<1>14. ReadFunction
  <2>1. LoaderEnd \/ ReadArguments \/ ReadPathInfo \/ BadSyntax \/ ReadFunction \/ BadFunction
    BY DEF Load, LoaderOpen
  <2>2. ~(left = 0) /\ ~(Rest < 2) /\ ~(Rest < 2 + 2 * L)
    <3>1. left > 0 /\ left \in Nat /\ Rest \in Nat
      BY <1>11, <1>13
    <3> QED
      BY <1>13, <3>1
  <2>f. ~(f > Len(Storage))
    <3>1. f \in Nat
      BY <1>6, TypeOfBounds
    <3> QED
      BY <1>12, <3>1, TypeOfBounds
  <2>3. ~LoaderEnd /\ ~ReadArguments /\ ~ReadPathInfo /\ ~BadSyntax /\ ~BadFunction
    BY <1>11, <2>2, <2>f, Zenon DEF LoaderEnd, ReadArguments, ReadPathInfo, BadSyntax, BadFunction
  <2> QED
    BY <2>1, <2>3
<1>15. Progress(ps, loaded', totals', k, G \cup {f}) /\ at' = b /\ left' = left - 1
  BY <1>t, <1>6, <1>8, <1>9, <1>14, FunctionRead
<1>16. lst' = "reading"
  BY <1>14 DEF ReadFunction
<1>17. CASE j = c
  <2>1. left' = 0 /\ at' = q
    BY <1>2, <1>4, <1>5, <1>15, <1>17
  <2>2. \A g \in Functions : g \in G \cup {f} <=> \E n \in Paths[g] : RunIn(ps, k + 1, <<g, n>>) # 0
    <3>1. ASSUME NEW g \in Functions
          PROVE  g \in G \cup {f} <=> \E i \in 1 .. c : fns[i] = g
      <4>1. \A i \in 1 .. c : i \in 1 .. j - 1 \/ i = j
        BY <1>4, <1>17
      <4>2. \A i \in 1 .. j - 1 : i \in 1 .. c
        BY <1>4
      <4> QED
        BY <1>5, <1>7, <4>1, <4>2
    <3>2. \A g \in Functions : Exec(tab, g) # {} <=> \E n \in Paths[g] : RunIn(ps, k + 1, <<g, n>>) # 0
      BY <1>t DEF Exec, RunIn
    <3> QED
      BY <1>3, <3>1, <3>2
  <2>3. Progress(ps, loaded', totals', k + 1, {})
    BY <1>15, <2>2, PacketRead
  <2> QED
    BY <1>16, <2>1, <2>3
<1>18. CASE j # c
  <2>1. PICK i \in 1 .. c : i = j + 1 /\ left' = c - i + 1 /\ i - 1 = j
    <3>1. j \in Nat /\ j <= c /\ left' = c - j /\ c \in Nat
      BY <1>2, <1>4, <1>15
    <3>2. j + 1 \in 1 .. c /\ left' = c - (j + 1) + 1 /\ (j + 1) - 1 = j
      BY <1>18, <3>1
    <3> QED
      BY <3>2
  <2>2. at' = off[i]
    BY <1>5, <1>15, <2>1
  <2>3. {fns[x] : x \in 1 .. i - 1} = G \cup {f}
    <3>1. \A x \in 1 .. i - 1 : x \in 1 .. j - 1 \/ x = j
      BY <2>1
    <3>2. \A x \in 1 .. j - 1 : x \in 1 .. i - 1
      BY <2>1
    <3>3. j \in 1 .. i - 1
      BY <2>1
    <3> QED
      BY <1>5, <1>7, <3>1, <3>2, <3>3
  <2>4. Progress(ps, loaded', totals', k, {fns[x] : x \in 1 .. i - 1})
    BY <1>15, <2>3, Zenon
  <2>5. Inside(file, at', left', loaded', totals', ps, p, q, k)
    <3>1. Complete(file, p, q, ps[k + 1].table, c, fns, off, lists)
      BY <1>t, <1>1, Zenon
    <3>2. /\ at' = off[i] /\ left' = c - i + 1
          /\ Progress(ps, loaded', totals', k, {fns[x] : x \in 1 .. i - 1})
      BY <2>1, <2>2, <2>4, Zenon
    <3> QED
      BY <3>1, <3>2, Zenon DEF Inside
  <2> QED
    BY <1>16, <2>5
<1> QED
  BY <1>17, <1>18

-----------------------------------------------------------------------------
(* What the handler writes *)

\* The length of a list is the number of its elements.
LEMMA ListSize ==
  ASSUME NEW l, NEW S, IsList(l, S)
  PROVE  Cardinality(S) = Len(l)
<1>1. PICK L : L = Len(l) /\ L \in Nat
  BY ListLen
<1>2. /\ l \in [1 .. L -> S]
      /\ \A i, j \in 1 .. L : l[i] = l[j] => i = j
      /\ \A n \in S : \E j \in 1 .. L : l[j] = n
  <2>1. l \in Seq(S)
    BY Zenon DEF IsList
  <2>2. l \in [1 .. L -> S]
    BY <1>1, <2>1
  <2> QED
    BY <1>1, <2>2, Zenon DEF IsList
<1>3. l \in Bijection(1 .. L, S)
  BY <1>2 DEF Bijection, Injection, Surjection, IsInjective
<1>4. ExistsBijection(1 .. L, S)
  BY <1>3, Zenon DEF ExistsBijection
<1> QED
  BY <1>1, <1>4, FS_CountingElements

\* A write leaves the words in front of it, and behind it.
LEMMA WriteSame ==
  ASSUME NEW f \in Seq(Word), NEW p \in Nat, NEW w \in Seq(Word), Len(w) = 2,
         NEW f2, f2 = WriteAt(f, p, w),
         NEW a \in Nat, NEW b \in Nat, b <= a \/ b <= Len(f), b <= p \/ p + 2 <= a
  PROVE  Same(f, f2, a, b)
<1> SUFFICES ASSUME NEW n \in Nat, a < n, n <= b
             PROVE  f2[n] = f[n]
  BY Zenon DEF Same
<1>1. n \in 1 .. Len(f)
  OBVIOUS
<1>2. n \notin p + 1 .. p + 2
  OBVIOUS
<1>3. n \notin p + 1 .. p + Len(w)
  BY <1>2
<1> QED
  BY <1>1, <1>3, WriteKeeps

Pair(w, x, y) == w = <<x, y>>

PairAt(f, p, x, y) == f[p + 1] = x /\ f[p + 2] = y

LEMMA TwoWritten ==
  ASSUME NEW f \in Seq(Word), NEW p \in Nat, NEW x, NEW y, NEW w, Pair(w, x, y),
         NEW f2, f2 = WriteAt(f, p, w)
  PROVE  PairAt(f2, p, x, y)
<1>1. p + 1 \in p + 1 .. p + 2 /\ p + 2 \in p + 1 .. p + 2
  OBVIOUS
<1>2. PICK N : N = IF p + 2 > Len(f) THEN p + 2 ELSE Len(f)
  OBVIOUS
<1>3. p + 1 \in 1 .. N /\ p + 2 \in 1 .. N
  BY <1>2
<1>4. Len(w) = 2 /\ w[(p + 1) - p] = x /\ w[(p + 2) - p] = y
  BY DEF Pair
<1>5. f2 = [n \in 1 .. N |-> IF n \in p + 1 .. p + 2 THEN w[n - p]
                             ELSE IF n <= Len(f) THEN f[n] ELSE 0]
  BY <1>2, <1>4, Zenon DEF WriteAt
<1> QED
  BY <1>1, <1>3, <1>4, <1>5 DEF PairAt

\* Between the header at h and place p stand the functions below g that were run,
\* c of them.
Begun(f, h, p, tab, c, g) ==
  \E fns, off, lists :
    /\ BodyAt(f, h, p, tab, c, fns, off, lists)
    /\ \A j \in 1 .. c : fns[j] < g
    /\ \A x \in Functions : x < g => ((\E j \in 1 .. c : fns[j] = x) <=> Exec(tab, x) # {})

\* Function g is written from place p on, up to q: all but the paths td, with its
\* header still to be filled in at fh, or there.
Open(f, p, q, tab, g, l, td, fh) ==
  /\ g \in Functions /\ td \subseteq Exec(tab, g) /\ Exec(tab, g) # {}
  /\ IsList(l, Exec(tab, g) \ td) /\ q = p + 2 + 2 * Len(l) /\ EntriesAt(f, p, g, l, tab)
  /\ Storage[g] = "array" => fh = p /\ (Len(l) # 0 => Len(f) = q)
  /\ Storage[g] # "array" => f[p + 1] = g /\ f[p + 2] = Cardinality(Exec(tab, g)) /\ Len(f) = q

LEMMA NoneBegun ==
  ASSUME NEW f, NEW h \in Nat, NEW tab
  PROVE  Begun(f, h, h + 2, tab, 0, 1)
<1>1. PICK off : off = [n \in Nat |-> h + 2]
  OBVIOUS
<1>2. off \in [Nat -> Nat] /\ off[1] = h + 2 /\ off[0 + 1] = h + 2
  BY <1>1
<1>3. 1 .. 0 = {} /\ 0 \in Nat
  OBVIOUS
<1>4. BodyAt(f, h, h + 2, tab, 0, off, off, off)
  BY <1>2, <1>3, Zenon DEF BodyAt
<1>5. \A x \in Functions : ~(x < 1)
  BY TypeOfBounds
<1> QED
  BY <1>3, <1>4, <1>5, Zenon DEF Begun

\* A function that was not run is skipped.
LEMMA SkipBegun ==
  ASSUME NEW f, NEW h, NEW p, NEW tab, NEW c, NEW g \in Functions, Begun(f, h, p, tab, c, g),
         Exec(tab, g) = {}
  PROVE  Begun(f, h, p, tab, c, g + 1)
<1>1. PICK fns, off, lists :
        /\ BodyAt(f, h, p, tab, c, fns, off, lists)
        /\ \A j \in 1 .. c : fns[j] < g
        /\ \A x \in Functions : x < g => ((\E j \in 1 .. c : fns[j] = x) <=> Exec(tab, x) # {})
  BY Zenon DEF Begun
<1>2. \A j \in 1 .. c : fns[j] \in Functions
  BY <1>1, Zenon DEF BodyAt
<1>3. \A x, y \in Functions : x < y => x < y + 1 /\ x # y
  BY TypeOfBounds
<1>4. \A j \in 1 .. c : fns[j] < g + 1 /\ fns[j] # g
  BY <1>1, <1>2, <1>3
<1>5. \A x \in Functions : x < g + 1 => x < g \/ x = g
  BY TypeOfBounds
<1>6. \A x \in Functions : x < g + 1 => ((\E j \in 1 .. c : fns[j] = x) <=> Exec(tab, x) # {})
  BY <1>1, <1>4, <1>5, Zenon
<1> QED
  BY <1>1, <1>4, <1>6, Zenon DEF Begun

LEMMA SameBegun ==
  ASSUME NEW f, NEW f2, NEW h \in Nat, NEW p \in Nat, Same(f, f2, h + 2, p), NEW tab, NEW c, NEW g,
         Begun(f, h, p, tab, c, g)
  PROVE  Begun(f2, h, p, tab, c, g)
<1>1. PICK fns, off, lists :
        /\ BodyAt(f, h, p, tab, c, fns, off, lists)
        /\ \A j \in 1 .. c : fns[j] < g
        /\ \A x \in Functions : x < g => ((\E j \in 1 .. c : fns[j] = x) <=> Exec(tab, x) # {})
  BY Zenon DEF Begun
<1>2. BodyAt(f2, h, p, tab, c, fns, off, lists)
  BY <1>1, SameBody
<1> QED
  BY <1>1, <1>2, Zenon DEF Begun

LEMMA BegunType ==
  ASSUME NEW f, NEW h, NEW p, NEW tab, NEW c, NEW g, Begun(f, h, p, tab, c, g)
  PROVE  c \in Nat /\ p \in Nat /\ (c = 0 => p = h + 2)
<1>1. PICK fns, off, lists : BodyAt(f, h, p, tab, c, fns, off, lists)
  BY Zenon DEF Begun
<1>2. c \in Nat /\ off \in [Nat -> Nat] /\ off[1] = h + 2 /\ off[c + 1] = p
  BY <1>1, Zenon DEF BodyAt
<1> QED
  BY <1>2

LEMMA NoEntries ==
  ASSUME NEW S
  PROVE  IsList(<< >>, S \ S) /\ Len(<< >>) = 0 /\ 1 .. 0 = {}
<1>1. S \ S = {} /\ << >> \in Seq({}) /\ Len(<< >>) = 0 /\ 1 .. 0 = {}
  OBVIOUS
<1> QED
  BY <1>1 DEF IsList

\* A function is begun: room is left for its header, or it is written.
LEMMA OpenArray ==
  ASSUME NEW f, NEW p \in Nat, NEW tab, NEW g \in Functions, Exec(tab, g) # {}, Storage[g] = "array"
  PROVE  Open(f, p, p + 2, tab, g, << >>, Exec(tab, g), p)
<1>1. IsList(<< >>, Exec(tab, g) \ Exec(tab, g)) /\ Len(<< >>) = 0 /\ 1 .. 0 = {}
  BY NoEntries, Zenon
<1>2. p + 2 = p + 2 + 2 * 0
  OBVIOUS
<1> QED
  BY <1>1, <1>2, Zenon DEF Open, EntriesAt

LEMMA OpenHash ==
  ASSUME NEW f \in Seq(Word), NEW p \in Nat, NEW tab, NEW g \in Functions, Exec(tab, g) # {},
         Storage[g] # "array", Len(f) <= p + 2, NEW fh,
         <<g, Cardinality(Exec(tab, g))>> \in Seq(Word)
  PROVE  Open(WriteAt(f, p, <<g, Cardinality(Exec(tab, g))>>), p, p + 2, tab, g, << >>, Exec(tab, g), fh)
<1>1. IsList(<< >>, Exec(tab, g) \ Exec(tab, g)) /\ Len(<< >>) = 0 /\ 1 .. 0 = {}
  BY NoEntries, Zenon
<1>2. p + 2 = p + 2 + 2 * 0
  OBVIOUS
<1>3. PICK C, w, f2 : C = Cardinality(Exec(tab, g)) /\ w = <<g, C>> /\ f2 = WriteAt(f, p, w)
  OBVIOUS
<1>4. w \in Seq(Word) /\ Len(w) = 2
  BY <1>3
<1>5. f2[p + 1] = g /\ f2[p + 2] = C
  <2>1. Pair(w, g, C)
    BY <1>3, Zenon DEF Pair
  <2>2. PairAt(f2, p, g, C)
    BY <1>3, <2>1, TwoWritten
  <2> QED
    BY <2>2, Zenon DEF PairAt
<1>6. Len(f2) = IF p + 2 > Len(f) THEN p + 2 ELSE Len(f)
  BY <1>3, <1>4, WriteTwo
<1>7. Len(f2) = p + 2
  BY <1>6
<1>8. Open(f2, p, p + 2, tab, g, << >>, Exec(tab, g), fh)
  BY <1>1, <1>2, <1>3, <1>5, <1>7, Zenon DEF Open, EntriesAt
<1> QED
  BY <1>3, <1>8, Zenon

\* One more element in a list
LEMMA ListMore ==
  ASSUME NEW l, NEW S, IsList(l, S), NEW n, n \notin S
  PROVE  /\ IsList(Append(l, n), S \cup {n}) /\ Len(Append(l, n)) = Len(l) + 1
         /\ Append(l, n)[Len(l) + 1] = n /\ \A j \in 1 .. Len(l) : Append(l, n)[j] = l[j]
<1>1. PICK L : L = Len(l) /\ L \in Nat
  BY ListLen
<1>2. /\ l \in Seq(S)
      /\ \A i, j \in 1 .. L : l[i] = l[j] => i = j
      /\ \A x \in S : \E j \in 1 .. L : l[j] = x
  BY <1>1, Zenon DEF IsList
<1>3. PICK T : T = S \cup {n}
  OBVIOUS
<1>4. PICK m : m = Append(l, n)
  OBVIOUS
<1>5. m \in Seq(T) /\ Len(m) = L + 1 /\ m[L + 1] = n /\ \A j \in 1 .. L : m[j] = l[j]
  <2>1. l \in Seq(T) /\ n \in T
    BY <1>2, <1>3, WiderSeq
  <2> QED
    BY <1>1, <1>4, <2>1
<1>6. \A j \in 1 .. L : l[j] \in S
  BY <1>1, <1>2
<1>7. \A j \in 1 .. L + 1 : j \in 1 .. L \/ j = L + 1
  BY <1>1
<1>8. \A j \in 1 .. L : j \in 1 .. L + 1
  BY <1>1
<1>9. L + 1 \in 1 .. L + 1
  BY <1>1
<1>10. \A i, j \in 1 .. L + 1 : m[i] = m[j] => i = j
  <2> SUFFICES ASSUME NEW i \in 1 .. L + 1, NEW j \in 1 .. L + 1, m[i] = m[j] PROVE i = j
    OBVIOUS
  <2> QED
    BY <1>2, <1>5, <1>6, <1>7, Zenon
<1>11. \A x \in T : \E j \in 1 .. L + 1 : m[j] = x
  BY <1>2, <1>3, <1>5, <1>8, <1>9, Zenon
<1>12. IsList(m, T)
  BY <1>5, <1>10, <1>11, Zenon DEF IsList
<1> QED
  BY <1>1, <1>3, <1>4, <1>5, <1>12, Zenon

\* What is written behind the entries leaves them.
LEMMA SameEntries ==
  ASSUME NEW f, NEW f2, NEW p \in Nat, NEW L \in Nat, NEW l, L = Len(l), NEW q, q = p + 2 + 2 * L,
         Same(f, f2, p + 2, q), NEW tab, NEW g, EntriesAt(f, p, g, l, tab)
  PROVE  EntriesAt(f2, p, g, l, tab)
<1>1. ASSUME NEW j \in 1 .. L
      PROVE  f2[p + 1 + 2 * j] = l[j] /\ f2[p + 2 + 2 * j] = tab[g][l[j]]
  <2>1. PICK u, w, a : u = p + 1 + 2 * j /\ w = p + 2 + 2 * j /\ a = p + 2
    OBVIOUS
  <2>2. u \in Nat /\ a < u /\ u <= q /\ w \in Nat /\ a < w /\ w <= q
    BY <2>1
  <2>3. f2[u] = f[u] /\ f2[w] = f[w]
    BY <2>1, <2>2 DEF Same
  <2>4. f[u] = l[j] /\ f[w] = tab[g][l[j]]
    BY <2>1 DEF EntriesAt
  <2> QED
    BY <2>1, <2>3, <2>4
<1> QED
  BY <1>1, Zenon DEF EntriesAt

\* An entry is written.
LEMMA EntryWritten ==
  ASSUME NEW f \in Seq(Word), NEW p \in Nat, NEW q, NEW tab, NEW g, NEW l, NEW td, NEW fh,
         Open(f, p, q, tab, g, l, td, fh), NEW n \in td, Len(f) <= q,
         <<n, tab[g][n]>> \in Seq(Word)
  PROVE  Open(WriteAt(f, q, <<n, tab[g][n]>>), p, q + 2, tab, g, Append(l, n), td \ {n}, fh)
<1>1. PICK E : E = Exec(tab, g)
  OBVIOUS
<1>2. /\ g \in Functions /\ td \subseteq E /\ E # {}
      /\ IsList(l, E \ td) /\ q = p + 2 + 2 * Len(l) /\ EntriesAt(f, p, g, l, tab)
      /\ Storage[g] = "array" => fh = p /\ (Len(l) # 0 => Len(f) = q)
      /\ Storage[g] # "array" => f[p + 1] = g /\ f[p + 2] = Cardinality(E) /\ Len(f) = q
  BY <1>1, Zenon DEF Open
<1>3. PICK L \in Nat : L = Len(l) /\ q = p + 2 + 2 * L
  <2>1. Len(l) \in Nat
    BY <1>2, ListLen
  <2> QED
    BY <1>2, <2>1, Zenon
<1>4. PICK x, f2, w : x = tab[g][n] /\ w = <<n, x>> /\ f2 = WriteAt(f, q, w)
  OBVIOUS
<1>5. w \in Seq(Word) /\ Len(w) = 2 /\ q \in Nat
  BY <1>3, <1>4
<1>6. f2[q + 1] = n /\ f2[q + 2] = x
  <2>1. Pair(w, n, x)
    BY <1>4, Zenon DEF Pair
  <2>2. PairAt(f2, q, n, x)
    BY <1>4, <1>5, <2>1, TwoWritten
  <2> QED
    BY <2>2, Zenon DEF PairAt
<1>7. Len(f2) = q + 2
  <2>1. Len(f2) = IF q + 2 > Len(f) THEN q + 2 ELSE Len(f)
    BY <1>4, <1>5, WriteTwo
  <2> QED
    BY <1>5, <2>1
<1>8. PICK m : m = Append(l, n)
  OBVIOUS
<1>9. /\ IsList(m, (E \ td) \cup {n}) /\ Len(m) = L + 1 /\ m[L + 1] = n
      /\ \A j \in 1 .. L : m[j] = l[j]
  <2>1. PICK S : S = E \ td
    OBVIOUS
  <2>2. IsList(l, S) /\ n \notin S
    BY <1>2, <2>1
  <2>3. /\ IsList(Append(l, n), S \cup {n}) /\ Len(Append(l, n)) = Len(l) + 1
        /\ Append(l, n)[Len(l) + 1] = n /\ \A j \in 1 .. Len(l) : Append(l, n)[j] = l[j]
    BY <2>2, ListMore
  <2> QED
    BY <1>3, <1>8, <2>1, <2>3, Zenon
<1>10. (E \ td) \cup {n} = E \ (td \ {n})
  BY <1>2
<1>11. L # 0 => Len(f) = q
  BY <1>2, <1>3
<1>12. Same(f, f2, p + 2, q)
  <2>1. PICK a \in Nat : a = p + 2
    OBVIOUS
  <2>2. (q <= a \/ q <= Len(f)) /\ q <= q
    BY <1>3, <1>5, <1>11, <2>1
  <2>3. Same(f, f2, a, q)
    BY <1>4, <1>5, <2>2, WriteSame
  <2> QED
    BY <2>1, <2>3, Zenon
<1>13. EntriesAt(f2, p, g, l, tab)
  BY <1>2, <1>3, <1>12, SameEntries
<1>14. EntriesAt(f2, p, g, m, tab)
  <2>1. ASSUME NEW j \in 1 .. L + 1
        PROVE  f2[p + 1 + 2 * j] = m[j] /\ f2[p + 2 + 2 * j] = tab[g][m[j]]
    <3>1. CASE j \in 1 .. L
      BY <1>3, <1>9, <1>13, <3>1, Zenon DEF EntriesAt
    <3>2. CASE j \notin 1 .. L
      <4>1. j = L + 1
        BY <3>2
      <4>2. p + 1 + 2 * j = q + 1 /\ p + 2 + 2 * j = q + 2
        BY <1>3, <4>1
      <4> QED
        BY <1>4, <1>6, <1>9, <4>1, <4>2, Zenon
    <3> QED
      BY <3>1, <3>2
  <2> QED
    BY <1>9, <2>1, Zenon DEF EntriesAt
<1>15. Storage[g] # "array" => f2[p + 1] = g /\ f2[p + 2] = Cardinality(E)
  <2> SUFFICES ASSUME Storage[g] # "array" PROVE f2[p + 1] = g /\ f2[p + 2] = Cardinality(E)
    OBVIOUS
  <2>1. f[p + 1] = g /\ f[p + 2] = Cardinality(E) /\ Len(f) = q
    BY <1>2
  <2>2. Same(f, f2, p, q)
    <3>1. q <= Len(f) /\ q <= q
      BY <1>5, <2>1
    <3> QED
      BY <1>4, <1>5, <3>1, WriteSame
  <2>3. p + 1 \in Nat /\ p < p + 1 /\ p + 1 <= q /\ p + 2 \in Nat /\ p < p + 2 /\ p + 2 <= q
    BY <1>3
  <2> QED
    BY <2>1, <2>2, <2>3 DEF Same
<1>16. q + 2 = p + 2 + 2 * (L + 1)
  BY <1>3
<1>17. IsList(m, E \ (td \ {n})) /\ q + 2 = p + 2 + 2 * Len(m) /\ td \ {n} \subseteq E
  BY <1>2, <1>9, <1>10, <1>16, Zenon
<1>18. Open(f2, p, q + 2, tab, g, m, td \ {n}, fh)
  BY <1>1, <1>2, <1>7, <1>14, <1>15, <1>17, Zenon DEF Open
<1> QED
  BY <1>4, <1>8, <1>18, Zenon

\* A function is complete.
LEMMA FunctionClosed ==
  ASSUME NEW f, NEW h \in Nat, NEW p, NEW q, NEW tab, NEW c, NEW g \in Functions, NEW l,
         Begun(f, h, p, tab, c, g), h + 2 <= p, Exec(tab, g) # {}, IsList(l, Exec(tab, g)),
         FuncAt(f, p, q, g, l, tab)
  PROVE  Begun(f, h, q, tab, c + 1, g + 1)
<1>1. PICK fns, off, lists :
        /\ BodyAt(f, h, p, tab, c, fns, off, lists)
        /\ \A j \in 1 .. c : fns[j] < g
        /\ \A x \in Functions : x < g => ((\E j \in 1 .. c : fns[j] = x) <=> Exec(tab, x) # {})
  BY Zenon DEF Begun
<1>2. /\ c \in Nat /\ off \in [Nat -> Nat] /\ off[1] = h + 2 /\ off[c + 1] = p
      /\ \A j \in 1 .. c :
           /\ fns[j] \in Functions /\ IsList(lists[j], Exec(tab, fns[j]))
           /\ FuncAt(f, off[j], off[j + 1], fns[j], lists[j], tab)
           /\ h + 2 <= off[j] /\ off[j + 1] <= p
      /\ \A i, j \in 1 .. c : fns[i] = fns[j] => i = j
  BY <1>1, Zenon DEF BodyAt
<1>3. p \in Nat /\ q \in Nat /\ p <= q
  <2>1. PICK L \in Nat : L = Len(l)
    BY ListLen
  <2>2. p \in Nat /\ q = p + 2 + 2 * L
    BY <2>1, Zenon DEF FuncAt
  <2> QED
    BY <2>2
<1>4. PICK d : d = c + 1 /\ d \in Nat /\ d \in 1 .. d /\ d # 0
  BY <1>2
<1>5. /\ \A j \in 1 .. d : j \in 1 .. c \/ j = d
      /\ \A j \in 1 .. c : j \in 1 .. d /\ j # d /\ j \in Nat /\ j + 1 \in Nat /\ j # d + 1 /\ j + 1 # d + 1
      /\ d # d + 1 /\ d + 1 \in Nat /\ 1 \in Nat /\ 1 # d + 1
  BY <1>2, <1>4
<1>6. PICK fns2, off2, lists2 :
        /\ fns2 = [j \in 1 .. d |-> IF j = d THEN g ELSE fns[j]]
        /\ off2 = [j \in Nat |-> IF j = d + 1 THEN q ELSE off[j]]
        /\ lists2 = [j \in 1 .. d |-> IF j = d THEN l ELSE lists[j]]
  OBVIOUS
<1>7. /\ fns2[d] = g /\ lists2[d] = l /\ off2[d + 1] = q /\ off2[d] = p /\ off2[1] = h + 2
      /\ off2 \in [Nat -> Nat]
      /\ \A j \in 1 .. c : /\ fns2[j] = fns[j] /\ lists2[j] = lists[j]
                           /\ off2[j] = off[j] /\ off2[j + 1] = off[j + 1]
  BY <1>2, <1>3, <1>4, <1>5, <1>6
<1>8. ASSUME NEW j \in 1 .. d
      PROVE  /\ fns2[j] \in Functions /\ IsList(lists2[j], Exec(tab, fns2[j]))
             /\ FuncAt(f, off2[j], off2[j + 1], fns2[j], lists2[j], tab)
             /\ h + 2 <= off2[j] /\ off2[j + 1] <= q
  <2>1. CASE j = d
    <3>1. q <= q
      BY <1>3
    <3> QED
      BY <1>7, <2>1, <3>1, Zenon
  <2>2. CASE j \in 1 .. c
    <3>1. off[j + 1] \in Nat /\ off[j + 1] <= p
      BY <1>2, <1>5, <2>2
    <3>2. off[j + 1] <= q
      BY <1>3, <3>1
    <3> QED
      BY <1>2, <1>7, <2>2, <3>2, Zenon
  <2> QED
    BY <1>5, <2>1, <2>2
<1>9. \A x \in Functions : ~(x < x)
  BY TypeOfBounds
<1>10. \A i, j \in 1 .. d : fns2[i] = fns2[j] => i = j
  <2>1. \A j \in 1 .. c : fns2[j] # g /\ fns2[j] = fns[j]
    BY <1>1, <1>2, <1>7, <1>9, Zenon
  <2> SUFFICES ASSUME NEW i \in 1 .. d, NEW j \in 1 .. d, fns2[i] = fns2[j] PROVE i = j
    OBVIOUS
  <2>2. (i \in 1 .. c \/ i = d) /\ (j \in 1 .. c \/ j = d)
    BY <1>5
  <2> QED
    BY <1>2, <1>7, <2>1, <2>2, Zenon
<1>11. BodyAt(f, h, q, tab, d, fns2, off2, lists2)
  BY <1>4, <1>7, <1>8, <1>10, Zenon DEF BodyAt
<1>12. \A x \in Functions : (x < g => x < g + 1) /\ (x < g + 1 => x < g \/ x = g) /\ x < x + 1
  BY TypeOfBounds
<1>13. \A j \in 1 .. d : fns2[j] < g + 1
  BY <1>1, <1>2, <1>5, <1>7, <1>12, Zenon
<1>14. \A x \in Functions : x < g + 1 => ((\E j \in 1 .. d : fns2[j] = x) <=> Exec(tab, x) # {})
  <2> SUFFICES ASSUME NEW x \in Functions, x < g + 1
               PROVE  (\E j \in 1 .. d : fns2[j] = x) <=> Exec(tab, x) # {}
    OBVIOUS
  <2>1. CASE x = g
    BY <1>4, <1>7, <2>1, Zenon
  <2>2. CASE x # g
    <3>1. x < g
      BY <1>12, <2>2, Zenon
    <3>2. (\E j \in 1 .. d : fns2[j] = x) <=> (\E j \in 1 .. c : fns[j] = x)
      BY <1>5, <1>7, <2>2, Zenon
    <3> QED
      BY <1>1, <3>1, <3>2, Zenon
  <2> QED
    BY <2>1, <2>2
<1>15. Begun(f, h, q, tab, d, g + 1)
  BY <1>11, <1>13, <1>14, Zenon DEF Begun
<1> QED
  BY <1>4, <1>15, Zenon

\* The header is filled in: a complete packet, up to the end of the file.
LEMMA PathClosed ==
  ASSUME NEW f \in Seq(Word), NEW h \in Nat, NEW p \in Nat, NEW tab, NEW c,
         Begun(f, h, p, tab, c, Len(Storage) + 1), h + 2 <= p, Len(f) <= p, c # 0 => p <= Len(f),
         NEW w \in Seq(Word), Len(w) = 2, Pair(w, PathInfo, c), NEW f2, f2 = WriteAt(f, h, w)
  PROVE  PathAt(f2, h, p, tab) /\ Len(f2) = p
<1>1. PICK fns, off, lists :
        /\ BodyAt(f, h, p, tab, c, fns, off, lists)
        /\ \A x \in Functions :
             x < Len(Storage) + 1 => ((\E j \in 1 .. c : fns[j] = x) <=> Exec(tab, x) # {})
  BY Zenon DEF Begun
<1>2. c \in Nat /\ (c = 0 => p = h + 2)
  BY BegunType
<1>3. Len(f2) = p
  <2>1. Len(f2) = IF h + 2 > Len(f) THEN h + 2 ELSE Len(f)
    BY WriteTwo
  <2> QED
    BY <1>2, <2>1
<1>4. Same(f, f2, h + 2, p)
  <2>1. PICK a \in Nat : a = h + 2
    OBVIOUS
  <2>2. (p <= a \/ p <= Len(f)) /\ h + 2 <= a
    BY <1>2, <2>1
  <2>3. Same(f, f2, a, p)
    BY <2>2, WriteSame
  <2> QED
    BY <2>1, <2>3, Zenon
<1>5. BodyAt(f2, h, p, tab, c, fns, off, lists)
  BY <1>1, <1>4, SameBody
<1>6. f2[h + 1] = PathInfo /\ f2[h + 2] = c
  <2>1. PairAt(f2, h, PathInfo, c)
    BY TwoWritten
  <2> QED
    BY <2>1, Zenon DEF PairAt
<1>7. \A x \in Functions : x < Len(Storage) + 1
  BY TypeOfBounds
<1>8. Complete(f2, h, p, tab, c, fns, off, lists)
  BY <1>1, <1>5, <1>6, <1>7, Zenon DEF Complete
<1> QED
  BY <1>3, <1>8, Zenon DEF PathAt

\* The first e words of a file are items, with the first k packets.
LaidTo(f, ps, e, k) ==
  \E M, pl, nd : Laid(f, ps, M, pl, nd) /\ pl[M + 1] = e /\ nd[M + 1] = k

LEMMA SameLaidTo ==
  ASSUME NEW f, NEW f2, NEW ps, NEW ps2, NEW e, NEW k, LaidTo(f, ps, e, k),
         Len(f) \in Nat, Len(f2) \in Nat, Len(f) <= Len(f2), Same(f, f2, 0, e),
         Len(ps) \in Nat, Len(ps2) \in Nat, Len(ps) <= Len(ps2),
         \A r \in 1 .. Len(ps) : ps2[r] = ps[r]
  PROVE  LaidTo(f2, ps2, e, k)
<1>1. PICK M, pl, nd : Laid(f, ps, M, pl, nd) /\ pl[M + 1] = e /\ nd[M + 1] = k
  BY Zenon DEF LaidTo
<1>2. Same(f, f2, 0, pl[M + 1])
  BY <1>1, Zenon
<1>3. Laid(f2, ps2, M, pl, nd)
  BY <1>1, <1>2, SameLaid
<1> QED
  BY <1>1, <1>3, Zenon DEF LaidTo

LEMMA LaidToType ==
  ASSUME NEW f, NEW ps, NEW e, NEW k, LaidTo(f, ps, e, k)
  PROVE  e \in Nat /\ k \in Nat /\ e <= Len(f) /\ k <= Len(ps)
<1>1. PICK M, pl, nd : Laid(f, ps, M, pl, nd) /\ pl[M + 1] = e /\ nd[M + 1] = k
  BY Zenon DEF LaidTo
<1>2. M \in Nat /\ pl \in [Nat -> Nat] /\ nd \in [Nat -> Nat] /\ pl[M + 1] <= Len(f) /\ nd[M + 1] <= Len(ps)
  BY <1>1, Zenon DEF Laid
<1>3. M + 1 \in Nat
  BY <1>2
<1> QED
  BY <1>1, <1>2, <1>3

\* One more item
LEMMA LaidMore ==
  ASSUME NEW f, NEW ps, NEW e, NEW k, LaidTo(f, ps, e, k), Len(f) \in Nat, Len(ps) \in Nat,
         NEW q \in Nat, NEW m \in Nat, e <= q, k <= m, q <= Len(f), m <= Len(ps),
         Item(f, ps, e, q, k, m), m # k => ps[m].complete
  PROVE  LaidTo(f, ps, q, m)
<1>1. PICK M, pl, nd : Laid(f, ps, M, pl, nd) /\ pl[M + 1] = e /\ nd[M + 1] = k
  BY Zenon DEF LaidTo
<1>2. /\ M \in Nat /\ pl \in [Nat -> Nat] /\ nd \in [Nat -> Nat] /\ pl[1] = 0 /\ nd[1] = 0
      /\ \A x \in 1 .. M :
           /\ pl[x] <= pl[x + 1] /\ pl[x + 1] <= e /\ nd[x + 1] <= k
           /\ Item(f, ps, pl[x], pl[x + 1], nd[x], nd[x + 1])
      /\ \A r \in 1 .. k : ps[r].complete
  BY <1>1, Zenon DEF Laid
<1>3. e \in Nat /\ k \in Nat
  BY LaidToType
<1>n. M \in Nat
  BY <1>2
<1>4. PICK d : d = M + 1 /\ d \in Nat /\ d \in 1 .. d
  BY <1>n
<1>5. /\ \A x \in 1 .. d : x \in 1 .. M \/ x = d
      /\ \A x \in 1 .. M : x \in Nat /\ x + 1 \in Nat /\ x # d + 1 /\ x + 1 # d + 1
      /\ d # d + 1 /\ d + 1 \in Nat /\ 1 \in Nat /\ 1 # d + 1
  BY <1>n, <1>4
<1>6. PICK pl2, nd2 : /\ pl2 = [x \in Nat |-> IF x = d + 1 THEN q ELSE pl[x]]
                      /\ nd2 = [x \in Nat |-> IF x = d + 1 THEN m ELSE nd[x]]
  OBVIOUS
<1>7. /\ pl2 \in [Nat -> Nat] /\ nd2 \in [Nat -> Nat] /\ pl2[1] = 0 /\ nd2[1] = 0
      /\ pl2[d + 1] = q /\ nd2[d + 1] = m /\ pl2[d] = e /\ nd2[d] = k
      /\ \A x \in 1 .. M : /\ pl2[x] = pl[x] /\ pl2[x + 1] = pl[x + 1]
                           /\ nd2[x] = nd[x] /\ nd2[x + 1] = nd[x + 1]
  BY <1>1, <1>2, <1>4, <1>5, <1>6
<1>8. ASSUME NEW x \in 1 .. d
      PROVE  /\ pl2[x] <= pl2[x + 1] /\ pl2[x + 1] <= q /\ nd2[x + 1] <= m
             /\ Item(f, ps, pl2[x], pl2[x + 1], nd2[x], nd2[x + 1])
  <2>1. CASE x = d
    <3>1. q <= q /\ m <= m
      OBVIOUS
    <3> QED
      BY <1>7, <2>1, <3>1, Zenon
  <2>2. CASE x \in 1 .. M
    <3>1. PICK a, b : a = pl[x + 1] /\ b = nd[x + 1] /\ a \in Nat /\ b \in Nat
      BY <1>2, <1>5, <2>2
    <3>2. a <= e /\ b <= k
      BY <1>2, <2>2, <3>1, Zenon
    <3>3. a <= q /\ b <= m
      BY <1>3, <3>1, <3>2
    <3> QED
      BY <1>2, <1>7, <2>2, <3>1, <3>3, Zenon
  <2> QED
    BY <1>5, <2>1, <2>2
<1>9. ASSUME NEW r \in 1 .. m
      PROVE  ps[r].complete
  <2>1. m = k \/ m = k + 1
    BY Zenon DEF Item
  <2>2. r \in 1 .. k \/ (r = m /\ m # k)
    BY <1>3, <2>1
  <2> QED
    BY <1>2, <2>2
<1>10. Laid(f, ps, d, pl2, nd2)
  BY <1>4, <1>7, <1>8, <1>9, Zenon DEF Laid
<1> QED
  BY <1>7, <1>10, Zenon DEF LaidTo

-----------------------------------------------------------------------------
(* The file as the handler leaves it *)

\* The words of the arguments so far
InArgs(f, b, a, e) ==
  /\ e = b /\ Len(f) = e + a - 1
  /\ a > 1 => f[e + 1] = ArgumentInfo
  /\ a > 2 => f[e + 2] = ArgBytes

InFunction(f, h, p, tab, c, g, e) ==
  e = h /\ Begun(f, h, p, tab, c, g) /\ (c # 0 => p <= Len(f))

InEntries(f, h, q, tab, n, g, td, fh, e) ==
  /\ e = h
  /\ \E c, p, l :
       /\ n = c + 1 /\ Begun(f, h, p, tab, c, g) /\ h + 2 <= p /\ (c # 0 => p <= Len(f))
       /\ Open(f, p, q, tab, g, l, td, fh)

TablesInv == table \in Tables /\ packets \in Seq(PacketSet)

Writing == {"args", "function", "entries"}

Clean(e, k) ==
  /\ k = Len(packets)
  /\ pc \in {"idle", "run"} => e = Len(file)
  /\ pc = "args" => InArgs(file, base, arg, e)
  /\ pc = "function" => InFunction(file, header, pos, table, functions, fn, e)
  /\ pc = "entries" => InEntries(file, header, pos, table, functions, fn, todo, fnHeader, e)

\* Items, and behind them what the run has written so far, or what an earlier run
\* left unfinished.
FileInv ==
  ~broken => \E e, k :
    /\ LaidTo(file, packets, e, k)
    /\ Clean(e, k) \/ (Stuck(file, packets, e, k) /\ (pc \in Writing => e < base))

LEMMA TablesInit == Init => TablesInv
<1> SUFFICES ASSUME Init PROVE TablesInv
  OBVIOUS
<1>1. table = [f \in Functions |-> [n \in Paths[f] |-> 0]] /\ packets = << >>
  BY DEF Init, NoPaths
<1>2. \A f \in Functions : [n \in Paths[f] |-> 0] \in [Paths[f] -> Word]
  BY TypeOfBounds
<1>3. table \in Tables
  BY <1>1, <1>2 DEF Tables
<1> QED
  BY <1>1, <1>3 DEF TablesInv

\* A packet is added to the history only.
LEMMA PacketsGrow ==
  ASSUME TablesInv, NEW d \in BOOLEAN, packets' = Append(packets, Packet(d))
  PROVE  /\ packets' \in Seq(PacketSet) /\ Len(packets') = Len(packets) + 1
         /\ packets'[Len(packets) + 1] = Packet(d) /\ \A r \in 1 .. Len(packets) : packets'[r] = packets[r]
<1>1. Packet(d) \in PacketSet /\ packets \in Seq(PacketSet)
  BY DEF Packet, PacketSet, TablesInv
<1> HIDE DEF PacketSet
<1> QED
  BY <1>1

LEMMA TablesStep == TypeOK /\ TablesInv /\ [Next]_vars => TablesInv'
<1> SUFFICES ASSUME TypeOK, TablesInv, [Next]_vars PROVE TablesInv'
  OBVIOUS
<1>1. table' \in Tables
  <2>1. CASE table' = table
    BY <2>1 DEF TablesInv
  <2>2. CASE Start
    <3>1. table' = [f \in Functions |-> [n \in Paths[f] |-> 0]]
      BY <2>2 DEF Start, NoPaths
    <3>2. \A f \in Functions : [n \in Paths[f] |-> 0] \in [Paths[f] -> Word]
      BY TypeOfBounds
    <3> QED
      BY <3>1, <3>2 DEF Tables
  <2>3. ASSUME NEW f \in Functions, NEW n \in Paths[f], NEW k \in Times, Increment(f, n, k)
        PROVE  table' \in Tables
    <3>1. table[f][n] \in Word /\ k \in Nat /\ table[f] \in [Paths[f] -> Word]
      BY TablesAssumption DEF TypeOK
    <3>2. PICK v \in Word : v = Added(table[f][n], k)
      BY <3>1, TypeOfBounds DEF Added
    <3>3. PICK row \in [Paths[f] -> Word] : row = [table[f] EXCEPT ![n] = v]
      BY <3>1
    <3>4. table' = [table EXCEPT ![f] = row]
      BY <2>3, <3>2, <3>3 DEF Increment
    <3> QED
      BY <3>4 DEF TablesInv, Tables
  <2>4. \/ table' = table \/ Start
        \/ \E f \in Functions : \E n \in Paths[f], k \in Times : Increment(f, n, k)
    BY DEF Next, Program, Exit, Handler, WriteArgs, SkipFunction, BeginFunction, WriteEntry, EndFunction,
           Finish, WriteFails, Kill, Load, vars, progVars
  <2> QED
    BY <2>1, <2>2, <2>3, <2>4
<1>2. packets' \in Seq(PacketSet)
  <2>1. packets' = packets \/ \E d \in BOOLEAN : packets' = Append(packets, Packet(d))
    BY DEF Next, Program, Start, Increment, Exit, Handler, WriteArgs, SkipFunction, BeginFunction,
           WriteEntry, EndFunction, Finish, WriteFails, Kill, Load, vars, history
  <2> QED
    BY <2>1, PacketsGrow DEF TablesInv
<1> QED
  BY <1>1, <1>2 DEF TablesInv

\* What an earlier run left unfinished stays in front of what is written.
LEMMA StuckStays ==
  ASSUME IInv, TablesInv, TablesInv', file' \in Seq(Word), Safe,
         NEW e, NEW k, LaidTo(file, packets, e, k), Stuck(file, packets, e, k),
         pc \in Writing => e < base, file' = file \/ pc \in Writing,
         Len(packets) <= Len(packets'), \A r \in 1 .. Len(packets) : packets'[r] = packets[r],
         pc' \in Writing => (pc \in Writing /\ base' = base) \/ base' = Len(file)
  PROVE  FileInv'
<1>1. e \in Nat /\ k \in Nat /\ e <= Len(file) /\ k <= Len(packets)
  BY LaidToType
<1>2. k < Len(packets) /\ ~packets[k + 1].complete /\ e < Len(file) /\ file[e + 1] = 0
  BY DEF Stuck
<1>3. Len(file) \in Nat /\ Len(file') \in Nat /\ Len(file) <= Len(file')
      /\ Len(packets) \in Nat /\ Len(packets') \in Nat /\ base \in Nat
  BY DEF IInv, TypeOK, TablesInv, Safe
<1>4. \A n \in Nat : 0 < n /\ n <= e + 1 => file'[n] = file[n]
  <2> SUFFICES ASSUME NEW n \in Nat, 0 < n, n <= e + 1, file' # file PROVE file'[n] = file[n]
    OBVIOUS
  <2>1. n \in 1 .. Len(file) /\ ~(n > base)
    BY <1>1, <1>2, <1>3
  <2> QED
    BY <2>1 DEF Safe
<1>5. Same(file, file', 0, e)
  <2> SUFFICES ASSUME NEW n \in Nat, 0 < n, n <= e PROVE file'[n] = file[n]
    BY Zenon DEF Same
  <2>1. n <= e + 1
    BY <1>1
  <2> QED
    BY <1>4, <2>1
<1>6. LaidTo(file', packets', e, k)
  BY <1>3, <1>5, SameLaidTo
<1>7. Stuck(file', packets', e, k)
  <2>1. k < Len(packets') /\ e < Len(file') /\ k + 1 \in 1 .. Len(packets)
    BY <1>1, <1>2, <1>3
  <2>2. packets'[k + 1] = packets[k + 1]
    BY <2>1
  <2>3. file'[e + 1] = file[e + 1]
    <3>1. e + 1 \in Nat /\ 0 < e + 1 /\ e + 1 <= e + 1
      BY <1>1
    <3> QED
      BY <1>4, <3>1
  <2> QED
    BY <1>2, <2>1, <2>2, <2>3, Zenon DEF Stuck
<1>8. pc' \in Writing => e < base'
  BY <1>2, Zenon
<1> QED
  BY <1>6, <1>7, <1>8, Zenon DEF FileInv

\* What is known of a step that keeps the invariant of the places
Kept1 == IInv /\ IInv' /\ TablesInv /\ TablesInv' /\ FileInv /\ Safe

\* The program runs, or the loader does.
LEMMA SameFileInv ==
  ASSUME Kept1, UNCHANGED <<file, packets, broken>>, pc \in {"idle", "run"}, pc' \in {"idle", "run"}
  PROVE  FileInv'
<1> SUFFICES ASSUME ~broken PROVE FileInv'
  BY Zenon DEF FileInv
<1>1. PICK e, k :
        /\ LaidTo(file, packets, e, k)
        /\ Clean(e, k) \/ (Stuck(file, packets, e, k) /\ (pc \in Writing => e < base))
  BY Zenon DEF Kept1, FileInv
<1>2. LaidTo(file', packets', e, k)
  BY <1>1, Zenon
<1>3. pc' \notin Writing /\ pc' # "args" /\ pc' # "function" /\ pc' # "entries"
  BY DEF Writing
<1>4. CASE Clean(e, k)
  <2>1. k = Len(packets') /\ e = Len(file')
    BY <1>4, Zenon DEF Clean
  <2>2. Clean(e, k)'
    BY <1>3, <2>1, Zenon DEF Clean
  <2> QED
    BY <1>2, <2>2, Zenon DEF FileInv
<1>5. CASE Stuck(file, packets, e, k)
  <2>1. Stuck(file', packets', e, k)
    BY <1>5, Zenon
  <2> QED
    BY <1>2, <1>3, <2>1, Zenon DEF FileInv
<1> QED
  BY <1>1, <1>4, <1>5

LEMMA ExitFileInv ==
  ASSUME Kept1, Exit
  PROVE  FileInv'
<1>0. /\ pc = "run" /\ pc' = "args" /\ arg' = 1 /\ base' = Len(file)
      /\ file' = file /\ packets' = packets /\ broken' = broken
  BY DEF Exit, history
<1> SUFFICES ASSUME ~broken PROVE FileInv'
  BY <1>0, Zenon DEF FileInv
<1>1. PICK e, k :
        /\ LaidTo(file, packets, e, k)
        /\ Clean(e, k) \/ (Stuck(file, packets, e, k) /\ (pc \in Writing => e < base))
  BY Zenon DEF Kept1, FileInv
<1>2. LaidTo(file', packets', e, k)
  BY <1>0, <1>1, Zenon
<1>3. CASE Clean(e, k)
  <2>1. k = Len(packets') /\ e = Len(file)
    BY <1>0, <1>3, Zenon DEF Clean
  <2>2. Len(file) \in Nat
    BY DEF Kept1, IInv, TypeOK
  <2>3. InArgs(file', base', arg', e)
    <3>1. e = base' /\ Len(file') = e + arg' - 1 /\ ~(arg' > 1) /\ ~(arg' > 2)
      BY <1>0, <2>1, <2>2
    <3> QED
      BY <3>1, Zenon DEF InArgs
  <2>4. pc' \notin {"idle", "run"} /\ pc' # "function" /\ pc' # "entries"
    BY <1>0
  <2>5. Clean(e, k)'
    BY <2>1, <2>3, <2>4, Zenon DEF Clean
  <2> QED
    BY <1>2, <2>5, Zenon DEF FileInv
<1>4. CASE Stuck(file, packets, e, k)
  <2>1. Stuck(file', packets', e, k) /\ e < base'
    BY <1>0, <1>4, Zenon DEF Stuck
  <2> QED
    BY <1>2, <2>1, Zenon DEF FileInv
<1> QED
  BY <1>1, <1>3, <1>4

LEMMA PacketsSame ==
  ASSUME Kept1, packets' = packets
  PROVE  /\ Len(packets) \in Nat /\ Len(packets') \in Nat /\ Len(packets) <= Len(packets')
         /\ \A r \in 1 .. Len(packets) : packets'[r] = packets[r]
<1>1. packets \in Seq(PacketSet)
  BY DEF Kept1, TablesInv
<1>2. Len(packets) \in Nat
  BY <1>1
<1> QED
  BY <1>2

\* A step of the handler that adds no packet, behind what was left unfinished
LEMMA StuckHandler ==
  ASSUME Kept1, NEW e, NEW k, LaidTo(file, packets, e, k), Stuck(file, packets, e, k),
         pc \in Writing, e < base, base' = base, packets' = packets
  PROVE  FileInv'
<1>1. IInv /\ TablesInv /\ TablesInv' /\ Safe /\ file' \in Seq(Word)
  BY DEF Kept1, IInv, TypeOK
<1>2. Len(packets) <= Len(packets') /\ \A r \in 1 .. Len(packets) : packets'[r] = packets[r]
  BY PacketsSame
<1> QED
  BY <1>1, <1>2, StuckStays

\* Words that are added at the end of the file leave the items.
LEMMA LaidStays ==
  ASSUME Kept1, NEW e, NEW k, LaidTo(file, packets, e, k), packets' = packets,
         NEW p \in Nat, e <= p, NEW w \in Seq(Word), file' = WriteAt(file, p, w)
  PROVE  LaidTo(file', packets', e, k)
<1>1. e \in Nat /\ e <= Len(file)
  BY LaidToType
<1>2. file \in Seq(Word) /\ Len(file) \in Nat /\ Len(file') \in Nat /\ Len(file) <= Len(file')
  <2>1. file \in Seq(Word) /\ file' \in Seq(Word) /\ Len(file) <= Len(file')
    BY DEF Kept1, IInv, TypeOK, Safe
  <2> QED
    BY <2>1
<1>3. Same(file, file', 0, e)
  <2> SUFFICES ASSUME NEW n \in Nat, 0 < n, n <= e PROVE file'[n] = file[n]
    BY Zenon DEF Same
  <2>1. n \in 1 .. Len(file) /\ n \notin p + 1 .. p + Len(w)
    BY <1>1, <1>2
  <2> QED
    BY <1>2, <2>1, WriteKeeps
<1> QED
  BY <1>2, <1>3, PacketsSame, SameLaidTo

\* The first of the words behind the end
LEMMA AppendFirst ==
  ASSUME NEW f \in Seq(Word), NEW p \in Nat, p = Len(f), NEW w \in Seq(Word), NEW f2, f2 = WriteAt(f, p, w),
         Len(w) # 0, NEW n, n = p + 1
  PROVE  f2[n] = w[1]
<1>1. PICK L \in Nat : L = Len(w) /\ L # 0
  OBVIOUS
<1>2. PICK N : N = p + L
  OBVIOUS
<1>3. (IF p + Len(w) > Len(f) THEN p + Len(w) ELSE Len(f)) = N
  BY <1>1, <1>2
<1>4. f2 = [i \in 1 .. N |-> IF i \in p + 1 .. p + L THEN w[i - p] ELSE IF i <= Len(f) THEN f[i] ELSE 0]
  BY <1>1, <1>3, Zenon DEF WriteAt
<1>5. n \in 1 .. N /\ n \in p + 1 .. p + L /\ n - p = 1
  BY <1>1, <1>2
<1> QED
  BY <1>4, <1>5

-----------------------------------------------------------------------------
(* The steps of the handler *)

\* What a step of the handler finds in the file, when nothing was left unfinished
\* before
Found(e, k) == LaidTo(file, packets, e, k) /\ Clean(e, k)

\* It is enough to look at the steps that find a file without an unfinished packet.
LEMMA HandlerFileInv ==
  ASSUME Kept1, pc \in Writing, base' = base, packets' = packets, broken' = broken,
         \A e, k : ~broken /\ Found(e, k) => FileInv'
  PROVE  FileInv'
<1> SUFFICES ASSUME ~broken PROVE FileInv'
  BY Zenon DEF FileInv
<1>1. PICK e, k :
        /\ LaidTo(file, packets, e, k)
        /\ Clean(e, k) \/ (Stuck(file, packets, e, k) /\ (pc \in Writing => e < base))
  BY Zenon DEF Kept1, FileInv
<1>2. CASE Clean(e, k)
  BY <1>1, <1>2, Zenon DEF Found
<1>3. CASE Stuck(file, packets, e, k) /\ e < base
  BY <1>1, <1>3, StuckHandler
<1> QED
  BY <1>1, <1>2, <1>3

\* The words of the arguments
LEMMA WriteArgsFileInv ==
  ASSUME Kept1, WriteArgs
  PROVE  FileInv'
<1>0. /\ pc = "args" /\ file' = WriteAt(file, pos, ArgsWrites[arg])
      /\ base' = base /\ packets' = packets /\ broken' = broken
  BY DEF WriteArgs, history
<1> SUFFICES ASSUME NEW e, NEW k, ~broken, LaidTo(file, packets, e, k), Clean(e, k) PROVE FileInv'
  <2>1. pc \in Writing
    BY <1>0 DEF Writing
  <2>2. \A e, k : ~broken /\ Found(e, k) => FileInv'
    BY Zenon DEF Found
  <2> QED
    BY <1>0, <2>1, <2>2, HandlerFileInv
<1>1. k = Len(packets) /\ InArgs(file, base, arg, e)
  BY <1>0, Zenon DEF Clean
<1>2. /\ e = base /\ Len(file) = e + arg - 1
      /\ arg > 1 => file[e + 1] = ArgumentInfo
      /\ arg > 2 => file[e + 2] = ArgBytes
  BY <1>1, Zenon DEF InArgs
<1>3. PICK w : w = ArgsWrites[arg]
  OBVIOUS
<1>4. w \in Seq(Word) /\ Len(ArgsWrites) = 3 /\ (arg = 3 => w = ArgData)
  BY <1>3, ArgsType DEF Kept1, IInv
<1>5. file \in Seq(Word) /\ pos \in Nat /\ arg \in {1, 2, 3} /\ pos = Len(file)
  BY <1>0, <1>4 DEF Kept1, IInv, TypeOK, PlacesInv
<1>6. e \in Nat /\ k \in Nat
  BY LaidToType
<1>7. pos = e + arg - 1 /\ e <= pos
  BY <1>2, <1>5, <1>6
<1>8. PICK f2 : f2 = file' /\ f2 = WriteAt(file, pos, w)
  BY <1>0, <1>3
<1>9. PICK L : L = Len(w)
  OBVIOUS
<1>a. L \in Nat /\ Len(f2) = pos + L /\ \A n \in 1 .. pos : f2[n] = file[n]
  <2>1. file \in Seq(Word) /\ pos \in Nat /\ pos = Len(file) /\ w \in Seq(Word) /\ f2 = WriteAt(file, pos, w)
    BY <1>4, <1>5, <1>8
  <2>2. Len(f2) = pos + L
    <3>1. Len(f2) = IF pos + Len(w) > Len(file) THEN pos + Len(w) ELSE Len(file)
      BY <2>1, WriteType
    <3>2. Len(f2) = IF pos + L > pos THEN pos + L ELSE pos
      BY <1>9, <2>1, <3>1, Zenon
    <3>3. L \in Nat /\ pos \in Nat
      BY <1>9, <2>1
    <3> QED
      BY <3>2, <3>3
  <2>3. ASSUME NEW n \in 1 .. pos
        PROVE  f2[n] = file[n]
    <3>1. n \in 1 .. Len(file) /\ n \notin pos + 1 .. pos + Len(w)
      BY <2>1
    <3> QED
      BY <2>1, <3>1, WriteKeeps
  <2>4. L \in Nat
    BY <2>1, <1>9
  <2> QED
    BY <2>2, <2>3, <2>4
<1>b. PICK n : n = pos + 1
  OBVIOUS
<1>c. L # 0 => f2[n] = w[1]
  <2> SUFFICES ASSUME L # 0 PROVE f2[n] = w[1]
    OBVIOUS
  <2>1. Len(w) # 0 /\ file \in Seq(Word) /\ pos \in Nat /\ pos = Len(file) /\ w \in Seq(Word)
        /\ f2 = WriteAt(file, pos, w)
    BY <1>4, <1>5, <1>8, <1>9
  <2> QED
    BY <1>b, <2>1, AppendFirst
<1>10. LaidTo(file', packets', e, k)
  BY <1>0, <1>4, <1>5, <1>7, <1>8, LaidStays
<1>11. CASE arg = 1
  <2>1. w = <<ArgumentInfo>> /\ pos = e
    BY <1>3, <1>6, <1>7, <1>11 DEF ArgsWrites
  <2>2. L = 1 /\ w[1] = ArgumentInfo
    BY <1>9, <2>1
  <2>3. pc' = "args" /\ arg' = 2
    BY <1>0, <1>4, <1>11 DEF WriteArgs
  <2>4. Len(f2) = e + 2 - 1 /\ f2[e + 1] = ArgumentInfo /\ ~(2 > 2)
    <3>1. L # 0 /\ n = e + 1 /\ Len(f2) = e + 2 - 1 /\ ~(2 > 2)
      BY <1>6, <1>a, <1>b, <2>1, <2>2
    <3> QED
      BY <1>c, <2>2, <3>1, Zenon
  <2>5. InArgs(file', base', arg', e)
    BY <1>0, <1>2, <1>8, <2>3, <2>4, Zenon DEF InArgs
  <2>6. Clean(e, k)'
    BY <1>0, <1>1, <2>3, <2>5 DEF Clean
  <2> QED
    BY <1>10, <2>6, Zenon DEF FileInv
<1>12. CASE arg = 2
  <2>1. w = <<ArgBytes>> /\ pos = e + 1
    BY <1>3, <1>6, <1>7, <1>12 DEF ArgsWrites
  <2>2. L = 1 /\ w[1] = ArgBytes
    BY <1>9, <2>1
  <2>3. pc' = "args" /\ arg' = 3
    BY <1>0, <1>4, <1>12 DEF WriteArgs
  <2>4. Len(f2) = e + 3 - 1 /\ n = e + 2 /\ e + 1 \in 1 .. pos
    BY <1>6, <1>a, <1>b, <2>1, <2>2
  <2>5. f2[e + 1] = ArgumentInfo /\ f2[e + 2] = ArgBytes
    <3>1. L # 0 /\ arg > 1
      BY <1>12, <2>2
    <3> QED
      BY <1>2, <1>a, <1>c, <2>2, <2>4, <3>1, Zenon
  <2>6. InArgs(file', base', arg', e)
    BY <1>0, <1>2, <1>8, <2>3, <2>4, <2>5, Zenon DEF InArgs
  <2>7. Clean(e, k)'
    BY <1>0, <1>1, <2>3, <2>6 DEF Clean
  <2> QED
    BY <1>10, <2>7, Zenon DEF FileInv
<1>13. CASE arg = 3
  <2>1. w = ArgData /\ pos = e + 2
    BY <1>4, <1>6, <1>7, <1>13
  <2>2. PICK q : q = pos + Len(ArgData)
    OBVIOUS
  <2>3. q \in Nat /\ e <= q
    <3>1. Len(ArgData) \in Nat
      BY ArgumentsAssumption
    <3> QED
      BY <1>6, <2>1, <2>2, <3>1
  <2>4. header' = q /\ pos' = q + 2 /\ pc' = "function" /\ fn' = 1 /\ functions' = 0
    BY <1>4, <1>13, <2>2 DEF WriteArgs
  <2>5. f2[e + 1] = ArgumentInfo /\ f2[e + 2] = ArgBytes
    <3>1. e + 1 \in 1 .. pos /\ e + 2 \in 1 .. pos /\ arg > 1 /\ arg > 2
      BY <1>6, <1>13, <2>1
    <3> QED
      BY <1>2, <1>a, <3>1, Zenon
  <2>6. ArgsAt(f2, e, q)
    BY <2>1, <2>2, <2>5, Zenon DEF ArgsAt
  <2>7. Len(f2) = q
    BY <1>9, <1>a, <2>1, <2>2, Zenon
  <2>8. LaidTo(f2, packets', q, k)
    <3>1. LaidTo(f2, packets', e, k) /\ Item(f2, packets', e, q, k, k)
      BY <1>8, <1>10, <2>6, Zenon DEF Item
    <3>2. k <= k /\ q <= Len(f2) /\ Len(f2) \in Nat
      BY <1>6, <2>3, <2>7
    <3>3. Len(packets') \in Nat /\ k <= Len(packets')
      BY <1>0, <1>1, <1>6
    <3> QED
      BY <1>6, <2>3, <3>1, <3>2, <3>3, LaidMore
  <2>9. InFunction(file', header', pos', table', functions', fn', q)
    <3>1. Begun(file', q, q + 2, table', 0, 1)
      BY <2>3, NoneBegun
    <3>2. q = header'
      BY <2>4
    <3> QED
      BY <2>4, <3>1, <3>2, Zenon DEF InFunction
  <2>10. Clean(q, k)'
    BY <1>0, <1>1, <2>4, <2>9 DEF Clean
  <2> QED
    BY <1>8, <2>8, <2>10, Zenon DEF FileInv
<1> QED
  BY <1>5, <1>11, <1>12, <1>13

\* Executed is Exec of the table.
LEMMA ExecutedIs == \A f : Executed(f) = Exec(table, f)
  BY DEF Executed, Exec

LEMMA SkipFunctionFileInv ==
  ASSUME Kept1, SkipFunction
  PROVE  FileInv'
<1>0. /\ pc = "function" /\ pc' = "function" /\ fn \in Functions /\ Executed(fn) = {} /\ fn' = fn + 1
      /\ file' = file /\ table' = table /\ pos' = pos /\ functions' = functions /\ header' = header
      /\ base' = base /\ packets' = packets /\ broken' = broken
  BY DEF SkipFunction, NextFunction, history, placeVars, progVars
<1> SUFFICES ASSUME NEW e, NEW k, ~broken, LaidTo(file, packets, e, k), Clean(e, k) PROVE FileInv'
  <2>1. pc \in Writing
    BY <1>0 DEF Writing
  <2>2. \A e, k : ~broken /\ Found(e, k) => FileInv'
    BY Zenon DEF Found
  <2> QED
    BY <1>0, <2>1, <2>2, HandlerFileInv
<1>1. k = Len(packets) /\ InFunction(file, header, pos, table, functions, fn, e)
  BY <1>0, Zenon DEF Clean
<1>2. e = header /\ Begun(file, header, pos, table, functions, fn) /\ (functions # 0 => pos <= Len(file))
  BY <1>1, Zenon DEF InFunction
<1>3. Exec(table, fn) = {}
  BY <1>0, ExecutedIs, Zenon
<1>4. Begun(file, header, pos, table, functions, fn + 1)
  BY <1>0, <1>2, <1>3, SkipBegun
<1>5. InFunction(file', header', pos', table', functions', fn', e)
  BY <1>0, <1>2, <1>4, Zenon DEF InFunction
<1>6. Clean(e, k)'
  BY <1>0, <1>1, <1>5 DEF Clean
<1> QED
  BY <1>0, <1>6, Zenon DEF FileInv

LEMMA BeginFunctionFileInv ==
  ASSUME Kept1, BeginFunction
  PROVE  FileInv'
<1>0. /\ pc = "function" /\ pc' = "entries" /\ fn \in Functions /\ Executed(fn) # {} /\ fn' = fn
      /\ todo' = Executed(fn) /\ functions' = functions + 1 /\ pos' = pos + 2
      /\ table' = table /\ header' = header
      /\ base' = base /\ packets' = packets /\ broken' = broken
      /\ Storage[fn] = "array" => fnHeader' = pos /\ file' = file
      /\ Storage[fn] # "array" => file' = WriteAt(file, pos, FunctionHeader) /\ fnHeader' = fnHeader
  BY DEF BeginFunction, history, progVars
<1> SUFFICES ASSUME NEW e, NEW k, ~broken, LaidTo(file, packets, e, k), Clean(e, k) PROVE FileInv'
  <2>1. pc \in Writing
    BY <1>0 DEF Writing
  <2>2. \A e, k : ~broken /\ Found(e, k) => FileInv'
    BY Zenon DEF Found
  <2> QED
    BY <1>0, <2>1, <2>2, HandlerFileInv
<1>1. k = Len(packets) /\ InFunction(file, header, pos, table, functions, fn, e)
  BY <1>0, Zenon DEF Clean
<1>2. e = header /\ Begun(file, header, pos, table, functions, fn) /\ (functions # 0 => pos <= Len(file))
  BY <1>1, Zenon DEF InFunction
<1>3. /\ file \in Seq(Word) /\ pos \in Nat /\ header \in Nat /\ functions \in Nat
      /\ header + 2 <= pos /\ Len(file) <= pos
  <2>1. file \in Seq(Word) /\ pos \in Nat /\ header \in Nat /\ functions \in 0 .. fn /\ fn \in Functions
    BY <1>0 DEF Kept1, IInv, TypeOK
  <2>2. functions \in Nat
    BY <2>1
  <2>3. header + 2 <= pos /\ Len(file) <= pos
    BY <1>0 DEF Kept1, IInv, PlacesInv
  <2> QED
    BY <2>1, <2>2, <2>3
<1>4. Exec(table, fn) # {} /\ todo' = Exec(table, fn)
  BY <1>0, ExecutedIs, Zenon
<1>5. CASE Storage[fn] = "array"
  <2>1. Open(file, pos, pos + 2, table, fn, << >>, Exec(table, fn), pos)
    BY <1>0, <1>3, <1>4, <1>5, OpenArray
  <2>2. Open(file', pos, pos', table', fn', << >>, todo', fnHeader')
    BY <1>0, <1>4, <1>5, <2>1, Zenon
  <2>3. Begun(file', header', pos, table', functions, fn') /\ (functions # 0 => pos <= Len(file'))
    BY <1>0, <1>2, <1>5, Zenon
  <2>4. InEntries(file', header', pos', table', functions', fn', todo', fnHeader', e)
    BY <1>0, <1>2, <1>3, <2>2, <2>3, Zenon DEF InEntries
  <2>5. Clean(e, k)'
    BY <1>0, <1>1, <2>4 DEF Clean
  <2>6. LaidTo(file', packets', e, k)
    BY <1>0, <1>5, Zenon
  <2> QED
    BY <2>5, <2>6, Zenon DEF FileInv
<1>6. CASE Storage[fn] # "array"
  <2>1. FunctionHeader \in Seq(Word) /\ Len(FunctionHeader) = 2
    BY <1>0, FunctionHeaderType DEF Kept1, IInv
  <2>2. PICK w : w = FunctionHeader /\ w = <<fn, Cardinality(Exec(table, fn))>>
    BY ExecutedIs, Zenon DEF FunctionHeader
  <2>3. w \in Seq(Word) /\ Len(w) = 2 /\ file' = WriteAt(file, pos, w)
    BY <1>0, <1>6, <2>1, <2>2, Zenon
  <2>4. Open(WriteAt(file, pos, <<fn, Cardinality(Exec(table, fn))>>), pos, pos + 2, table, fn, << >>,
             Exec(table, fn), fnHeader)
    <3>1. Len(file) <= pos + 2
      <4>1. Len(file) \in Nat
        BY <1>3
      <4> QED
        BY <1>3, <4>1
    <3>2. <<fn, Cardinality(Exec(table, fn))>> \in Seq(Word)
      BY <2>2, <2>3, Zenon
    <3> QED
      BY <1>0, <1>3, <1>4, <1>6, <3>1, <3>2, OpenHash
  <2>5. Open(file', pos, pos', table', fn', << >>, todo', fnHeader')
    BY <1>0, <1>4, <1>6, <2>2, <2>3, <2>4, Zenon
  <2>6. PICK f2 : f2 = file'
    OBVIOUS
  <2>7. Same(file, f2, header + 2, pos)
    <3>1. PICK a \in Nat : a = header + 2
      BY <1>3
    <3>2. pos <= a \/ pos <= Len(file)
      <4>1. functions = 0 => pos = header + 2
        BY <1>2, BegunType
      <4>2. CASE functions = 0
        BY <1>3, <3>1, <4>1, <4>2
      <4>3. CASE functions # 0
        BY <1>2, <4>3
      <4> QED
        BY <4>2, <4>3
    <3>3. pos <= pos
      BY <1>3
    <3>4. f2 = WriteAt(file, pos, w)
      BY <2>3, <2>6
    <3>5. Same(file, f2, a, pos)
      BY <1>3, <2>3, <3>2, <3>3, <3>4, WriteSame
    <3> QED
      BY <3>1, <3>5, Zenon
  <2>8. Begun(f2, header, pos, table, functions, fn)
    BY <1>2, <1>3, <2>7, SameBegun
  <2>9. functions # 0 => pos <= Len(f2)
    <3> SUFFICES ASSUME functions # 0 PROVE pos <= Len(f2)
      OBVIOUS
    <3>1. Len(f2) = IF pos + 2 > Len(file) THEN pos + 2 ELSE Len(file)
      BY <1>3, <2>3, <2>6, WriteTwo
    <3>2. Len(file) \in Nat
      BY <1>3
    <3> QED
      BY <1>3, <3>1, <3>2
  <2>10. Begun(file', header', pos, table', functions, fn') /\ (functions # 0 => pos <= Len(file'))
    BY <1>0, <2>6, <2>8, <2>9, Zenon
  <2>11. InEntries(file', header', pos', table', functions', fn', todo', fnHeader', e)
    BY <1>0, <1>2, <1>3, <2>5, <2>10, Zenon DEF InEntries
  <2>12. Clean(e, k)'
    BY <1>0, <1>1, <2>11 DEF Clean
  <2>13. e \in Nat /\ e <= pos
    BY <1>2, <1>3
  <2>14. LaidTo(file', packets', e, k)
    BY <1>0, <1>3, <2>3, <2>13, LaidStays
  <2> QED
    BY <2>12, <2>14, Zenon DEF FileInv
<1> QED
  BY <1>5, <1>6

\* A write that starts behind a function leaves what stands in front of it.
LEMMA BegunStays ==
  ASSUME NEW f \in Seq(Word), NEW f2, NEW s \in Nat, NEW w \in Seq(Word), Len(w) = 2, f2 = WriteAt(f, s, w),
         NEW h \in Nat, NEW p, NEW tab, NEW c, NEW g, Begun(f, h, p, tab, c, g),
         c # 0 => p <= Len(f), h + 2 <= p, p <= s
  PROVE  Begun(f2, h, p, tab, c, g)
<1>1. c \in Nat /\ p \in Nat /\ (c = 0 => p = h + 2)
  BY BegunType
<1>2. PICK a \in Nat : a = h + 2
  OBVIOUS
<1>3. p <= a \/ p <= Len(f)
  BY <1>1, <1>2
<1>4. Same(f, f2, a, p)
  BY <1>1, <1>2, <1>3, WriteSame
<1>5. Same(f, f2, h + 2, p)
  BY <1>2, <1>4, Zenon
<1> QED
  BY <1>1, <1>5, SameBegun

\* What a step finds while the entries of a function are written
LEMMA EntriesFound ==
  ASSUME IInv, ~broken, pc = "entries", NEW e, NEW k, Clean(e, k)
  PROVE  /\ k = Len(packets) /\ e = header /\ file \in Seq(Word) /\ pos \in Nat /\ header \in Nat
         /\ Len(file) <= pos
         /\ \E c, p, l : \E L \in Nat :
              /\ functions = c + 1 /\ Begun(file, header, p, table, c, fn) /\ (c # 0 => p <= Len(file))
              /\ Open(file, p, pos, table, fn, l, todo, fnHeader)
              /\ p \in Nat /\ L = Len(l) /\ pos = p + 2 + 2 * L /\ header + 2 <= p /\ p <= pos
<1>1. k = Len(packets) /\ InEntries(file, header, pos, table, functions, fn, todo, fnHeader, e)
  BY Zenon DEF Clean
<1>2. PICK c, p, l :
        /\ functions = c + 1 /\ Begun(file, header, p, table, c, fn) /\ header + 2 <= p
        /\ (c # 0 => p <= Len(file)) /\ Open(file, p, pos, table, fn, l, todo, fnHeader)
  BY <1>1, Zenon DEF InEntries
<1>3. file \in Seq(Word) /\ pos \in Nat /\ header \in Nat /\ Len(file) <= pos
  BY DEF IInv, TypeOK, PlacesInv
<1>4. IsList(l, Exec(table, fn) \ todo) /\ pos = p + 2 + 2 * Len(l)
  BY <1>2, Zenon DEF Open
<1>5. PICK L \in Nat : L = Len(l)
  BY <1>4, ListLen
<1>6. p \in Nat
  BY <1>2, BegunType
<1>7. pos = p + 2 + 2 * L
  BY <1>4, <1>5, Zenon
<1>8. p <= pos
  BY <1>6, <1>7
<1>9. e = header
  BY <1>1, Zenon DEF InEntries
<1> QED
  BY <1>1, <1>2, <1>3, <1>5, <1>6, <1>7, <1>8, <1>9, Zenon

LEMMA WriteEntryFileInv ==
  ASSUME Kept1, NEW n \in todo, WriteEntry(n)
  PROVE  FileInv'
<1>0. /\ pc = "entries" /\ pc' = "entries" /\ fn' = fn /\ todo' = todo \ {n}
      /\ functions' = functions /\ pos' = pos + 2 /\ table' = table /\ header' = header
      /\ fnHeader' = fnHeader /\ base' = base /\ packets' = packets /\ broken' = broken
      /\ file' = WriteAt(file, pos, <<n, table[fn][n]>>)
  BY DEF WriteEntry, history, progVars, placeVars
<1> SUFFICES ASSUME NEW e, NEW k, ~broken, LaidTo(file, packets, e, k), Clean(e, k) PROVE FileInv'
  <2>1. pc \in Writing
    BY <1>0 DEF Writing
  <2>2. \A e, k : ~broken /\ Found(e, k) => FileInv'
    BY Zenon DEF Found
  <2> QED
    BY <1>0, <2>1, <2>2, HandlerFileInv
<1>i. IInv
  BY DEF Kept1
<1>1. /\ k = Len(packets) /\ e = header /\ file \in Seq(Word) /\ pos \in Nat /\ header \in Nat
      /\ Len(file) <= pos
      /\ \E c, p, l : \E L \in Nat :
           /\ functions = c + 1 /\ Begun(file, header, p, table, c, fn) /\ (c # 0 => p <= Len(file))
           /\ Open(file, p, pos, table, fn, l, todo, fnHeader)
           /\ p \in Nat /\ L = Len(l) /\ pos = p + 2 + 2 * L /\ header + 2 <= p /\ p <= pos
  BY <1>0, <1>i, EntriesFound
<1>2. PICK c, p, l :
        /\ functions = c + 1 /\ Begun(file, header, p, table, c, fn) /\ (c # 0 => p <= Len(file))
        /\ Open(file, p, pos, table, fn, l, todo, fnHeader)
        /\ p \in Nat /\ header + 2 <= p /\ p <= pos
  BY <1>1, Zenon
<1>3. <<n, table[fn][n]>> \in Seq(Word) /\ Len(<<n, table[fn][n]>>) = 2
  BY <1>0, EntryType DEF Kept1, IInv
<1>4. PICK w : w = <<n, table[fn][n]>>
  OBVIOUS
<1>5. w \in Seq(Word) /\ Len(w) = 2 /\ file' = WriteAt(file, pos, w)
  BY <1>0, <1>3, <1>4, Zenon
<1>6. Open(WriteAt(file, pos, <<n, table[fn][n]>>), p, pos + 2, table, fn, Append(l, n), todo \ {n}, fnHeader)
  BY <1>1, <1>2, <1>3, EntryWritten
<1>7. PICK m : m = Append(l, n)
  OBVIOUS
<1>8. Open(file', p, pos', table', fn', m, todo', fnHeader')
  BY <1>0, <1>6, <1>7, Zenon
<1>9. PICK f2 : f2 = file'
  OBVIOUS
<1>10. Begun(f2, header, p, table, c, fn) /\ (c # 0 => p <= Len(f2))
  <2>1. PICK f, s, h : f = file /\ s = pos /\ h = header
    OBVIOUS
  <2>2. /\ f \in Seq(Word) /\ s \in Nat /\ w \in Seq(Word) /\ Len(w) = 2 /\ f2 = WriteAt(f, s, w)
        /\ h \in Nat /\ h + 2 <= p /\ p <= s /\ Begun(f, h, p, table, c, fn) /\ (c # 0 => p <= Len(f))
    BY <1>1, <1>2, <1>5, <1>9, <2>1, Zenon
  <2>3. Begun(f2, h, p, table, c, fn)
    BY <2>2, BegunStays
  <2>4. p <= Len(f2)
    <3>1. Len(f2) = IF s + 2 > Len(f) THEN s + 2 ELSE Len(f)
      BY <2>2, WriteTwo
    <3>2. Len(f) \in Nat /\ p \in Nat
      BY <1>2, <2>2
    <3> QED
      BY <2>2, <3>1, <3>2
  <2> QED
    BY <2>1, <2>3, <2>4, Zenon
<1>11. Begun(file', header', p, table', c, fn') /\ (c # 0 => p <= Len(file')) /\ header' + 2 <= p
       /\ functions' = c + 1
  BY <1>0, <1>2, <1>9, <1>10, Zenon
<1>12. InEntries(file', header', pos', table', functions', fn', todo', fnHeader', e)
  BY <1>0, <1>1, <1>8, <1>11, Zenon DEF InEntries
<1>13. Clean(e, k)'
  BY <1>0, <1>1, <1>12 DEF Clean
<1>14. e <= pos
  BY <1>1, <1>2
<1>15. LaidTo(file', packets', e, k)
  BY <1>0, <1>1, <1>5, <1>14, LaidStays
<1> QED
  BY <1>13, <1>15, Zenon DEF FileInv

LEMMA EndFunctionFileInv ==
  ASSUME Kept1, EndFunction
  PROVE  FileInv'
<1>0. /\ pc = "entries" /\ pc' = "function" /\ todo = {} /\ fn' = fn + 1
      /\ functions' = functions /\ pos' = pos /\ table' = table /\ header' = header
      /\ base' = base /\ packets' = packets /\ broken' = broken
      /\ Storage[fn] = "array" => file' = WriteAt(file, fnHeader, FunctionHeader)
      /\ Storage[fn] # "array" => file' = file
  BY DEF EndFunction, NextFunction, AfterHeader, history, progVars, placeVars
<1> SUFFICES ASSUME NEW e, NEW k, ~broken, LaidTo(file, packets, e, k), Clean(e, k) PROVE FileInv'
  <2>1. pc \in Writing
    BY <1>0 DEF Writing
  <2>2. \A e, k : ~broken /\ Found(e, k) => FileInv'
    BY Zenon DEF Found
  <2> QED
    BY <1>0, <2>1, <2>2, HandlerFileInv
<1>i. IInv
  BY DEF Kept1
<1>1. /\ k = Len(packets) /\ e = header /\ file \in Seq(Word) /\ pos \in Nat /\ header \in Nat
      /\ Len(file) <= pos
      /\ \E c, p, l : \E L \in Nat :
           /\ functions = c + 1 /\ Begun(file, header, p, table, c, fn) /\ (c # 0 => p <= Len(file))
           /\ Open(file, p, pos, table, fn, l, todo, fnHeader)
           /\ p \in Nat /\ L = Len(l) /\ pos = p + 2 + 2 * L /\ header + 2 <= p /\ p <= pos
  BY <1>0, <1>i, EntriesFound
<1>2. PICK c, p, l : \E L \in Nat :
        /\ functions = c + 1 /\ Begun(file, header, p, table, c, fn) /\ (c # 0 => p <= Len(file))
        /\ Open(file, p, pos, table, fn, l, todo, fnHeader)
        /\ p \in Nat /\ L = Len(l) /\ pos = p + 2 + 2 * L /\ header + 2 <= p /\ p <= pos
  BY <1>1, Zenon
<1>3. PICK L \in Nat :
        /\ functions = c + 1 /\ Begun(file, header, p, table, c, fn) /\ (c # 0 => p <= Len(file))
        /\ Open(file, p, pos, table, fn, l, todo, fnHeader)
        /\ p \in Nat /\ L = Len(l) /\ pos = p + 2 + 2 * L /\ header + 2 <= p /\ p <= pos
  BY <1>2, Zenon
<1>4. PICK E : E = Exec(table, fn)
  OBVIOUS
<1>5. /\ fn \in Functions /\ E # {} /\ IsList(l, E \ todo) /\ EntriesAt(file, p, fn, l, table)
      /\ Storage[fn] = "array" => fnHeader = p /\ (Len(l) # 0 => Len(file) = pos)
      /\ Storage[fn] # "array" => file[p + 1] = fn /\ file[p + 2] = Cardinality(E) /\ Len(file) = pos
  BY <1>3, <1>4, Zenon DEF Open
<1>6. IsList(l, E)
  <2>1. E \ todo = E
    BY <1>0
  <2> QED
    BY <1>5, <2>1, Zenon
<1>7. Cardinality(E) = L
  BY <1>3, <1>6, ListSize
<1>8. L # 0
  <2> SUFFICES ASSUME L = 0 PROVE FALSE
    OBVIOUS
  <2>1. \A n \in E : \E j \in 1 .. L : l[j] = n
    BY <1>3, <1>6, Zenon DEF IsList
  <2> QED
    BY <1>5, <2>1
<1>9. PICK f2 : f2 = file'
  OBVIOUS
<1>10. /\ Begun(f2, header, p, table, c, fn) /\ FuncAt(f2, p, pos, fn, l, table) /\ Len(f2) = pos
       /\ LaidTo(file', packets', e, k)
  <2>1. CASE Storage[fn] = "array"
    <3>1. fnHeader = p /\ Len(file) = pos
      BY <1>3, <1>5, <1>8, <2>1
    <3>2. FunctionHeader \in Seq(Word) /\ Len(FunctionHeader) = 2
      BY <1>5, <1>i, FunctionHeaderType DEF IInv
    <3>3. PICK w : w = FunctionHeader
      OBVIOUS
    <3>4. Pair(w, fn, L)
      <4>1. w = <<fn, Cardinality(Executed(fn))>>
        BY <3>3, Zenon DEF FunctionHeader
      <4>2. Cardinality(Executed(fn)) = L
        BY <1>4, <1>7, ExecutedIs, Zenon
      <4> QED
        BY <4>1, <4>2, Zenon DEF Pair
    <3>5. w \in Seq(Word) /\ Len(w) = 2 /\ file' = WriteAt(file, p, w) /\ f2 = WriteAt(file, p, w)
      BY <1>0, <1>9, <2>1, <3>1, <3>2, <3>3, Zenon
    <3>6. PairAt(f2, p, fn, L)
      BY <1>1, <1>3, <3>4, <3>5, TwoWritten
    <3>7. PICK a, L2 : a = p + 2 /\ L2 = Len(file)
      OBVIOUS
    <3>8. a \in Nat /\ L2 = pos /\ pos <= L2 /\ p + 2 <= a
      BY <1>1, <1>3, <3>1, <3>7
    <3>9. Same(file, f2, p + 2, pos)
      <4>1. pos <= Len(file)
        BY <3>7, <3>8
      <4>2. Same(file, f2, a, pos)
        BY <1>1, <1>3, <3>5, <3>8, <4>1, WriteSame
      <4> QED
        BY <3>7, <4>2, Zenon
    <3>10. EntriesAt(f2, p, fn, l, table)
      BY <1>1, <1>3, <1>5, <3>9, SameEntries
    <3>11. FuncAt(f2, p, pos, fn, l, table)
      <4>1. f2[p + 1] = fn /\ f2[p + 2] = Len(l) /\ pos = p + 2 + 2 * Len(l)
        BY <1>3, <3>6, Zenon DEF PairAt
      <4> QED
        BY <1>3, <3>10, <4>1, Zenon DEF FuncAt
    <3>12. Begun(f2, header, p, table, c, fn)
      <4>1. p <= p
        BY <1>3
      <4> QED
        BY <1>1, <1>3, <3>5, <4>1, BegunStays
    <3>13. Len(f2) = pos
      <4>1. Len(f2) = IF p + 2 > Len(file) THEN p + 2 ELSE Len(file)
        BY <1>1, <1>3, <3>5, WriteTwo
      <4>2. ~(p + 2 > pos)
        BY <1>3
      <4> QED
        BY <3>1, <4>1, <4>2, Zenon
    <3>14. e <= p
      BY <1>1, <1>3
    <3>15. LaidTo(file', packets', e, k)
      BY <1>0, <1>3, <3>5, <3>14, LaidStays
    <3> QED
      BY <3>11, <3>12, <3>13, <3>15
  <2>2. CASE Storage[fn] # "array"
    <3>1. file[p + 1] = fn /\ file[p + 2] = Len(l) /\ pos = p + 2 + 2 * Len(l) /\ Len(file) = pos
      BY <1>3, <1>5, <1>7, <2>2, Zenon
    <3>2. FuncAt(file, p, pos, fn, l, table)
      BY <1>3, <1>5, <3>1, Zenon DEF FuncAt
    <3>3. f2 = file
      BY <1>0, <1>9, <2>2
    <3>4. Begun(f2, header, p, table, c, fn) /\ FuncAt(f2, p, pos, fn, l, table) /\ Len(f2) = pos
      BY <1>3, <3>1, <3>2, <3>3, Zenon
    <3>5. LaidTo(file', packets', e, k)
      BY <1>0, <2>2, Zenon
    <3> QED
      BY <3>4, <3>5
  <2> QED
    BY <2>1, <2>2
<1>11. Begun(f2, header, pos, table, c + 1, fn + 1)
  BY <1>1, <1>3, <1>4, <1>5, <1>6, <1>10, FunctionClosed
<1>12. Begun(file', header', pos', table', functions', fn')
  BY <1>0, <1>3, <1>9, <1>11, Zenon
<1>13. pos' <= Len(file')
  BY <1>0, <1>1, <1>9, <1>10
<1>14. InFunction(file', header', pos', table', functions', fn', e)
  BY <1>0, <1>1, <1>12, <1>13, Zenon DEF InFunction
<1>15. Clean(e, k)'
  BY <1>0, <1>1, <1>14 DEF Clean
<1> QED
  BY <1>10, <1>15, Zenon DEF FileInv

LEMMA WriteFailsFileInv ==
  ASSUME WriteFails
  PROVE  FileInv'
<1>1. broken' = TRUE
  BY DEF WriteFails
<1> QED
  BY <1>1, Zenon DEF FileInv

\* A run ends behind what was left unfinished before.
LEMMA StuckEnds ==
  ASSUME Kept1, NEW e, NEW k, LaidTo(file, packets, e, k), Stuck(file, packets, e, k),
         pc \in Writing => e < base, file' = file \/ pc \in Writing, pc' = "idle",
         Len(packets) <= Len(packets'), \A r \in 1 .. Len(packets) : packets'[r] = packets[r]
  PROVE  FileInv'
<1>1. IInv /\ TablesInv /\ TablesInv' /\ file' \in Seq(Word) /\ Safe
  BY DEF Kept1, IInv, TypeOK
<1>2. pc' \notin Writing
  BY DEF Writing
<1> QED
  BY <1>1, <1>2, StuckStays

\* The packet that is added to the history
LEMMA PacketAdded ==
  ASSUME Kept1, NEW d \in BOOLEAN, packets' = Append(packets, Packet(d))
  PROVE  /\ Len(packets) \in Nat /\ Len(packets') = Len(packets) + 1 /\ Len(packets) <= Len(packets')
         /\ packets'[Len(packets) + 1].complete = d /\ packets'[Len(packets) + 1].table = table
         /\ \A r \in 1 .. Len(packets) : packets'[r] = packets[r]
<1>1. /\ packets' \in Seq(PacketSet) /\ Len(packets') = Len(packets) + 1
      /\ packets'[Len(packets) + 1] = Packet(d) /\ \A r \in 1 .. Len(packets) : packets'[r] = packets[r]
  BY PacketsGrow DEF Kept1
<1>2. Len(packets) \in Nat
  <2>1. packets \in Seq(PacketSet)
    BY DEF Kept1, TablesInv
  <2> HIDE DEF PacketSet
  <2> QED
    BY <2>1
<1>3. Packet(d).complete = d /\ Packet(d).table = table
  BY DEF Packet
<1>4. Len(packets) <= Len(packets')
  BY <1>1, <1>2
<1> QED
  BY <1>1, <1>2, <1>3, <1>4, Zenon

LEMMA FinishFileInv ==
  ASSUME Kept1, Finish
  PROVE  FileInv'
<1>0. /\ pc = "function" /\ pc' = "idle" /\ fn \notin Functions
      /\ file' = WriteAt(file, header, <<PathInfo, functions>>)
      /\ packets' = Append(packets, Packet(TRUE)) /\ broken' = broken
  BY DEF Finish
<1> SUFFICES ASSUME ~broken PROVE FileInv'
  BY <1>0, Zenon DEF FileInv
<1>1. PICK e, k :
        /\ LaidTo(file, packets, e, k)
        /\ Clean(e, k) \/ (Stuck(file, packets, e, k) /\ (pc \in Writing => e < base))
  BY Zenon DEF Kept1, FileInv
<1>2. /\ Len(packets) \in Nat /\ Len(packets') = Len(packets) + 1 /\ Len(packets) <= Len(packets')
      /\ packets'[Len(packets) + 1].complete = TRUE /\ packets'[Len(packets) + 1].table = table
      /\ \A r \in 1 .. Len(packets) : packets'[r] = packets[r]
  BY <1>0, PacketAdded
<1>3. CASE Stuck(file, packets, e, k) /\ (pc \in Writing => e < base)
  <2>1. pc \in Writing
    BY <1>0 DEF Writing
  <2> QED
    BY <1>0, <1>1, <1>2, <1>3, <2>1, StuckEnds
<1>4. CASE Clean(e, k)
  <2>1. k = Len(packets) /\ InFunction(file, header, pos, table, functions, fn, e)
    BY <1>0, <1>4, Zenon DEF Clean
  <2>2. e = header /\ Begun(file, header, pos, table, functions, fn) /\ (functions # 0 => pos <= Len(file))
    BY <2>1, Zenon DEF InFunction
  <2>3. file \in Seq(Word) /\ pos \in Nat /\ header \in Nat /\ fn = Len(Storage) + 1
    <3>1. file \in Seq(Word) /\ pos \in Nat /\ header \in Nat /\ fn \in 1 .. Len(Storage) + 1
      BY DEF Kept1, IInv, TypeOK
    <3>2. fn = Len(Storage) + 1
      <4>1. PICK N \in Nat : N = Len(Storage) /\ Functions = 1 .. N
        BY TypeOfBounds
      <4> QED
        BY <1>0, <3>1, <4>1
    <3> QED
      BY <3>1, <3>2
  <2>4. header + 2 <= pos /\ Len(file) <= pos
    BY <1>0 DEF Kept1, IInv, PlacesInv
  <2>5. <<PathInfo, functions>> \in Seq(Word) /\ Len(<<PathInfo, functions>>) = 2
    BY <1>0, HeaderType DEF Kept1, IInv
  <2>6. PICK w, f2 : w = <<PathInfo, functions>> /\ f2 = file'
    OBVIOUS
  <2>7. /\ w \in Seq(Word) /\ Len(w) = 2 /\ Pair(w, PathInfo, functions)
        /\ f2 = WriteAt(file, header, w) /\ file' = WriteAt(file, header, w)
    BY <1>0, <2>5, <2>6, Zenon DEF Pair
  <2>8. Begun(file, header, pos, table, functions, Len(Storage) + 1)
    BY <2>2, <2>3, Zenon
  <2>9. PathAt(f2, header, pos, table) /\ Len(f2) = pos
    BY <2>2, <2>3, <2>4, <2>7, <2>8, PathClosed
  <2>10. e \in Nat /\ k \in Nat /\ e <= Len(file)
    BY <1>1, LaidToType
  <2>11. Same(file, f2, 0, e)
    <3>1. PICK z \in Nat : z = 0
      OBVIOUS
    <3>2. e <= Len(file) /\ e <= header
      BY <2>2, <2>3, <2>10
    <3>3. Same(file, f2, z, e)
      BY <2>3, <2>7, <2>10, <3>2, WriteSame
    <3> QED
      BY <3>1, <3>3, Zenon
  <2>12. LaidTo(f2, packets', e, k)
    <3>1. Len(file) \in Nat /\ Len(f2) \in Nat /\ Len(file) <= Len(f2)
      BY <2>3, <2>4, <2>9
    <3>2. Len(packets') \in Nat
      BY <1>2
    <3> QED
      BY <1>1, <1>2, <2>11, <3>1, <3>2, SameLaidTo
  <2>13. PICK m : m = Len(packets) + 1
    OBVIOUS
  <2>14. /\ m \in Nat /\ m = k + 1 /\ k <= m /\ m <= Len(packets') /\ Len(packets') \in Nat
         /\ e <= pos /\ pos <= Len(f2) /\ Len(f2) \in Nat
    BY <1>2, <2>1, <2>2, <2>3, <2>4, <2>9, <2>10, <2>13
  <2>15. Item(f2, packets', e, pos, k, m) /\ packets'[m].complete
    BY <1>2, <2>2, <2>9, <2>13, <2>14, Zenon DEF Item
  <2>16. LaidTo(f2, packets', pos, m)
    BY <2>3, <2>12, <2>14, <2>15, LaidMore
  <2>17. m = Len(packets') /\ pos = Len(file')
    BY <1>2, <2>6, <2>9, <2>13
  <2>18. Clean(pos, m)'
    <3>1. m = Len(packets') /\ Len(file') = pos /\ pos' = pos
      BY <2>17 DEF Finish
    <3> QED
      BY <1>0, <3>1 DEF Clean
  <2>19. pos' = pos
    BY DEF Finish
  <2> QED
    BY <2>6, <2>16, <2>18, <2>19, Zenon DEF FileInv
<1> QED
  BY <1>1, <1>3, <1>4

\* A run dies.
LEMMA KillFileInv ==
  ASSUME Kept1, Kill
  PROVE  FileInv'
<1>0. /\ pc # "idle" /\ pc' = "idle" /\ file' = file
      /\ packets' = IF pc \in {"function", "entries"} /\ Len(file) > header
                    THEN Append(packets, Packet(FALSE)) ELSE packets
      /\ broken' = (broken \/ (pc = "args" /\ Len(file) > base))
  BY DEF Kill
<1> SUFFICES ASSUME ~broken' PROVE FileInv'
  BY Zenon DEF FileInv
<1>b. ~broken /\ ~(pc = "args" /\ Len(file) > base)
  BY <1>0
<1>1. PICK e, k :
        /\ LaidTo(file, packets, e, k)
        /\ Clean(e, k) \/ (Stuck(file, packets, e, k) /\ (pc \in Writing => e < base))
  BY <1>b, Zenon DEF Kept1, FileInv
<1>2. e \in Nat /\ k \in Nat /\ e <= Len(file)
  BY <1>1, LaidToType
<1>3. Len(packets) <= Len(packets') /\ \A r \in 1 .. Len(packets) : packets'[r] = packets[r]
  <2>1. CASE packets' = packets
    BY <2>1, PacketsSame
  <2>2. CASE packets' = Append(packets, Packet(FALSE))
    BY <2>2, PacketAdded
  <2> QED
    BY <1>0, <2>1, <2>2
<1>4. CASE Stuck(file, packets, e, k) /\ (pc \in Writing => e < base)
  BY <1>0, <1>1, <1>3, <1>4, StuckEnds
<1>5. CASE Clean(e, k) /\ pc \in {"function", "entries"} /\ Len(file) > header
  <2>1. packets' = Append(packets, Packet(FALSE))
    BY <1>0, <1>5
  <2>2. /\ Len(packets) \in Nat /\ Len(packets') = Len(packets) + 1
        /\ packets'[Len(packets) + 1].complete = FALSE
    BY <2>1, PacketAdded
  <2>3. k = Len(packets) /\ e = header
    BY <1>5, Zenon DEF Clean, InFunction, InEntries
  <2>4. Hole(header)
    BY <1>5, <1>b DEF Kept1, IInv, PlacesInv
  <2>5. file[e + 1] = 0 /\ e < Len(file)
    <3>1. Len(file) \in Nat
      BY DEF Kept1, IInv, TypeOK
    <3>2. e + 1 <= Len(file) /\ e < Len(file)
      BY <1>2, <1>5, <2>3, <3>1
    <3>3. e + 1 \in {header + 1, header + 2}
      BY <2>3
    <3> QED
      BY <2>4, <3>2, <3>3 DEF Hole
  <2>6. Stuck(file', packets', e, k)
    <3>1. k < Len(packets') /\ ~packets'[k + 1].complete
      BY <1>2, <2>2, <2>3
    <3> QED
      BY <1>0, <2>5, <3>1, Zenon DEF Stuck
  <2>7. LaidTo(file', packets', e, k)
    <3>1. Len(file) \in Nat /\ Len(file') \in Nat /\ Len(file) <= Len(file')
      BY <1>0 DEF Kept1, IInv, TypeOK
    <3>2. Same(file, file', 0, e)
      BY <1>0, Zenon DEF Same
    <3>3. Len(packets') \in Nat
      BY <2>2
    <3> QED
      BY <1>1, <1>3, <2>2, <3>1, <3>2, <3>3, SameLaidTo
  <2>8. pc' \notin Writing
    BY <1>0 DEF Writing
  <2> QED
    BY <2>6, <2>7, <2>8, Zenon DEF FileInv
<1>6. CASE Clean(e, k) /\ ~(pc \in {"function", "entries"} /\ Len(file) > header)
  <2>1. packets' = packets
    BY <1>0, <1>6
  <2>2. k = Len(packets)
    BY <1>6, Zenon DEF Clean
  <2>3. /\ pc \in {"run", "args", "function", "entries"} /\ Len(file) \in Nat
        /\ base \in Nat /\ header \in Nat
    BY <1>0 DEF Kept1, IInv, TypeOK
  <2>4. e = Len(file)
    <3>1. CASE pc = "run"
      BY <1>6, <3>1 DEF Clean
    <3>2. CASE pc = "args"
      <4>1. e = base
        BY <1>6, <3>2, Zenon DEF Clean, InArgs
      <4> QED
        BY <1>2, <1>b, <2>3, <3>2, <4>1
    <3>3. CASE pc \in {"function", "entries"}
      <4>1. e = header
        BY <1>6, <3>3, Zenon DEF Clean, InFunction, InEntries
      <4> QED
        BY <1>2, <1>6, <2>3, <3>3, <4>1
    <3> QED
      BY <2>3, <3>1, <3>2, <3>3
  <2>5. Clean(e, k)'
    BY <1>0, <2>1, <2>2, <2>4 DEF Clean
  <2>6. LaidTo(file', packets', e, k)
    BY <1>0, <1>1, <2>1, Zenon
  <2> QED
    BY <2>5, <2>6, Zenon DEF FileInv
<1> QED
  BY <1>1, <1>4, <1>5, <1>6

\* No file: no items
LEMMA InitFileInv == Init => FileInv
<1> SUFFICES ASSUME Init PROVE FileInv
  OBVIOUS
<1>1. file = << >> /\ packets = << >> /\ pc = "idle"
  BY DEF Init
<1>2. PICK z : z = [n \in Nat |-> 0]
  OBVIOUS
<1>3. z \in [Nat -> Nat] /\ z[1] = 0 /\ z[0 + 1] = 0 /\ 0 \in Nat /\ 1 .. 0 = {} /\ 0 <= 0
      /\ Len(file) = 0 /\ Len(packets) = 0 /\ 1 .. z[0 + 1] = {}
  BY <1>1, <1>2
<1>4. Laid(file, packets, 0, z, z)
  BY <1>3, Zenon DEF Laid
<1>5. LaidTo(file, packets, 0, 0)
  BY <1>3, <1>4, Zenon DEF LaidTo
<1>6. Clean(0, 0)
  BY <1>1, <1>3 DEF Clean
<1> QED
  BY <1>5, <1>6, Zenon DEF FileInv

\* Every step leaves items in the file, and at most one unfinished packet behind them.
LEMMA FileStep == IInv /\ TablesInv /\ FileInv /\ [Next]_vars => FileInv'
<1> SUFFICES ASSUME IInv, TablesInv, FileInv, [Next]_vars PROVE FileInv'
  OBVIOUS
<1>1. Kept1
  BY StepInv, TablesStep DEF Kept1, IInv
<1>2. CASE Program
  <2>1. Start => FileInv'
    <3> SUFFICES ASSUME Start PROVE FileInv'
      OBVIOUS
    <3>1. UNCHANGED <<file, packets, broken>> /\ pc \in {"idle", "run"} /\ pc' \in {"idle", "run"}
      BY DEF Start, history
    <3> QED
      BY <1>1, <3>1, SameFileInv
  <2>2. ASSUME NEW f \in Functions, NEW n \in Paths[f], NEW k \in Times, Increment(f, n, k)
        PROVE  FileInv'
    <3>1. UNCHANGED <<file, packets, broken>> /\ pc \in {"idle", "run"} /\ pc' \in {"idle", "run"}
      BY <2>2 DEF Increment, history
    <3> QED
      BY <1>1, <3>1, SameFileInv
  <2> QED
    BY <1>1, <1>2, <2>1, <2>2, ExitFileInv DEF Program
<1>3. CASE Handler
  BY <1>1, <1>3, WriteArgsFileInv, SkipFunctionFileInv, BeginFunctionFileInv, WriteEntryFileInv,
     EndFunctionFileInv, FinishFileInv, Zenon DEF Handler
<1>4. CASE Load
  <2>1. UNCHANGED <<file, packets, broken, pc>> /\ pc = "idle"
    BY <1>4 DEF Load, LoaderOpen, history, IInv, TypeOK
  <2> QED
    BY <1>1, <2>1, SameFileInv
<1>5. CASE UNCHANGED vars
  <2>1. /\ file' = file /\ packets' = packets /\ broken' = broken /\ pc' = pc /\ base' = base
        /\ arg' = arg /\ header' = header /\ pos' = pos /\ table' = table /\ functions' = functions
        /\ fn' = fn /\ todo' = todo /\ fnHeader' = fnHeader
    BY <1>5 DEF vars, history, progVars, placeVars
  <2> QED
    BY <2>1, Zenon DEF FileInv, Clean
<1> QED
  BY <1>1, <1>2, <1>3, <1>4, <1>5, WriteFailsFileInv, KillFileInv, Zenon DEF Next

-----------------------------------------------------------------------------
(* The loader in the file *)

\* The loader is somewhere in the items, or behind the last of them that it reads.
AtItem(f, ps, s, a, lf, ld, tot) ==
  \E M, pl, nd :
    /\ Laid(f, ps, M, pl, nd)
    /\ s = "reading" => Ends(f, ps, M, pl, nd) /\ Where(f, a, lf, ld, tot, ps, M, pl, nd)
    /\ s # "reading" =>
         /\ Progress(ps, ld, tot, nd[M + 1], {})
         /\ \/ s = "done" /\ nd[M + 1] = Len(ps)
            \/ s = "failed" /\ Stuck(f, ps, pl[M + 1], nd[M + 1])

LoaderInv ==
  ~broken =>
    /\ lst = "idle" =>
         at = 0 /\ left = 0 /\ loaded = [k \in {} |-> 0] /\ totals = [f \in 0 .. Len(Storage) |-> 0]
    /\ lst # "idle" => AtItem(file, packets, lst, at, left, loaded, totals)

\* What the items are, at one of them
LEMMA LaidIs ==
  ASSUME NEW f, NEW ps, NEW M, NEW pl, NEW nd, Laid(f, ps, M, pl, nd), Len(f) \in Nat, Len(ps) \in Nat,
         NEW x \in 1 .. M
  PROVE  /\ x \in Nat /\ x + 1 \in 1 .. M + 1
         /\ pl[x] \in Nat /\ pl[x + 1] \in Nat /\ nd[x] \in Nat /\ nd[x + 1] \in Nat
         /\ pl[x + 1] <= Len(f) /\ nd[x + 1] <= Len(ps)
         /\ Item(f, ps, pl[x], pl[x + 1], nd[x], nd[x + 1])
<1>1. /\ M \in Nat /\ pl \in [Nat -> Nat] /\ nd \in [Nat -> Nat]
      /\ pl[M + 1] <= Len(f) /\ nd[M + 1] <= Len(ps)
      /\ pl[x + 1] <= pl[M + 1] /\ nd[x + 1] <= nd[M + 1]
      /\ Item(f, ps, pl[x], pl[x + 1], nd[x], nd[x + 1])
  BY Zenon DEF Laid
<1>m. M \in Nat
  BY <1>1
<1>2. x \in Nat /\ x + 1 \in Nat /\ M + 1 \in Nat /\ x + 1 \in 1 .. M + 1
  BY <1>m
<1>3. /\ pl[x] \in Nat /\ pl[x + 1] \in Nat /\ nd[x] \in Nat /\ nd[x + 1] \in Nat
      /\ pl[M + 1] \in Nat /\ nd[M + 1] \in Nat
  BY <1>1, <1>2
<1>4. pl[x + 1] <= Len(f) /\ nd[x + 1] <= Len(ps)
  <2>1. PICK a, b, c, d : a = pl[x + 1] /\ b = pl[M + 1] /\ c = nd[x + 1] /\ d = nd[M + 1]
    OBVIOUS
  <2>2. PICK F \in Nat, P \in Nat : F = Len(f) /\ P = Len(ps)
    OBVIOUS
  <2>3. a <= b /\ b <= F /\ c <= d /\ d <= P
    BY <1>1, <2>1, <2>2, Zenon
  <2>4. a \in Nat /\ b \in Nat /\ c \in Nat /\ d \in Nat
    BY <1>3, <2>1, Zenon
  <2>5. a <= F /\ c <= P
    BY <2>2, <2>3, <2>4
  <2> QED
    BY <2>1, <2>2, <2>5, Zenon
<1> QED
  BY <1>1, <1>2, <1>3, <1>4, Zenon

\* opt opens the file.
LEMMA OpenStep ==
  ASSUME FileInv, LoaderInv, ~broken, lst = "idle", Load
  PROVE  AtItem(file, packets, lst', at', left', loaded', totals')
<1>1. /\ pc = "idle" /\ lst' = "reading" /\ at' = at /\ left' = left /\ loaded' = loaded /\ totals' = totals
  BY DEF Load, LoaderOpen
<1>2. at = 0 /\ left = 0 /\ loaded = [k \in {} |-> 0] /\ totals = [f \in 0 .. Len(Storage) |-> 0]
  BY Zenon DEF LoaderInv
<1>3. PICK e, k : /\ LaidTo(file, packets, e, k)
                  /\ Clean(e, k) \/ Stuck(file, packets, e, k)
  BY Zenon DEF FileInv
<1>4. PICK M, pl, nd : Laid(file, packets, M, pl, nd) /\ pl[M + 1] = e /\ nd[M + 1] = k
  BY <1>3, Zenon DEF LaidTo
<1>5. Ends(file, packets, M, pl, nd)
  <2>1. CASE Clean(e, k)
    <3>1. k = Len(packets) /\ e = Len(file)
      BY <1>1, <2>1 DEF Clean
    <3> QED
      BY <1>4, <3>1, Zenon DEF Ends
  <2>2. CASE Stuck(file, packets, e, k)
    BY <1>4, <2>2, Zenon DEF Ends
  <2> QED
    BY <1>3, <2>1, <2>2
<1>6. M \in Nat /\ pl[1] = 0 /\ nd[1] = 0
  BY <1>4, Zenon DEF Laid
<1>7. 1 \in 1 .. M + 1
  BY <1>6
<1>8. Progress(packets, loaded, totals, 0, {})
  BY <1>2, NothingRead
<1>9. Where(file, at', left', loaded', totals', packets, M, pl, nd)
  BY <1>1, <1>2, <1>6, <1>7, <1>8, Zenon DEF Where
<1> QED
  BY <1>1, <1>4, <1>5, <1>9, Zenon DEF AtItem

\* It reads in front of an item.
LEMMA ItemStep ==
  ASSUME TypeOK, TablesInv, lst = "reading", Load, left = 0,
         NEW M, NEW pl, NEW nd, Laid(file, packets, M, pl, nd), Ends(file, packets, M, pl, nd),
         NEW x \in 1 .. M, at = pl[x], Progress(packets, loaded, totals, nd[x], {})
  PROVE  AtItem(file, packets, lst', at', left', loaded', totals')
<1>1. file \in Seq(Word) /\ Len(file) \in Nat /\ Len(packets) \in Nat
  <2>1. file \in Seq(Word) /\ packets \in Seq(PacketSet)
    BY DEF TypeOK, TablesInv
  <2> HIDE DEF PacketSet, Word
  <2> QED
    BY <2>1
<1>2. PICK p, q, k, m : p = pl[x] /\ q = pl[x + 1] /\ k = nd[x] /\ m = nd[x + 1]
  OBVIOUS
<1>3. /\ x \in Nat /\ x + 1 \in 1 .. M + 1
      /\ pl[x] \in Nat /\ pl[x + 1] \in Nat /\ nd[x] \in Nat /\ nd[x + 1] \in Nat
      /\ pl[x + 1] <= Len(file) /\ nd[x + 1] <= Len(packets)
      /\ Item(file, packets, pl[x], pl[x + 1], nd[x], nd[x + 1])
  BY <1>1, LaidIs
<1>4. /\ p \in Nat /\ q \in Nat /\ k \in Nat /\ m \in Nat /\ q <= Len(file)
      /\ Item(file, packets, p, q, k, m) /\ at = p /\ Progress(packets, loaded, totals, k, {})
  BY <1>2, <1>3, Zenon
<1>5. CASE m = k /\ ArgsAt(file, p, q)
  <2>1. at' = q /\ lst' = lst /\ left' = left /\ loaded' = loaded /\ totals' = totals
    <3>1. at' = q /\ UNCHANGED <<lst, left, loaded, totals>>
      BY <1>1, <1>4, <1>5, ArgumentsRead
    <3> QED
      BY <3>1
  <2>2. PICK y \in 1 .. M + 1 : y = x + 1
    BY <1>3
  <2>3. at' = pl[y] /\ Progress(packets, loaded', totals', nd[y], {}) /\ left' = 0
    BY <1>2, <1>4, <1>5, <2>1, <2>2, Zenon
  <2>4. Where(file, at', left', loaded', totals', packets, M, pl, nd)
    BY <2>3, Zenon DEF Where
  <2> QED
    BY <2>1, <2>4, Zenon DEF AtItem
<1>6. CASE m = k + 1 /\ PathAt(file, p, q, packets[m].table)
  <2>1. PathAt(file, p, q, packets[k + 1].table)
    BY <1>6, Zenon
  <2>2. /\ lst' = "reading"
        /\ \/ left' = 0 /\ at' = q /\ Progress(packets, loaded', totals', k + 1, {})
           \/ Inside(file, at', left', loaded', totals', packets, p, q, k)
    BY <1>1, <1>4, <2>1, HeaderRead
  <2>3. CASE left' = 0 /\ at' = q /\ Progress(packets, loaded', totals', k + 1, {})
    <3>1. PICK y \in 1 .. M + 1 : y = x + 1
      BY <1>3
    <3>2. at' = pl[y] /\ Progress(packets, loaded', totals', nd[y], {}) /\ left' = 0
      BY <1>2, <1>6, <2>3, <3>1, Zenon
    <3>3. Where(file, at', left', loaded', totals', packets, M, pl, nd)
      BY <3>2, Zenon DEF Where
    <3> QED
      BY <2>2, <3>3, Zenon DEF AtItem
  <2>4. CASE Inside(file, at', left', loaded', totals', packets, p, q, k)
    <3>1. Where(file, at', left', loaded', totals', packets, M, pl, nd)
      BY <1>2, <1>6, <2>4, Zenon DEF Where
    <3> QED
      BY <2>2, <3>1, Zenon DEF AtItem
  <2> QED
    BY <2>2, <2>3, <2>4
<1> QED
  BY <1>4, <1>5, <1>6, Zenon DEF Item

\* It reads inside a packet.
LEMMA InsideStep ==
  ASSUME TypeOK, TablesInv, lst = "reading", Load,
         NEW M, NEW pl, NEW nd, Laid(file, packets, M, pl, nd), Ends(file, packets, M, pl, nd),
         NEW x \in 1 .. M, nd[x + 1] = nd[x] + 1,
         Inside(file, at, left, loaded, totals, packets, pl[x], pl[x + 1], nd[x])
  PROVE  AtItem(file, packets, lst', at', left', loaded', totals')
<1>1. file \in Seq(Word) /\ Len(file) \in Nat /\ Len(packets) \in Nat /\ packets \in Seq(PacketSet)
  <2>1. file \in Seq(Word) /\ packets \in Seq(PacketSet)
    BY DEF TypeOK, TablesInv
  <2> HIDE DEF PacketSet, Word
  <2> QED
    BY <2>1
<1>2. PICK p, q, k, m : p = pl[x] /\ q = pl[x + 1] /\ k = nd[x] /\ m = nd[x + 1]
  OBVIOUS
<1>3. /\ x \in Nat /\ x + 1 \in 1 .. M + 1
      /\ pl[x] \in Nat /\ pl[x + 1] \in Nat /\ nd[x] \in Nat /\ nd[x + 1] \in Nat
      /\ pl[x + 1] <= Len(file) /\ nd[x + 1] <= Len(packets)
      /\ Item(file, packets, pl[x], pl[x + 1], nd[x], nd[x + 1])
  BY <1>1, LaidIs
<1>4. /\ p \in Nat /\ q \in Nat /\ k \in Nat /\ m = k + 1 /\ q <= Len(file) /\ m <= Len(packets)
      /\ Inside(file, at, left, loaded, totals, packets, p, q, k)
  BY <1>2, <1>3, Zenon
<1>5. packets[k + 1].table \in Tables
  <2>1. k + 1 \in 1 .. Len(packets)
    BY <1>1, <1>4
  <2>2. packets[k + 1] \in PacketSet
    <3> HIDE DEF PacketSet
    <3> QED
      BY <1>1, <2>1
  <2> QED
    BY <2>2 DEF PacketSet
<1>6. /\ lst' = "reading"
      /\ \/ left' = 0 /\ at' = q /\ Progress(packets, loaded', totals', k + 1, {})
         \/ Inside(file, at', left', loaded', totals', packets, p, q, k)
  BY <1>1, <1>4, <1>5, InsideRead
<1>7. CASE left' = 0 /\ at' = q /\ Progress(packets, loaded', totals', k + 1, {})
  <2>1. PICK y \in 1 .. M + 1 : y = x + 1
    BY <1>3
  <2>2. at' = pl[y] /\ Progress(packets, loaded', totals', nd[y], {}) /\ left' = 0
    BY <1>2, <1>4, <1>7, <2>1, Zenon
  <2>3. Where(file, at', left', loaded', totals', packets, M, pl, nd)
    BY <2>2, Zenon DEF Where
  <2> QED
    BY <1>6, <2>3, Zenon DEF AtItem
<1>8. CASE Inside(file, at', left', loaded', totals', packets, p, q, k)
  <2>1. Where(file, at', left', loaded', totals', packets, M, pl, nd)
    BY <1>2, <1>8, Zenon DEF Where
  <2> QED
    BY <1>6, <2>1, Zenon DEF AtItem
<1> QED
  BY <1>6, <1>7, <1>8

\* It is behind the last item: at the end of the file, or at a hole.
LEMMA EndStep ==
  ASSUME TypeOK, TablesInv, lst = "reading", Load, left = 0,
         NEW M, NEW pl, NEW nd, Laid(file, packets, M, pl, nd), Ends(file, packets, M, pl, nd),
         at = pl[M + 1], Progress(packets, loaded, totals, nd[M + 1], {})
  PROVE  AtItem(file, packets, lst', at', left', loaded', totals')
<1>1. Len(file) \in Nat /\ at \in Nat
  BY DEF TypeOK
<1>2. LoaderEnd \/ ReadArguments \/ ReadPathInfo \/ BadSyntax \/ ReadFunction \/ BadFunction
  BY DEF Load, LoaderOpen
<1>3. ~ReadFunction /\ ~BadFunction
  BY DEF ReadFunction, BadFunction
<1>4. CASE nd[M + 1] = Len(packets) /\ pl[M + 1] = Len(file)
  <2>1. Rest = 0
    BY <1>1, <1>4 DEF Rest
  <2>2. ~ReadArguments /\ ~ReadPathInfo /\ ~BadSyntax
    BY <2>1 DEF ReadArguments, ReadPathInfo, BadSyntax
  <2>3. lst' = "done" /\ loaded' = loaded /\ totals' = totals
    BY <1>2, <1>3, <2>2 DEF LoaderEnd
  <2>4. lst' # "reading"
    BY <2>3
  <2> QED
    BY <1>4, <2>3, <2>4, Zenon DEF AtItem
<1>5. CASE Stuck(file, packets, pl[M + 1], nd[M + 1])
  <2>1. at < Len(file) /\ file[at + 1] = 0
    BY <1>5, Zenon DEF Stuck
  <2>2. Rest >= 1 /\ Rest # 0
    BY <1>1, <2>1 DEF Rest
  <2>3. file[at + 1] \notin {ArgumentInfo, PathInfo}
    BY <2>1 DEF ArgumentInfo, PathInfo
  <2>4. ~ReadArguments /\ ~ReadPathInfo /\ ~LoaderEnd
    BY <2>2, <2>3 DEF ReadArguments, ReadPathInfo, LoaderEnd
  <2>5. lst' = "failed" /\ loaded' = loaded /\ totals' = totals
    BY <1>2, <1>3, <2>4 DEF BadSyntax
  <2>6. lst' # "reading"
    BY <2>5
  <2> QED
    BY <1>5, <2>5, <2>6, Zenon DEF AtItem
<1> QED
  BY <1>4, <1>5, Zenon DEF Ends

LEMMA LoaderStep == TypeOK /\ TablesInv /\ FileInv /\ LoaderInv /\ [Next]_vars => LoaderInv'
<1> SUFFICES ASSUME TypeOK, TablesInv, FileInv, LoaderInv, [Next]_vars PROVE LoaderInv'
  OBVIOUS
<1>1. CASE Load
  <2>1. file' = file /\ packets' = packets /\ broken' = broken /\ lst' # "idle"
    BY <1>1 DEF Load, history, LoaderOpen, LoaderEnd, ReadArguments, ReadPathInfo, BadSyntax, ReadFunction,
                BadFunction
  <2> SUFFICES ASSUME ~broken PROVE AtItem(file, packets, lst', at', left', loaded', totals')
    BY <2>1, Zenon DEF LoaderInv
  <2>2. lst = "idle" \/ lst = "reading"
    BY <1>1 DEF Load, LoaderOpen
  <2>3. CASE lst = "idle"
    BY <1>1, <2>3, OpenStep
  <2>4. CASE lst = "reading"
    <3>1. lst # "idle"
      BY <2>4
    <3>2. PICK M, pl, nd :
            /\ Laid(file, packets, M, pl, nd) /\ Ends(file, packets, M, pl, nd)
            /\ Where(file, at, left, loaded, totals, packets, M, pl, nd)
      BY <2>4, <3>1, Zenon DEF LoaderInv, AtItem
    <3>3. CASE \E x \in 1 .. M : /\ nd[x + 1] = nd[x] + 1
                                 /\ Inside(file, at, left, loaded, totals, packets, pl[x], pl[x + 1], nd[x])
      BY <1>1, <2>4, <3>2, <3>3, InsideStep
    <3>4. ASSUME left = 0, NEW x \in 1 .. M + 1, at = pl[x], Progress(packets, loaded, totals, nd[x], {})
          PROVE  AtItem(file, packets, lst', at', left', loaded', totals')
      <4>1. CASE x \in 1 .. M
        BY <1>1, <2>4, <3>2, <3>4, <4>1, ItemStep
      <4>2. CASE x \notin 1 .. M
        <5>1. M \in Nat
          BY <3>2, Zenon DEF Laid
        <5>2. x = M + 1
          BY <4>2, <5>1
        <5>3. at = pl[M + 1] /\ Progress(packets, loaded, totals, nd[M + 1], {})
          BY <3>4, <5>2, Zenon
        <5> QED
          BY <1>1, <2>4, <3>2, <3>4, <5>3, EndStep
      <4> QED
        BY <4>1, <4>2
    <3> QED
      BY <3>2, <3>3, <3>4, Zenon DEF Where
  <2> QED
    BY <2>2, <2>3, <2>4
<1>2. CASE lst = "idle" /\ ~Load
  <2>1. lst' = lst /\ at' = at /\ left' = left /\ loaded' = loaded /\ totals' = totals
    BY <1>2 DEF Next, Program, Start, Increment, Exit, Handler, WriteArgs, SkipFunction, BeginFunction,
                WriteEntry, EndFunction, Finish, WriteFails, Kill, vars, loadVars
  <2>2. broken' \/ ~broken
    BY <1>2 DEF Next, Program, Start, Increment, Exit, Handler, WriteArgs, SkipFunction, BeginFunction,
                WriteEntry, EndFunction, Finish, WriteFails, Kill, vars, history
  <2> QED
    BY <1>2, <2>1, <2>2, Zenon DEF LoaderInv
<1>3. CASE lst # "idle" /\ ~Load
  <2>1. pc = "idle"
    BY <1>3 DEF TypeOK
  <2>2. UNCHANGED vars
    BY <1>3, <2>1 DEF Next, Program, Start, Increment, Exit, Handler, WriteArgs, SkipFunction, BeginFunction,
                WriteEntry, EndFunction, Finish, WriteFails, Kill
  <2>3. /\ lst' = lst /\ at' = at /\ left' = left /\ loaded' = loaded /\ totals' = totals
        /\ file' = file /\ packets' = packets /\ broken' = broken
    BY <2>2 DEF vars, loadVars, history
  <2> QED
    BY <2>3, Zenon DEF LoaderInv
<1> QED
  BY <1>1, <1>2, <1>3

\* What the loader has when it stops
LEMMA LoaderResult == TypeOK /\ TablesInv /\ LoaderInv => LoadedLatest
<1> SUFFICES ASSUME TypeOK, TablesInv, LoaderInv, lst \in {"done", "failed"}, ~broken
             PROVE  /\ lst = "failed" <=> \E r \in DOMAIN packets : ~packets[r].complete
                    /\ loaded = [path \in {p \in UNION {{f} \X Paths[f] : f \in Functions} :
                                             \E r \in Readable : Ran(r, p) # 0} |-> LastCount(path)]
                    /\ \A f \in Functions : totals[f] = LastTotal(f)
  BY Zenon DEF LoadedLatest
<1>1. lst # "idle" /\ lst # "reading" /\ (lst = "done" => lst # "failed")
  OBVIOUS
<1>2. PICK M, pl, nd :
        /\ Laid(file, packets, M, pl, nd) /\ Progress(packets, loaded, totals, nd[M + 1], {})
        /\ \/ lst = "done" /\ nd[M + 1] = Len(packets)
           \/ lst = "failed" /\ Stuck(file, packets, pl[M + 1], nd[M + 1])
  BY <1>1, Zenon DEF LoaderInv, AtItem
<1>3. PICK k : k = nd[M + 1]
  OBVIOUS
<1>4. /\ M \in Nat /\ nd \in [Nat -> Nat] /\ k <= Len(packets) /\ \A r \in 1 .. k : packets[r].complete
  BY <1>2, <1>3, Zenon DEF Laid
<1>5. k \in Nat
  <2>1. M + 1 \in Nat
    BY <1>4
  <2> QED
    BY <1>3, <1>4, <2>1
<1>6. PICK N \in Nat : N = Len(packets) /\ DOMAIN packets = 1 .. N
  <2>1. packets \in Seq(PacketSet)
    BY DEF TablesInv
  <2> HIDE DEF PacketSet
  <2> QED
    BY <2>1
<1>7. \/ lst = "done" /\ k = N
      \/ lst = "failed" /\ k < N /\ ~packets[k + 1].complete
  BY <1>2, <1>3, <1>6, Zenon DEF Stuck
<1>8. lst = "failed" <=> \E r \in DOMAIN packets : ~packets[r].complete
  <2>1. CASE lst = "done" /\ k = N
    BY <1>1, <1>4, <1>6, <2>1, Zenon
  <2>2. CASE lst = "failed" /\ k < N /\ ~packets[k + 1].complete
    <3>1. k + 1 \in DOMAIN packets
      BY <1>5, <1>6, <2>2
    <3> QED
      BY <2>2, <3>1
  <2> QED
    BY <1>7, <2>1, <2>2
<1>9. Readable = 1 .. k
  <2>1. ASSUME NEW r \in Readable
        PROVE  r \in 1 .. k
    <3>1. r \in 1 .. N /\ \A m \in 1 .. r : packets[m].complete
      BY <1>6 DEF Readable
    <3>2. CASE r <= k
      BY <1>5, <3>1, <3>2
    <3>3. CASE ~(r <= k)
      <4>1. k + 1 \in 1 .. r /\ k < N
        BY <1>5, <3>1, <3>3
      <4>2. packets[k + 1].complete
        BY <3>1, <4>1
      <4>3. k # N
        BY <1>5, <4>1
      <4> QED
        BY <1>7, <4>2, <4>3
    <3> QED
      BY <3>2, <3>3
  <2>2. ASSUME NEW r \in 1 .. k
        PROVE  r \in Readable
    <3>1. r \in DOMAIN packets
      BY <1>4, <1>5, <1>6
    <3>2. \A m \in 1 .. r : m \in 1 .. k
      BY <1>5
    <3>3. \A m \in 1 .. r : packets[m].complete
      BY <1>4, <3>2
    <3> QED
      BY <3>1, <3>3 DEF Readable
  <2> QED
    BY <2>1, <2>2
<1>10. Progress(packets, loaded, totals, k, {})
  BY <1>2, <1>3, Zenon
<1> QED
  BY <1>5, <1>8, <1>9, <1>10, AllRead, Zenon

-----------------------------------------------------------------------------
(* Theorems *)

\* The places that the handler seeks back to are holes of its own packet, at
\* every moment, until a write() fails.
THEOREM InvariantHolds == Spec => []IInv
<1>1. IInv /\ [Next]_vars => IInv'
  BY StepInv
<1> QED
  BY InitInv, <1>1, PTL DEF Spec

\* Types: the handler counts no more functions than there are, and the loader
\* stays in the file whatever is in it.
THEOREM TypeCorrect == Spec => []TypeOK
<1>1. IInv => TypeOK
  BY DEF IInv
<1> QED
  BY InvariantHolds, <1>1, PTL

\* pathProfAtExitHandler and writeArrayTable seek back and fill in headers: no
\* word of an earlier run is ever changed by that, whatever fails, and no word of
\* the same run that was written, unless a write() failed.
THEOREM HolesFilledOnly == Spec => OwnHolesOnly
<1>1. IInv /\ [Next]_vars =>
        [/\ Len(file) <= Len(file')
         /\ \A n \in 1 .. Len(file) :
              file'[n] # file[n] => n > base /\ (~broken' => file[n] = 0)]_vars
  BY StepInv DEF Safe
<1> QED
  BY InvariantHolds, <1>1, PTL DEF Spec, OwnHolesOnly

\* A run may die anywhere but in its arguments: the loader takes the count of every
\* path from the last packet in which it was run, in front of the first unfinished
\* one, and stops with an error exactly if there is an unfinished one.
THEOREM LatestLoaded == Spec => []LoadedLatest
<1>1. Init => LoaderInv
  BY DEF Init, LoaderInv
<1>2. IInv /\ TablesInv /\ FileInv /\ LoaderInv /\ [Next]_vars
        => IInv' /\ TablesInv' /\ FileInv' /\ LoaderInv'
  BY StepInv, TablesStep, FileStep, LoaderStep DEF IInv
<1>3. IInv /\ TablesInv /\ FileInv /\ LoaderInv => LoadedLatest
  BY LoaderResult DEF IInv
<1> QED
  BY InitInv, TablesInit, InitFileInv, <1>1, <1>2, <1>3, PTL DEF Spec
=============================================================================
