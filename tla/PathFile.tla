------------------------------ MODULE PathFile ------------------------------
(***************************************************************************)
(* The path profile in the profile file. pathProfAtExitHandler leaves room *)
(* for a header, writes the functions behind it, and goes back to fill in  *)
(* the header; writeArrayTable does the same for each function whose paths *)
(* are counted in an array. PathProfileLoaderPass reads the file.          *)
(*                                                                         *)
(* Runs of the program come one after the other. The file is a sequence of *)
(* words up to WordMax; a word that was skipped and not written yet reads  *)
(* as 0. A step is one write() with the seeks before it. Path numbers are  *)
(* those of PathProfiling; in which order a hash table is written depends  *)
(* on its bins: any order here. Left out: llvm_decrement_path_count, which *)
(* is called only with early termination; failing open() and overlapping   *)
(* runs, which ProfileFile has.                                            *)
(***************************************************************************)
EXTENDS Integers, Sequences, FiniteSets, FiniteSetsExt

CONSTANTS Storage,   \* Storage[f], "array" or "hash": the table of function f
          Paths,     \* Paths[f], its path numbers
          Times,     \* how often a path may be run in a row
          ArgData,   \* the arguments of the program, as words
          ArgBytes,  \* their length in bytes
          WordMax,   \* the largest word (code: 0xffffffff)
          Faults,    \* "kill": runs may die, "writefail": write() may fail
          MaxRuns,   \* bound: runs
          MaxSteps   \* bound: paths run one after the other in a run

Functions == 1 .. Len(Storage)
Word == 0 .. WordMax

\* enum ProfilingType
ArgumentInfo == 1
PathInfo == 5

ASSUME WordAssumption == WordMax \in Nat /\ WordMax >= PathInfo
ASSUME TablesAssumption ==
  /\ Storage \in Seq({"array", "hash"}) /\ Len(Storage) <= WordMax
  /\ Times \subseteq Nat \ {0}
  /\ \A f \in Functions :
       Paths[f] \subseteq Word /\ IsFiniteSet(Paths[f]) /\ Cardinality(Paths[f]) <= WordMax
ASSUME ArgumentsAssumption ==
  ArgBytes \in Word \ {0} /\ ArgData \in Seq(Word) /\ Len(ArgData) = (ArgBytes + 3) \div 4

VARIABLES
  file,      \* the words of the file
  pc,        \* "idle", or where the run is: "run", "args", "function", "entries"
  runs,      \* runs so far
  steps,     \* steps of the run
  table,     \* table[f][n]: how often path n of f was run, 0 for no entry
  arg,       \* the next write of getOutFile
  pos,       \* the position in the file
  fn,        \* i + 1, the function that is written
  todo,      \* its paths that are still to be written
  header,    \* headerLocation
  fnHeader,  \* arrayHeaderLocation
  functions, \* header[1]
  base,      \* history: the length of the file when the run opened it
  packets,   \* history: the packets in the file, complete or not
  broken,    \* history: a write() failed, or a run died in its arguments
  lst,       \* the loader: "idle", "reading", "done", "failed" or "undefined"
  at,        \* its position
  left,      \* functions left in the packet
  loaded,    \* _functionPaths
  totals     \* _functionPathCounts

progVars == <<runs, steps, table>>
placeVars == <<header, fnHeader, base>>
history  == <<packets, broken>>
loadVars == <<lst, at, left, loaded, totals>>
vars == <<file, pc, progVars, arg, pos, fn, todo, functions, placeVars, history, loadVars>>

NoPaths == [f \in Functions |-> [n \in Paths[f] |-> 0]]

Init ==
  /\ file = <<>> /\ pc = "idle" /\ runs = 0 /\ steps = 0 /\ table = NoPaths
  /\ arg = 1 /\ pos = 0 /\ fn = 1 /\ todo = {} /\ functions = 0
  /\ header = 0 /\ fnHeader = 0 /\ base = 0
  /\ packets = <<>> /\ broken = FALSE
  /\ lst = "idle" /\ at = 0 /\ left = 0
  /\ loaded = [k \in {} |-> 0] /\ totals = [f \in 0 .. Len(Storage) |-> 0]

-----------------------------------------------------------------------------
(* The program *)

Start ==
  /\ pc = "idle" /\ lst = "idle" /\ runs < MaxRuns
  /\ pc' = "run" /\ runs' = runs + 1 /\ steps' = 0 /\ table' = NoPaths
  /\ UNCHANGED <<file, arg, pos, fn, todo, functions, placeVars, history, loadVars>>

Bug_Added(count, k) == count + k

\* A counter stays at its largest value.
Added(count, k) == IF count + k < WordMax THEN count + k ELSE WordMax

\* llvm_increment_path_count, or the code for an entry of an array, k times
Increment(f, n, k) ==
  /\ pc = "run" /\ steps < MaxSteps
  /\ table' = [table EXCEPT ![f][n] = Added(table[f][n], k)]
  /\ steps' = steps + 1
  /\ UNCHANGED <<file, pc, runs, arg, pos, fn, todo, functions, placeVars, history, loadVars>>

Bug_EndOfFile == 0

EndOfFile == Len(file)

\* exit(), or the return from main: pathProfAtExitHandler, and open() in getOutFile
Exit ==
  /\ pc = "run" /\ pc' = "args" /\ arg' = 1
  /\ base' = Len(file) /\ pos' = EndOfFile
  /\ UNCHANGED <<file, progVars, fn, todo, functions, header, fnHeader, history, loadVars>>

-----------------------------------------------------------------------------
(* The handler *)

\* write(): file f with words put behind place p; what was skipped reads as 0.
WriteAt(f, p, words) ==
  [n \in 1 .. IF p + Len(words) > Len(f) THEN p + Len(words) ELSE Len(f) |->
     IF n \in p + 1 .. p + Len(words) THEN words[n - p] ELSE IF n <= Len(f) THEN f[n] ELSE 0]

ArgsWrites == << <<ArgumentInfo>>, <<ArgBytes>>, ArgData >>

\* The arguments, and then room for the header
WriteArgs ==
  /\ pc = "args" /\ file' = WriteAt(file, pos, ArgsWrites[arg])
  /\ IF arg < Len(ArgsWrites)
     THEN /\ pos' = pos + Len(ArgsWrites[arg]) /\ arg' = arg + 1
          /\ UNCHANGED <<pc, fn, functions, header>>
     ELSE /\ header' = pos + Len(ArgData) /\ pos' = pos + Len(ArgData) + 2
          /\ pc' = "function" /\ fn' = 1 /\ functions' = 0 /\ UNCHANGED arg
  /\ UNCHANGED <<progVars, todo, fnHeader, base, history, loadVars>>

Executed(f) == {n \in Paths[f] : table[f][n] # 0}

FunctionHeader == <<fn, Cardinality(Executed(fn))>>

NextFunction == pc' = "function" /\ fn' = fn + 1

SkipFunction ==
  /\ pc = "function" /\ fn \in Functions /\ Executed(fn) = {}
  /\ NextFunction
  /\ UNCHANGED <<file, progVars, arg, pos, todo, functions, placeVars, history, loadVars>>

\* writeArrayTable leaves room for the header, writeHashTable writes it.
BeginFunction ==
  /\ pc = "function" /\ fn \in Functions /\ Executed(fn) # {}
  /\ pc' = "entries" /\ todo' = Executed(fn) /\ functions' = functions + 1
  /\ pos' = pos + 2
  /\ IF Storage[fn] = "array"
     THEN fnHeader' = pos /\ UNCHANGED file
     ELSE file' = WriteAt(file, pos, FunctionHeader) /\ UNCHANGED fnHeader
  /\ UNCHANGED <<progVars, arg, fn, header, base, history, loadVars>>

\* An array is gone through from 0 on.
WriteEntry(n) ==
  /\ pc = "entries" /\ n \in todo
  /\ Storage[fn] = "array" => \A m \in todo : n <= m
  /\ file' = WriteAt(file, pos, <<n, table[fn][n]>>) /\ pos' = pos + 2
  /\ todo' = todo \ {n}
  /\ UNCHANGED <<pc, progVars, arg, fn, functions, placeVars, history, loadVars>>

Bug_AfterHeader == fnHeader + 2

\* The position after the header of an array was filled in
AfterHeader == pos

EndFunction ==
  /\ pc = "entries" /\ todo = {}
  /\ IF Storage[fn] = "array"
     THEN file' = WriteAt(file, fnHeader, FunctionHeader) /\ pos' = AfterHeader
     ELSE UNCHANGED <<file, pos>>
  /\ NextFunction
  /\ UNCHANGED <<progVars, arg, todo, functions, placeVars, history, loadVars>>

Packet(done) == [complete |-> done, table |-> table]

\* The header, and the end of the run
Finish ==
  /\ pc = "function" /\ fn \notin Functions /\ pc' = "idle"
  /\ file' = WriteAt(file, header, <<PathInfo, functions>>)
  /\ packets' = Append(packets, Packet(TRUE))
  /\ UNCHANGED <<progVars, arg, pos, fn, todo, functions, placeVars, broken, loadVars>>

-----------------------------------------------------------------------------
(* Faults *)

\* write() fails. getOutFile calls exit(0), the handler returns; a function is
\* given up, and the position stays where it was: for the header of an array in
\* front of its entries.
WriteFails ==
  /\ "writefail" \in Faults
  /\ \/ /\ pc = "args" \/ (pc = "function" /\ fn \notin Functions)
        /\ pc' = "idle" /\ UNCHANGED <<fn, pos, functions>>
     \/ /\ pc = "function" /\ fn \in Functions /\ Storage[fn] = "hash" /\ Executed(fn) # {}
        /\ NextFunction /\ functions' = functions + 1 /\ UNCHANGED pos
     \/ /\ pc = "entries" /\ todo # {}
        /\ NextFunction /\ UNCHANGED <<pos, functions>>
     \/ /\ pc = "entries" /\ todo = {} /\ Storage[fn] = "array"
        /\ NextFunction /\ pos' = fnHeader /\ UNCHANGED functions
  /\ broken' = TRUE
  /\ UNCHANGED <<file, progVars, arg, todo, placeVars, packets, loadVars>>

\* What a run has written when it dies stays, and so do its holes. A packet is
\* complete with its header, which is written last.
Kill ==
  /\ "kill" \in Faults
  /\ pc # "idle" /\ pc' = "idle"
  /\ packets' = IF pc \in {"function", "entries"} /\ Len(file) > header
                THEN Append(packets, Packet(FALSE)) ELSE packets
  /\ broken' = (broken \/ (pc = "args" /\ Len(file) > base))
  /\ UNCHANGED <<file, progVars, arg, pos, fn, todo, functions, placeVars, loadVars>>

-----------------------------------------------------------------------------
(* PathProfileLoaderPass::runOnModule *)

\* opt, some time after the last run. (Without a file nothing is loaded, as from
\* an empty file.)
LoaderOpen ==
  /\ lst = "idle" /\ pc = "idle" /\ lst' = "reading"
  /\ UNCHANGED <<at, left, loaded, totals>>

Rest == Len(file) - at

\* fread returns 0; or a packet is cut off, which is a warning, and by then the
\* file has been read to its end.
LoaderEnd ==
  /\ \/ left = 0 /\ (Rest = 0 \/ (Rest = 1 /\ file[at + 1] \in {ArgumentInfo, PathInfo}))
     \/ left > 0 /\ Rest < 2
     \/ left > 0 /\ Rest >= 2 /\ file[at + 1] <= Len(Storage) /\ Rest < 2 + 2 * file[at + 2]
  /\ lst' = "done" /\ at' = Len(file) /\ left' = 0
  /\ UNCHANGED <<loaded, totals>>

\* handleArgumentInfo reads or seeks over the arguments, with their padding.
ReadArguments ==
  /\ left = 0 /\ Rest >= 2 /\ file[at + 1] = ArgumentInfo
  /\ LET end == at + 2 + (file[at + 2] + 3) \div 4
     IN at' = IF end < Len(file) THEN end ELSE Len(file)
  /\ UNCHANGED <<lst, left, loaded, totals>>

ReadPathInfo ==
  /\ left = 0 /\ Rest >= 2 /\ file[at + 1] = PathInfo
  /\ at' = at + 2 /\ left' = file[at + 2]
  /\ UNCHANGED <<lst, loaded, totals>>

\* "error: bad path profiling file syntax"
BadSyntax ==
  /\ left = 0 /\ Rest >= 1 /\ file[at + 1] \notin {ArgumentInfo, PathInfo}
  /\ lst' = "failed"
  /\ UNCHANGED <<at, left, loaded, totals>>

\* A sum of unsigned numbers
Total(count) == MapThenSumSet(LAMBDA n : count[n], DOMAIN count) % (WordMax + 1)

\* The entries of a function take the place of those that were read before, path
\* by path; the total is that of the function in this packet.
ReadFunction ==
  /\ left > 0 /\ Rest >= 2 /\ file[at + 1] <= Len(Storage)
  /\ Rest >= 2 + 2 * file[at + 2]
  /\ LET f == file[at + 1]
         entries == 1 .. file[at + 2]
         number == [j \in entries |-> file[at + 1 + 2 * j]]
         count  == [j \in entries |-> file[at + 2 + 2 * j]]
         Last(n) == Max({j \in entries : number[j] = n})
     IN /\ loaded' = [k \in DOMAIN loaded \cup {<<f, number[j]>> : j \in entries} |->
                        IF k \in {<<f, number[j]>> : j \in entries} THEN count[Last(k[2])]
                        ELSE loaded[k]]
        /\ totals' = [totals EXCEPT ![f] = Total(count)]
        /\ at' = at + 2 + 2 * file[at + 2]
  /\ left' = left - 1
  /\ UNCHANGED lst

\* _functions is read behind its end.
BadFunction ==
  /\ left > 0 /\ Rest >= 2 /\ file[at + 1] > Len(Storage)
  /\ lst' = "undefined"
  /\ UNCHANGED <<at, left, loaded, totals>>

Load ==
  /\ \/ LoaderOpen
     \/ /\ lst = "reading"
        /\ LoaderEnd \/ ReadArguments \/ ReadPathInfo \/ BadSyntax \/ ReadFunction \/ BadFunction
  /\ UNCHANGED <<file, pc, progVars, arg, pos, fn, todo, functions, placeVars, history>>

-----------------------------------------------------------------------------
Program ==
  \/ Start
  \/ \E f \in Functions : \E n \in Paths[f], k \in Times : Increment(f, n, k)
  \/ Exit

Handler ==
  \/ WriteArgs \/ SkipFunction \/ BeginFunction
  \/ \E n \in todo : WriteEntry(n)
  \/ EndFunction \/ Finish

Next == Program \/ Handler \/ WriteFails \/ Kill \/ Load

Spec == Init /\ [][Next]_vars

-----------------------------------------------------------------------------
(* Properties *)

\* The types; no more functions are counted than were gone through, and what is
\* left to write of a function are paths that were run.
TypeOK ==
  /\ file \in Seq(Word)
  /\ pc \in {"idle", "run", "args", "function", "entries"}
  /\ runs \in Nat /\ steps \in Nat
  /\ DOMAIN table = Functions /\ \A f \in Functions : table[f] \in [Paths[f] -> Word]
  /\ arg \in 1 .. Len(ArgsWrites) /\ pos \in Nat
  /\ fn \in 1 .. Len(Storage) + 1
  /\ pc = "entries" => fn \in Functions /\ todo \subseteq Executed(fn)
  /\ header \in Nat /\ fnHeader \in Nat /\ base \in 0 .. Len(file)
  /\ functions \in 0 .. fn /\ (pc = "function" => functions < fn)
  /\ broken \in BOOLEAN
  /\ lst \in {"idle", "reading", "done", "failed", "undefined"} /\ (lst # "idle" => pc = "idle")
  /\ at \in 0 .. Len(file) /\ left \in Word

\* A place that was skipped: its words are behind the end of the file, or 0.
Hole(place) == \A n \in {place + 1, place + 2} : n <= Len(file) => file[n] = 0

\* What a run seeks back to lies behind the words of earlier runs, and is a hole;
\* its own position is at the end, or behind the holes it left there.
PlacesInv ==
  /\ pc \in {"args", "function", "entries"} => base <= pos
  /\ pc \in {"function", "entries"} => base <= header
  /\ pc = "entries" /\ Storage[fn] = "array" => base <= fnHeader
  /\ ~broken =>
       /\ pc = "args" => pos = Len(file)
       /\ pc \in {"function", "entries"} =>
            Hole(header) /\ header + 2 <= pos /\ Len(file) <= pos
       /\ pc = "entries" /\ Storage[fn] = "array" =>
            Hole(fnHeader) /\ header + 2 <= fnHeader /\ fnHeader + 2 <= pos

IInv == TypeOK /\ PlacesInv

\* The packets in front of the first that a run left unfinished
Readable == {k \in DOMAIN packets : \A m \in 1 .. k : packets[m].complete}

Ran(k, path) == packets[k].table[path[1]][path[2]]

LastCount(path) == Ran(Max({k \in Readable : Ran(k, path) # 0}), path)

LastTotal(f) ==
  LET with == {k \in Readable : \E n \in Paths[f] : Ran(k, <<f, n>>) # 0}
  IN IF with = {} THEN 0 ELSE Total(packets[Max(with)].table[f])

\* A run may die anywhere but while it writes its arguments: what it left of a
\* packet is refused, and never taken for counts. The loader has the count of each
\* path from the last run before that in which the path was run (not the sum over
\* the runs, as edge profiles have it), and the total of each function from the
\* last run in which the function was. This says nothing if a write() failed.
LoadedLatest ==
  lst \in {"done", "failed"} /\ ~broken =>
    /\ lst = "failed" <=> \E k \in DOMAIN packets : ~packets[k].complete
    /\ loaded = [path \in {p \in UNION {{f} \X Paths[f] : f \in Functions} :
                             \E k \in Readable : Ran(k, p) # 0} |-> LastCount(path)]
    /\ \A f \in Functions : totals[f] = LastTotal(f)

\* A run changes no word of an earlier run although it seeks back, whatever fails;
\* and of its own it changes only holes, unless a write() failed.
OwnHolesOnly ==
  [][/\ Len(file) <= Len(file')
     /\ \A n \in 1 .. Len(file) :
          file'[n] # file[n] => n > base /\ (~broken' => file[n] = 0)]_vars
=============================================================================
