---------------------------- MODULE ProfileFile ----------------------------
(***************************************************************************)
(* The profile file llvmprof.out: instrumented programs append packets to  *)
(* it when they exit (runtime/libprofile), and a tool loads and sums them  *)
(* (ProfileInfoLoader).                                                    *)
(*                                                                         *)
(* The file is a sequence of words, and each write() of the runtime is a   *)
(* step of its own. A packet is its type, its length and its data; the     *)
(* first packet of a run holds the command line. Words go up to Uncounted  *)
(* (~0U), so sums wrap at Uncounted + 1. Left out: byte swapping, files    *)
(* whose length is not a whole number of words, and what the arguments     *)
(* say (every word of them is CharWord).                                   *)
(*                                                                         *)
(* Faults says what may go wrong in a configuration:                       *)
(*   "overlap"    two runs of instrumented programs overlap in time        *)
(*   "kill"       a run dies without reaching exit()                       *)
(*   "openfail"   open() of the file fails                                 *)
(*   "writefail"  write() fails and writes nothing                         *)
(*   "short"      write() writes a part of its data and reports success    *)
(***************************************************************************)
EXTENDS Integers, Sequences, FiniteSets, SequencesExt

CONSTANTS Proc,        \* the runs of instrumented programs
          Registered,  \* the kinds of profiling a program starts, in order
          Vectors,     \* Vectors[k]: the final values of the counters of kind k
          BlockIds,    \* the basic block numbers a trace may contain
          BufferSize,  \* words of the trace buffer (code: 32768)
          MaxHits,     \* bound: traced blocks per run
          ArgBytes,    \* SavedArgsLength
          CharWord,    \* four characters of the command line, as a word
          Uncounted,   \* ~0U
          Faults,
          MaxTorn      \* bound: packets left incomplete

Word == 0 .. Uncounted

BlockKind == {"function", "block", "edge", "opt", "trace"}

\* enum ProfilingType
ArgumentInfo == 1
TypeOf == [function |-> 2, block |-> 3, edge |-> 4, trace |-> 6, opt |-> 7]

ASSUME UncountedAssumption == Uncounted \in Nat /\ Uncounted > 7
ASSUME ProgramAssumption ==
  /\ Registered \in Seq({"edge", "opt", "trace"})
  /\ \A k \in {"edge", "opt"} : \A v \in Vectors[k] : v \in Seq(Word) /\ Len(v) \in Word
  /\ BlockIds \subseteq Word
  /\ BufferSize \in 1 .. Uncounted
  /\ MaxHits \in Nat
ASSUME ArgumentsAssumption == ArgBytes \in Word /\ CharWord \in Word
ASSUME FaultsAssumption ==
  MaxTorn \in Nat /\ Faults \subseteq {"overlap", "kill", "openfail", "writefail", "short"}

VARIABLES
  file,       \* the words of llvmprof.out
  st,         \* st[p], where run p is
  handlers,   \* handlers[p], the atexit handlers still to run
  off,        \* off[p], the file position of p's descriptor, or Closed
  packet,     \* packet[p], the packet p is writing
  todo,       \* todo[p], the write() calls p has still to make for it
  buffer,     \* buffer[p], the trace buffer up to ArrayCursor
  hits,       \* hits[p], the blocks traced so far
  deposited,  \* history: the packets written to their last word
  torn,       \* history: the places where a packet was left incomplete
  lst,        \* where the loader is
  lpos,       \* the loader's place in the file
  counts,     \* counts[k], the loader's vector for packets of kind k
  lines       \* CommandLines.size()

runVars    == <<st, handlers, off, packet, todo, buffer, hits>>
loaderVars == <<lst, lpos, counts, lines>>
vars == <<file, runVars, deposited, torn, loaderVars>>

Closed == -1
NoPacket == [kind |-> "none", data |-> <<>>]
Active(p) == st[p] \in {"running", "exiting"}

\* The command line takes whole words: the code pads it with Zeros.
ArgWords == [c \in 1 .. ((ArgBytes + 3) \div 4) |-> CharWord]
ArgsPacket == [kind |-> "args", data |-> ArgWords]
ArgsWrites == << <<ArgumentInfo>>, <<ArgBytes>>, ArgWords >>
PacketWrites(q) == << <<TypeOf[q.kind]>>, <<Len(q.data)>>, q.data >>

-----------------------------------------------------------------------------
(* The instrumented programs *)

Init ==
  /\ file = <<>>
  /\ st = [p \in Proc |-> "ready"]
  /\ handlers = [p \in Proc |-> <<>>]
  /\ off = [p \in Proc |-> Closed]
  /\ packet = [p \in Proc |-> NoPacket]
  /\ todo = [p \in Proc |-> <<>>]
  /\ buffer = [p \in Proc |-> <<>>]
  /\ hits = [p \in Proc |-> 0]
  /\ deposited = <<>>
  /\ torn = {}
  /\ lst = "idle"
  /\ lpos = 0
  /\ counts = [k \in BlockKind |-> <<>>]
  /\ lines = 0

\* llvm_start_..._profiling: every kind of profiling registers its handler.
Start(p) ==
  /\ st[p] = "ready"
  /\ lst = "idle"
  /\ "overlap" \in Faults \/ \A q \in Proc : ~Active(q)
  /\ st' = [st EXCEPT ![p] = "running"]
  /\ handlers' = [handlers EXCEPT ![p] = Registered]
  /\ UNCHANGED <<file, off, packet, todo, buffer, hits, deposited, torn, loaderVars>>

\* write_profiling_data, up to its first write()
Deliver(p, q) ==
  /\ packet' = [packet EXCEPT ![p] = q]
  /\ todo' = [todo EXCEPT ![p] = PacketWrites(q)]

Bug_BufferFull(buf) == Len(buf) > BufferSize

BufferFull(buf) == Len(buf) = BufferSize

\* llvm_trace_basic_block
Trace(p) ==
  /\ st[p] = "running" /\ todo[p] = <<>>
  /\ Contains(Registered, "trace")
  /\ hits[p] < MaxHits
  /\ \E b \in BlockIds :
       LET buf == Append(buffer[p], b) IN
       /\ buffer' = [buffer EXCEPT ![p] = buf]
       /\ IF BufferFull(buf)
          THEN Deliver(p, [kind |-> "trace", data |-> buf])
          ELSE UNCHANGED <<packet, todo>>
  /\ hits' = [hits EXCEPT ![p] = @ + 1]
  /\ UNCHANGED <<file, st, handlers, off, deposited, torn, loaderVars>>

\* The program returns from main or calls exit().
Exit(p) ==
  /\ st[p] = "running" /\ todo[p] = <<>>
  /\ st' = [st EXCEPT ![p] = "exiting"]
  /\ UNCHANGED <<file, handlers, off, packet, todo, buffer, hits, deposited, torn, loaderVars>>

Bug_RemainingHandlers(p) == IF off[p] = Closed THEN handlers[p] ELSE Front(handlers[p])

RemainingHandlers(p) == Front(handlers[p])

\* EdgeProfAtExitHandler, OptEdgeProfAtExitHandler or BBTraceAtExitHandler;
\* the handler registered last runs first.
RunHandler(p) ==
  /\ st[p] = "exiting" /\ todo[p] = <<>>
  /\ handlers[p] # <<>>
  /\ LET k == Last(handlers[p]) IN
       IF k = "trace"
       THEN Deliver(p, [kind |-> k, data |-> buffer[p]])
       ELSE \E v \in Vectors[k] : Deliver(p, [kind |-> k, data |-> v])
  /\ handlers' = [handlers EXCEPT ![p] = RemainingHandlers(p)]
  /\ UNCHANGED <<file, st, off, buffer, hits, deposited, torn, loaderVars>>

Finish(p) ==
  /\ st[p] = "exiting" /\ todo[p] = <<>>
  /\ handlers[p] = <<>>
  /\ st' = [st EXCEPT ![p] = "exited"]
  /\ UNCHANGED <<file, handlers, off, packet, todo, buffer, hits, deposited, torn, loaderVars>>

Bug_EndOfFile == 0

EndOfFile == Len(file)

\* getOutFile, the first time: the position is the end of the file, and the
\* arguments are written before the packet.
OpenFile(p) ==
  /\ Active(p) /\ todo[p] # <<>>
  /\ off[p] = Closed
  /\ off' = [off EXCEPT ![p] = EndOfFile]
  /\ todo' = [todo EXCEPT ![p] = ArgsWrites \o @]
  /\ UNCHANGED <<file, st, handlers, packet, buffer, hits, deposited, torn, loaderVars>>

\* exit(0) after a failed write(): the packet is given up, and the handlers
\* that have not run yet run (exit() inside a handler carries on, in glibc).
GiveUp(p) ==
  /\ st' = [st EXCEPT ![p] = "exiting"]
  /\ todo' = [todo EXCEPT ![p] = <<>>]
  /\ packet' = [packet EXCEPT ![p] = NoPacket]

\* open() fails; write() to descriptor -1 then fails too, and the next
\* packet tries to open the file again.
OpenFails(p) ==
  /\ "openfail" \in Faults
  /\ Active(p) /\ todo[p] # <<>>
  /\ off[p] = Closed
  /\ GiveUp(p)
  /\ UNCHANGED <<file, handlers, off, buffer, hits, deposited, torn, loaderVars>>

\* write() at position o extends the file or overwrites it.
WriteAt(o, ws) ==
  file' = [n \in 1 .. (IF o + Len(ws) > Len(file) THEN o + Len(ws) ELSE Len(file)) |->
             IF n \in (o + 1) .. (o + Len(ws)) THEN ws[n - o] ELSE file[n]]

\* Three writes make a packet, and three more before them make the arguments.
Completed(p) ==
  IF Len(todo[p]) = 4 THEN <<ArgsPacket>>
  ELSE IF Len(todo[p]) = 1 THEN <<packet[p]>>
  ELSE <<>>

\* The packet has writes behind it and writes to come.
MidPacket(p) == off[p] # Closed /\ Len(todo[p]) \notin {0, 3, 6}

\* What p is writing stays incomplete, from place o on.
Tear(p, o) ==
  IF MidPacket(p)
  THEN Cardinality(torn) < MaxTorn /\ torn' = torn \cup {o}
  ELSE UNCHANGED torn

\* After its last write WriteAndFlushBBTraceData resets ArrayCursor.
AfterWrite(p) ==
  /\ todo' = [todo EXCEPT ![p] = Tail(@)]
  /\ packet' = [packet EXCEPT ![p] = IF Len(todo[p]) = 1 THEN NoPacket ELSE @]
  /\ buffer' = [buffer EXCEPT ![p] =
                  IF Len(todo[p]) = 1 /\ packet[p].kind = "trace" THEN <<>> ELSE @]

Write(p) ==
  /\ Active(p) /\ todo[p] # <<>>
  /\ off[p] # Closed
  /\ WriteAt(off[p], Head(todo[p]))
  /\ off' = [off EXCEPT ![p] = @ + Len(Head(todo[p]))]
  /\ deposited' = deposited \o Completed(p)
  /\ AfterWrite(p)
  /\ UNCHANGED <<st, handlers, hits, torn, loaderVars>>

\* The code only looks for a negative result.
ShortWrite(p) ==
  /\ "short" \in Faults
  /\ Active(p) /\ todo[p] # <<>>
  /\ off[p] # Closed
  /\ Cardinality(torn) < MaxTorn
  /\ \E n \in 0 .. (Len(Head(todo[p])) - 1) :
       /\ WriteAt(off[p], SubSeq(Head(todo[p]), 1, n))
       /\ off' = [off EXCEPT ![p] = @ + n]
       /\ torn' = torn \cup {off[p] + n}
  /\ AfterWrite(p)
  /\ UNCHANGED <<st, handlers, hits, deposited, loaderVars>>

WriteFails(p) ==
  /\ "writefail" \in Faults
  /\ Active(p) /\ todo[p] # <<>>
  /\ off[p] # Closed
  /\ Tear(p, off[p])
  /\ GiveUp(p)
  /\ UNCHANGED <<file, handlers, off, buffer, hits, deposited, loaderVars>>

Kill(p) ==
  /\ "kill" \in Faults
  /\ Active(p)
  /\ st' = [st EXCEPT ![p] = "killed"]
  /\ Tear(p, off[p])
  /\ UNCHANGED <<file, handlers, off, packet, todo, buffer, hits, deposited, loaderVars>>

-----------------------------------------------------------------------------
(* The loader, ProfileInfoLoader::ProfileInfoLoader *)

Rest == Len(file) - lpos

\* fopen fails when no program ever created the file.
LoaderOpen ==
  /\ lst = "idle"
  /\ \A p \in Proc : ~Active(p)
  /\ lst' = IF \E p \in Proc : off[p] # Closed THEN "reading" ELSE "failed"
  /\ UNCHANGED <<file, runVars, deposited, torn, lpos, counts, lines>>

LoaderDone ==
  /\ lst = "reading" /\ Rest = 0
  /\ lst' = "done"
  /\ UNCHANGED <<file, runVars, deposited, torn, lpos, counts, lines>>

\* A packet is truncated when its length is missing or n words are not there.
Truncated(n) == Rest < 2 \/ Rest < 2 + n

ReadArguments ==
  /\ lst = "reading" /\ Rest > 0
  /\ file[lpos + 1] = ArgumentInfo
  /\ LET n == (file[lpos + 2] + 3) \div 4 IN
       IF Truncated(n)
       THEN lst' = "failed" /\ UNCHANGED <<lpos, lines>>
       ELSE /\ lpos' = lpos + 2 + n
            /\ lines' = lines + 1
            /\ UNCHANGED lst
  /\ UNCHANGED <<file, runVars, deposited, torn, counts>>

Bug_AddCounts(a, b) == (a + b) % (Uncounted + 1)

AddCounts(a, b) ==
  IF a = Uncounted THEN b
  ELSE IF b = Uncounted THEN a
  ELSE (a + b) % (Uncounted + 1)

Bug_Accumulate(data, block) ==
  [c \in 1 .. Len(block) |->
     IF c \in DOMAIN data THEN AddCounts(block[c], data[c]) ELSE block[c]]

\* Data.resize(NumEntries, Uncounted), then AddCounts word by word
Accumulate(data, block) ==
  [c \in 1 .. (IF Len(data) < Len(block) THEN Len(block) ELSE Len(data)) |->
     AddCounts(IF c \in DOMAIN block THEN block[c] ELSE Uncounted,
               IF c \in DOMAIN data THEN data[c] ELSE Uncounted)]

Bug_AfterBlock(n) == lpos + 1 + n

AfterBlock(n) == lpos + 2 + n

\* ReadProfilingBlock. fread of a block of no bytes reads no item, which the
\* code takes for a truncated packet.
ReadBlock(k) ==
  /\ lst = "reading" /\ Rest > 0
  /\ file[lpos + 1] = TypeOf[k]
  /\ LET n == file[lpos + 2] IN
       IF Truncated(n) \/ n = 0
       THEN lst' = "failed" /\ UNCHANGED <<lpos, counts>>
       ELSE /\ counts' = [counts EXCEPT ![k] =
                 Accumulate(@, SubSeq(file, lpos + 3, lpos + 2 + n))]
            /\ lpos' = AfterBlock(n)
            /\ UNCHANGED lst
  /\ UNCHANGED <<file, runVars, deposited, torn, lines>>

ReadUnknown ==
  /\ lst = "reading" /\ Rest > 0
  /\ file[lpos + 1] # ArgumentInfo
  /\ \A k \in BlockKind : file[lpos + 1] # TypeOf[k]
  /\ lst' = "failed"
  /\ UNCHANGED <<file, runVars, deposited, torn, lpos, counts, lines>>

-----------------------------------------------------------------------------
\* What a program does by itself once it is exiting or delivering a packet.
Proceed(p) ==
  \/ RunHandler(p) \/ Finish(p)
  \/ OpenFile(p) \/ OpenFails(p)
  \/ Write(p) \/ ShortWrite(p) \/ WriteFails(p)

Run(p) == Start(p) \/ Trace(p) \/ Exit(p) \/ Kill(p) \/ Proceed(p)

Read == LoaderDone \/ ReadArguments \/ (\E k \in BlockKind : ReadBlock(k)) \/ ReadUnknown

Next == (\E p \in Proc : Run(p)) \/ LoaderOpen \/ Read

\* A process that is not stopped is scheduled; nothing makes a program call
\* exit(), start, or be killed.
Fairness == (\A p \in Proc : WF_vars(Proceed(p))) /\ WF_vars(Read)

Spec == Init /\ [][Next]_vars /\ Fairness

-----------------------------------------------------------------------------
(* Properties *)

Packet == [kind : BlockKind \cup {"args", "none"}, data : Seq(Word)]

\* The types of the variables. The trace buffer never holds more than its
\* BufferSize words between two calls of the runtime, and nobody's file
\* position is past the end of the file.
TypeOK ==
  /\ file \in Seq(Word)
  /\ st \in [Proc -> {"ready", "running", "exiting", "exited", "killed"}]
  /\ handlers \in [Proc -> Seq({"edge", "opt", "trace"})]
  /\ off \in [Proc -> Nat \cup {Closed}]
  /\ \A p \in Proc : off[p] <= Len(file)
  /\ packet \in [Proc -> Packet]
  /\ todo \in [Proc -> Seq(Seq(Word))]
  /\ buffer \in [Proc -> Seq(Word)]
  /\ \A p \in Proc : Len(buffer[p]) <= BufferSize
  /\ hits \in [Proc -> Nat]
  /\ deposited \in Seq(Packet)
  /\ torn \subseteq Nat
  /\ lst \in {"idle", "reading", "done", "failed"}
  /\ lpos \in 0 .. Len(file)
  /\ counts \in [BlockKind -> Seq(Word)]
  /\ lines \in Nat

\* TypeOK is not inductive by itself: the buffer must have room whenever the
\* program runs on, so whatever filled it is on its way to the file.
BufferRoom ==
  \A p \in Proc :
    /\ st[p] = "ready" => todo[p] = <<>> /\ buffer[p] = <<>>
    /\ st[p] = "running" /\ todo[p] = <<>> => Len(buffer[p]) < BufferSize
    /\ st[p] = "running" /\ todo[p] # <<>> => packet[p].kind = "trace"

\* Without overlap the file has one writer, and it stands at the end.
SingleWriter ==
  /\ \A p, q \in Proc : Active(p) /\ Active(q) => p = q
  /\ \A p \in Proc : Active(p) => off[p] \in {Closed, Len(file)}
  /\ \A p \in Proc : st[p] = "ready" => off[p] = Closed

IInv == TypeOK /\ BufferRoom /\ SingleWriter

\* getOutFile opens "the output file for appending" (CommonProfiling.c:120):
\* no step of a run ever changes a word that is already in the file, whatever
\* dies or is cut short. Overlapping runs break it.
AppendOnly ==
  [][/\ Len(file) <= Len(file')
     /\ \A n \in 1 .. Len(file) : file'[n] = file[n]]_file

Store == INSTANCE ProfileStore
           WITH ArgsKind <- "args", store <- deposited,
                result <- IF lst = "done" THEN counts ELSE [k \in BlockKind |-> <<>>],
                executions <- IF lst = "done" THEN lines ELSE 0,
                status <- IF lst = "done" THEN "answered"
                          ELSE IF lst = "failed" THEN "refused" ELSE "waiting"

\* Runs one after the other, with no fault but a failing open(), implement the
\* abstract store: a packet counts from its last word on, a load returns the
\* sums over the packets, and it is refused only as the store allows.
StoreSpec == Store!Spec

\* If no packet was written behind an incomplete one, a load that succeeds
\* returns exactly the packets written to their end: a torn last packet is
\* never taken for counters.
LoadedExact ==
  lst = "done" /\ torn \subseteq {Len(file)} => Store!Faithful(deposited, counts, lines)

\* A load fails only when there is no file, when some packet is torn, and when
\* a block packet has no counters.
RefusedForCause ==
  lst = "failed" => torn # {} \/ Store!Unreadable(deposited)

\* exit() called from inside an atexit handler after a failed write neither
\* loops nor loses its way: a run that is exiting ends, and so does a load.
ExitEnds ==
  /\ \A p \in Proc : st[p] = "exiting" ~> st[p] \in {"exited", "killed"}
  /\ lst = "reading" ~> lst \in {"done", "failed"}
=============================================================================
