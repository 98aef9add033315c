------------------------- MODULE ProfileFileProofs --------------------------
(***************************************************************************)
(* Proofs about ProfileFile, for every number of runs, every program and   *)
(* every buffer size: the types, the room in the trace buffer, that runs   *)
(* that do not overlap only ever append to the profile file, and what is   *)
(* loaded from it, whatever dies or is cut short: a load returns the sums  *)
(* of what was written, or is refused for a cause.                         *)
(*                                                                         *)
(* For the last the invariant says where each packet is in the file. While *)
(* nothing was torn, the packets deposited fill it, but for those words of *)
(* the next packet that its writer has written. When the only torn packet  *)
(* is the last, the words of it that are there are too few for its header, *)
(* or there are none. The loader stands at the end of a packet, and has    *)
(* the sums of those before. That these agree with the sums of the store,  *)
(* which adds over sets, needs induction over the packets loaded: each     *)
(* packet that is read adds to them.                                       *)
(***************************************************************************)
EXTENDS ProfileFile, LibraryFacts

\* Empty sequences are the sequences without length.
LEMMA EmptyIffNoLength ==
  ASSUME NEW S, NEW s \in Seq(S)
  PROVE  s = <<>> <=> Len(s) = 0
  BY EmptySeq

\* A write() from a place in the file, or at its end, leaves a file that is
\* no shorter; at the end, it leaves every word as it was.
LEMMA WriteAtKeeps ==
  ASSUME NEW o \in Nat, NEW ws \in Seq(Word),
         file \in Seq(Word), o <= Len(file), WriteAt(o, ws)
  PROVE  /\ file' \in Seq(Word)
         /\ Len(file) <= Len(file')
         /\ o + Len(ws) <= Len(file')
         /\ o = Len(file) => /\ Len(file') = o + Len(ws)
                             /\ \A n \in 1 .. Len(file) : file'[n] = file[n]
<1> DEFINE L == IF o + Len(ws) > Len(file) THEN o + Len(ws) ELSE Len(file)
<1>1. L \in Nat /\ Len(file) <= L /\ o + Len(ws) <= L
  BY DEF Word
<1>2. file' = [n \in 1 .. L |->
                 IF n \in (o + 1) .. (o + Len(ws)) THEN ws[n - o] ELSE file[n]]
  BY DEF WriteAt
<1> HIDE DEF L
<1>3. ASSUME NEW n \in 1 .. L
      PROVE  (IF n \in (o + 1) .. (o + Len(ws)) THEN ws[n - o] ELSE file[n]) \in Word
  <2>1. CASE n \in (o + 1) .. (o + Len(ws))
    <3>1. n - o \in 1 .. Len(ws)
      BY <2>1, <1>1
    <3> QED  BY <2>1, <3>1
  <2>2. CASE n \notin (o + 1) .. (o + Len(ws))
    <3>1. n \in 1 .. Len(file)
      BY <2>2, <1>1 DEF L
    <3> QED  BY <2>2, <3>1
  <2> QED  BY <2>1, <2>2
<1>4. file' \in [1 .. L -> Word]
  BY <1>2, <1>3
<1>5. file' \in Seq(Word) /\ Len(file') = L
  BY <1>1, <1>4
<1>6. ASSUME o = Len(file)
      PROVE  L = o + Len(ws) /\ \A n \in 1 .. Len(file) : file'[n] = file[n]
  BY <1>6, <1>1, <1>2 DEF L
<1> QED  BY <1>1, <1>5, <1>6

\* The write() calls of a packet are sequences of words.
LEMMA WritesAreWords ==
  /\ ArgsWrites \in Seq(Seq(Word))
  /\ \A q : q.kind \in BlockKind /\ q.data \in Seq(Word) /\ Len(q.data) \in Word
              => PacketWrites(q) \in Seq(Seq(Word)) /\ PacketWrites(q) # <<>>
<1>1. ArgWords \in Seq(Word)
  BY ArgumentsAssumption, UncountedAssumption DEF ArgWords, Word
<1>2. <<ArgumentInfo>> \in Seq(Word) /\ <<ArgBytes>> \in Seq(Word)
  BY ArgumentsAssumption, UncountedAssumption DEF ArgumentInfo, Word
<1>3. ASSUME NEW q, q.kind \in BlockKind, q.data \in Seq(Word), Len(q.data) \in Word
      PROVE  PacketWrites(q) \in Seq(Seq(Word)) /\ PacketWrites(q) # <<>>
  <2>1. TypeOf[q.kind] \in Word
    BY <1>3, UncountedAssumption DEF BlockKind, TypeOf, Word
  <2>2. <<TypeOf[q.kind]>> \in Seq(Word) /\ <<Len(q.data)>> \in Seq(Word)
    BY <1>3, <2>1
  <2> QED  BY <2>2, <1>3 DEF PacketWrites
<1> QED  BY <1>1, <1>2, <1>3 DEF ArgsWrites

\* Adding counters never leaves the words, whatever wraps around.
LEMMA AccumulateType ==
  ASSUME NEW data \in Seq(Word), NEW block \in Seq(Word)
  PROVE  Accumulate(data, block) \in Seq(Word)
<1>1. \A a, b \in Word : AddCounts(a, b) \in Word
  BY UncountedAssumption DEF AddCounts, Word
<1> DEFINE L == IF Len(data) < Len(block) THEN Len(block) ELSE Len(data)
<1>2. L \in Nat
  OBVIOUS
<1>3. Uncounted \in Word
  BY UncountedAssumption DEF Word
<1>4. ASSUME NEW c \in 1 .. L
      PROVE  AddCounts(IF c \in DOMAIN block THEN block[c] ELSE Uncounted,
                       IF c \in DOMAIN data THEN data[c] ELSE Uncounted) \in Word
  <2>1. (IF c \in DOMAIN block THEN block[c] ELSE Uncounted) \in Word
    BY <1>3
  <2>2. (IF c \in DOMAIN data THEN data[c] ELSE Uncounted) \in Word
    BY <1>3
  <2> HIDE DEF L
  <2> QED  BY <1>1, <2>1, <2>2
<1> HIDE DEF L
<1>5. Accumulate(data, block) = [c \in 1 .. L |->
         AddCounts(IF c \in DOMAIN block THEN block[c] ELSE Uncounted,
                   IF c \in DOMAIN data THEN data[c] ELSE Uncounted)]
  BY DEF Accumulate, L
<1>6. Accumulate(data, block) \in [1 .. L -> Word]
  BY <1>4, <1>5
<1> QED  BY <1>2, <1>6

-----------------------------------------------------------------------------
\* What a completed packet adds to the history.
LEMMA CompletedType ==
  ASSUME NEW p \in Proc, TypeOK
  PROVE  Completed(p) \in Seq(Packet)
<1>1. ArgWords \in Seq(Word)
  BY ArgumentsAssumption, UncountedAssumption DEF ArgWords, Word
<1>2. ArgsPacket \in Packet
  BY <1>1 DEF ArgsPacket, Packet
<1>3. packet[p] \in Packet
  BY DEF TypeOK
<1> QED  BY <1>2, <1>3 DEF Completed

\* Delivering a packet of a kind that is traced or counted.
LEMMA DeliverType ==
  ASSUME NEW p \in Proc, TypeOK,
         NEW k \in {"edge", "opt", "trace"}, NEW d \in Seq(Word), Len(d) \in Word,
         Deliver(p, [kind |-> k, data |-> d])
  PROVE  /\ packet' \in [Proc -> Packet]
         /\ todo' \in [Proc -> Seq(Seq(Word))]
         /\ todo'[p] # <<>>
         /\ packet'[p].kind = k
         /\ \A q \in Proc \ {p} : todo'[q] = todo[q] /\ packet'[q] = packet[q]
<1> DEFINE x == [kind |-> k, data |-> d]
<1>1. x \in Packet /\ x.kind \in BlockKind /\ x.data = d /\ x.kind = k
  BY DEF Packet, BlockKind
<1> HIDE DEF x
<1>2. PacketWrites(x) \in Seq(Seq(Word)) /\ PacketWrites(x) # <<>>
  BY <1>1, WritesAreWords
<1>3. packet' = [packet EXCEPT ![p] = x] /\ todo' = [todo EXCEPT ![p] = PacketWrites(x)]
  BY DEF Deliver, x
<1>4. packet \in [Proc -> Packet] /\ todo \in [Proc -> Seq(Seq(Word))]
  BY DEF TypeOK
<1> QED  BY <1>1, <1>2, <1>3, <1>4

\* The calls left once one of them has been made.
LEMMA AfterWriteType ==
  ASSUME NEW p \in Proc, TypeOK, BufferRoom, todo[p] # <<>>, AfterWrite(p), st' = st
  PROVE  /\ todo' \in [Proc -> Seq(Seq(Word))]
         /\ packet' \in [Proc -> Packet]
         /\ buffer' \in [Proc -> Seq(Word)]
         /\ \A q \in Proc : Len(buffer'[q]) <= BufferSize
         /\ BufferRoom'
<1>1. /\ packet \in [Proc -> Packet] /\ todo \in [Proc -> Seq(Seq(Word))]
      /\ buffer \in [Proc -> Seq(Word)]
      /\ \A q \in Proc : Len(buffer[q]) <= BufferSize
      /\ BufferSize \in Nat \ {0}
  BY ProgramAssumption, UncountedAssumption DEF TypeOK
<1>2. NoPacket \in Packet /\ <<>> \in Seq(Word) /\ Len(<<>>) = 0
  BY DEF NoPacket, Packet
<1>3. Tail(todo[p]) \in Seq(Seq(Word)) /\ (Tail(todo[p]) = <<>> <=> Len(todo[p]) = 1)
  <2>1. todo[p] \in Seq(Seq(Word)) /\ Len(todo[p]) \in Nat
    BY <1>1
  <2>2. Tail(todo[p]) \in Seq(Seq(Word)) /\ Len(Tail(todo[p])) = Len(todo[p]) - 1
    BY <2>1, HeadTailProperties
  <2>3. Tail(todo[p]) = <<>> <=> Len(Tail(todo[p])) = 0
    BY <2>2, EmptyIffNoLength
  <2> QED  BY <2>1, <2>2, <2>3
<1>4. /\ todo' = [todo EXCEPT ![p] = Tail(todo[p])]
      /\ packet' = [packet EXCEPT ![p] = IF Len(todo[p]) = 1 THEN NoPacket ELSE packet[p]]
      /\ buffer' = [buffer EXCEPT ![p] =
           IF Len(todo[p]) = 1 /\ packet[p].kind = "trace" THEN <<>> ELSE buffer[p]]
  BY DEF AfterWrite
<1>5. todo' \in [Proc -> Seq(Seq(Word))] /\ packet' \in [Proc -> Packet]
  BY <1>1, <1>2, <1>3, <1>4
<1>6. buffer' \in [Proc -> Seq(Word)] /\ \A q \in Proc : Len(buffer'[q]) <= BufferSize
  BY <1>1, <1>2, <1>4
<1>7. ASSUME NEW q \in Proc
      PROVE  /\ st'[q] = "ready" => todo'[q] = <<>> /\ buffer'[q] = <<>>
             /\ st'[q] = "running" /\ todo'[q] = <<>> => Len(buffer'[q]) < BufferSize
             /\ st'[q] = "running" /\ todo'[q] # <<>> => packet'[q].kind = "trace"
  <2>1. /\ st[q] = "ready" => todo[q] = <<>> /\ buffer[q] = <<>>
        /\ st[q] = "running" /\ todo[q] = <<>> => Len(buffer[q]) < BufferSize
        /\ st[q] = "running" /\ todo[q] # <<>> => packet[q].kind = "trace"
    BY DEF BufferRoom
  <2>2. CASE q # p
    BY <2>1, <2>2, <1>1, <1>4
  <2>3. CASE q = p /\ Len(todo[p]) = 1
    BY <2>1, <2>3, <1>1, <1>2, <1>3, <1>4
  <2>4. CASE q = p /\ Len(todo[p]) # 1
    BY <2>1, <2>4, <1>1, <1>3, <1>4
  <2> QED  BY <2>2, <2>3, <2>4
<1> QED  BY <1>5, <1>6, <1>7 DEF BufferRoom

\* A packet is left incomplete at a place in the file.
LEMMA TearType ==
  ASSUME NEW p \in Proc, TypeOK, Tear(p, off[p])
  PROVE  torn' \subseteq Nat
<1>1. torn \subseteq Nat /\ off[p] \in Nat \cup {-1}
  BY DEF TypeOK, Closed
<1>2. CASE MidPacket(p)
  <2>1. off[p] \in Nat
    BY <1>1, <1>2 DEF MidPacket, Closed
  <2> QED  BY <1>1, <1>2, <2>1 DEF Tear
<1>3. CASE ~MidPacket(p)
  BY <1>1, <1>3 DEF Tear
<1> QED  BY <1>2, <1>3

\* Giving a packet up ends the run of the program, and leaves nothing to write.
LEMMA GiveUpType ==
  ASSUME NEW p \in Proc, TypeOK, BufferRoom, GiveUp(p), buffer' = buffer
  PROVE  /\ st' \in [Proc -> {"ready", "running", "exiting", "exited", "killed"}]
         /\ packet' \in [Proc -> Packet]
         /\ todo' \in [Proc -> Seq(Seq(Word))]
         /\ BufferRoom'
<1>1. NoPacket \in Packet /\ <<>> \in Seq(Seq(Word))
  BY DEF NoPacket, Packet
<1>2. /\ st' = [st EXCEPT ![p] = "exiting"]
      /\ todo' = [todo EXCEPT ![p] = <<>>]
      /\ packet' = [packet EXCEPT ![p] = NoPacket]
  BY DEF GiveUp
<1>3. /\ st \in [Proc -> {"ready", "running", "exiting", "exited", "killed"}]
      /\ packet \in [Proc -> Packet]
      /\ todo \in [Proc -> Seq(Seq(Word))]
  BY DEF TypeOK
<1> QED  BY <1>1, <1>2, <1>3 DEF BufferRoom

\* Types and room: they start out true, and every step keeps them.
LEMMA TypeInit == Init => TypeOK /\ BufferRoom
<1> SUFFICES ASSUME Init PROVE TypeOK /\ BufferRoom
  OBVIOUS
<1>1. NoPacket \in Packet
  BY DEF NoPacket, Packet
<1>2. BufferSize \in Nat
  BY ProgramAssumption, UncountedAssumption
<1>3. \A p \in Proc : buffer[p] = <<>> /\ todo[p] = <<>> /\ off[p] = -1 /\ st[p] = "ready"
  BY DEF Init, Closed
<1>4. TypeOK
  BY <1>1, <1>2 DEF Init, TypeOK, Closed
<1>5. BufferRoom
  BY <1>3 DEF BufferRoom
<1> QED  BY <1>4, <1>5

LEMMA TypeRun ==
  ASSUME TypeOK, BufferRoom, NEW p \in Proc, Run(p)
  PROVE  TypeOK' /\ BufferRoom'
<1> USE DEF loaderVars
<1>0. BufferSize \in Nat /\ BufferSize <= Uncounted /\ Uncounted \in Nat
  BY ProgramAssumption, UncountedAssumption
<1>1. CASE Start(p)
  <2>1. Registered \in Seq({"edge", "opt", "trace"})
    BY ProgramAssumption
  <2>2. TypeOK'
    BY <1>1, <2>1 DEF Start, TypeOK
  <2>3. st[p] = "ready" /\ st' = [st EXCEPT ![p] = "running"]
        /\ buffer' = buffer /\ todo' = todo /\ packet' = packet
    BY <1>1 DEF Start
  <2>4. todo[p] = <<>> /\ buffer[p] = <<>> /\ Len(<<>>) = 0 /\ BufferSize > 0
    BY <2>3, ProgramAssumption, UncountedAssumption DEF BufferRoom
  <2>5. st \in [Proc -> {"ready", "running", "exiting", "exited", "killed"}]
    BY DEF TypeOK
  <2>6. BufferRoom'
    BY <2>3, <2>4, <2>5 DEF BufferRoom
  <2> QED  BY <2>2, <2>6
<1>2. CASE Trace(p)
  <2>1. PICK b \in BlockIds :
          LET buf == Append(buffer[p], b) IN
          /\ buffer' = [buffer EXCEPT ![p] = buf]
          /\ IF BufferFull(buf)
             THEN Deliver(p, [kind |-> "trace", data |-> buf])
             ELSE UNCHANGED <<packet, todo>>
    BY <1>2 DEF Trace
  <2> DEFINE buf == Append(buffer[p], b)
  <2>2. b \in Word
    BY ProgramAssumption
  <2>3. /\ st[p] = "running" /\ todo[p] = <<>>
        /\ buffer \in [Proc -> Seq(Word)] /\ hits \in [Proc -> Nat]
        /\ \A q \in Proc : Len(buffer[q]) <= BufferSize
        /\ Len(buffer[p]) < BufferSize
    BY <1>2 DEF Trace, TypeOK, BufferRoom
  <2>4. buf \in Seq(Word) /\ Len(buf) = Len(buffer[p]) + 1 /\ Len(buf) <= BufferSize
    BY <2>2, <2>3, <1>0
  <2>5. Len(buf) \in Word
    BY <2>4, <1>0 DEF Word
  <2>6. buffer' = [buffer EXCEPT ![p] = buf]
        /\ IF BufferFull(buf)
           THEN Deliver(p, [kind |-> "trace", data |-> buf])
           ELSE UNCHANGED <<packet, todo>>
    BY <2>1
  <2> HIDE DEF buf
  <2>7. /\ packet' \in [Proc -> Packet] /\ todo' \in [Proc -> Seq(Seq(Word))]
        /\ IF Len(buf) = BufferSize
           THEN todo'[p] # <<>> /\ packet'[p].kind = "trace"
           ELSE todo'[p] = <<>>
        /\ \A q \in Proc \ {p} : todo'[q] = todo[q] /\ packet'[q] = packet[q]
    <3>1. CASE BufferFull(buf)
      <4>1. Deliver(p, [kind |-> "trace", data |-> buf])
        BY <2>6, <3>1
      <4> QED  BY <4>1, <3>1, <2>4, <2>5, DeliverType DEF BufferFull
    <3>2. CASE ~BufferFull(buf)
      BY <3>2, <2>3, <2>6 DEF BufferFull, TypeOK
    <3> QED  BY <3>1, <3>2
  <2>8. buffer' \in [Proc -> Seq(Word)] /\ \A q \in Proc : Len(buffer'[q]) <= BufferSize
    BY <2>3, <2>4, <2>6
  <2>9. UNCHANGED <<file, st, handlers, off, deposited, torn, loaderVars>>
        /\ hits' = [hits EXCEPT ![p] = @ + 1]
    BY <1>2 DEF Trace
  <2>10. TypeOK'
    BY <2>3, <2>7, <2>8, <2>9 DEF TypeOK
  <2>11. ASSUME NEW q \in Proc
         PROVE  /\ st'[q] = "ready" => todo'[q] = <<>> /\ buffer'[q] = <<>>
                /\ st'[q] = "running" /\ todo'[q] = <<>> => Len(buffer'[q]) < BufferSize
                /\ st'[q] = "running" /\ todo'[q] # <<>> => packet'[q].kind = "trace"
    <3>1. CASE q = p
      <4>1. st'[p] = "running" /\ buffer'[p] = buf
        BY <2>3, <2>6, <2>9
      <4>2. Len(buf) \in Nat /\ BufferSize \in Nat
        BY <2>4, <1>0
      <4> QED  BY <3>1, <4>1, <4>2, <2>4, <2>7
    <3>2. CASE q # p
      <4>1. st'[q] = st[q] /\ buffer'[q] = buffer[q] /\ todo'[q] = todo[q] /\ packet'[q] = packet[q]
        BY <3>2, <2>3, <2>6, <2>7, <2>9
      <4> QED  BY <4>1 DEF BufferRoom
    <3> QED  BY <3>1, <3>2
  <2>12. BufferRoom'
    BY <2>11 DEF BufferRoom
  <2> QED  BY <2>10, <2>12
<1>3. CASE Exit(p)
  BY <1>3 DEF Exit, TypeOK, BufferRoom
<1>4. CASE Kill(p)
  <2>1. torn' \subseteq Nat
    BY <1>4, TearType DEF Kill
  <2>2. st' = [st EXCEPT ![p] = "killed"]
        /\ UNCHANGED <<file, handlers, off, packet, todo, buffer, hits, deposited, loaderVars>>
    BY <1>4 DEF Kill
  <2> QED  BY <2>1, <2>2 DEF TypeOK, BufferRoom
<1>5. CASE RunHandler(p)
  <2> DEFINE k == Last(handlers[p])
  <2>1. /\ handlers[p] \in Seq({"edge", "opt", "trace"}) /\ handlers[p] # <<>>
        /\ buffer[p] \in Seq(Word) /\ Len(buffer[p]) <= BufferSize
        /\ st[p] = "exiting"
    BY <1>5 DEF RunHandler, TypeOK
  <2>2. k \in {"edge", "opt", "trace"}
    BY <2>1 DEF Last
  <2>3. PICK d \in Seq(Word) : Len(d) \in Word /\ Deliver(p, [kind |-> k, data |-> d])
    <3>1. CASE k = "trace"
      <4>1. Len(buffer[p]) \in Word
        BY <2>1, <1>0 DEF Word
      <4>2. Deliver(p, [kind |-> k, data |-> buffer[p]])
        BY <3>1, <1>5 DEF RunHandler
      <4> QED  BY <2>1, <4>1, <4>2
    <3>2. CASE k # "trace"
      <4>1. \E v \in Vectors[k] : Deliver(p, [kind |-> k, data |-> v])
        BY <3>2, <1>5 DEF RunHandler
      <4>2. \A v \in Vectors[k] : v \in Seq(Word) /\ Len(v) \in Word
        BY <2>2, <3>2, ProgramAssumption
      <4> QED  BY <4>1, <4>2
    <3> QED  BY <3>1, <3>2
  <2>4. Front(handlers[p]) \in Seq({"edge", "opt", "trace"})
    BY <2>1 DEF Front
  <2>5. handlers' = [handlers EXCEPT ![p] = Front(handlers[p])]
        /\ UNCHANGED <<file, st, off, buffer, hits, deposited, torn, loaderVars>>
    BY <1>5 DEF RunHandler, RemainingHandlers
  <2>6. handlers' \in [Proc -> Seq({"edge", "opt", "trace"})]
    BY <2>4, <2>5 DEF TypeOK
  <2> HIDE DEF k
  <2>7. /\ packet' \in [Proc -> Packet] /\ todo' \in [Proc -> Seq(Seq(Word))]
        /\ \A q \in Proc \ {p} : todo'[q] = todo[q] /\ packet'[q] = packet[q]
    BY <2>2, <2>3, DeliverType
  <2>8. TypeOK'
    BY <2>5, <2>6, <2>7 DEF TypeOK
  <2>9. BufferRoom'
    BY <2>1, <2>5, <2>7 DEF BufferRoom
  <2> QED  BY <2>8, <2>9
<1>6. CASE Finish(p)
  BY <1>6 DEF Finish, TypeOK, BufferRoom
<1>7. CASE OpenFile(p)
  <2>1. ArgsWrites \o todo[p] \in Seq(Seq(Word)) /\ ArgsWrites \o todo[p] # <<>>
    <3>1. ArgsWrites \in Seq(Seq(Word)) /\ todo[p] \in Seq(Seq(Word)) /\ todo[p] # <<>>
      BY <1>7, WritesAreWords DEF OpenFile, TypeOK
    <3> QED  BY <3>1, ConcatProperties, ConcatEqualIffEmpty
  <2>2. /\ off' = [off EXCEPT ![p] = Len(file)]
        /\ todo' = [todo EXCEPT ![p] = ArgsWrites \o todo[p]]
        /\ todo[p] # <<>>
        /\ UNCHANGED <<file, st, handlers, packet, buffer, hits, deposited, torn, loaderVars>>
    BY <1>7 DEF OpenFile, EndOfFile
  <2>3. off' \in [Proc -> Nat \cup {Closed}] /\ \A q \in Proc : off'[q] <= Len(file)
    BY <2>2 DEF TypeOK
  <2>4. todo' \in [Proc -> Seq(Seq(Word))]
    BY <2>1, <2>2 DEF TypeOK
  <2>5. TypeOK'
    BY <2>2, <2>3, <2>4 DEF TypeOK
  <2>6. \A q \in Proc : todo'[q] = <<>> <=> todo[q] = <<>>
    BY <2>1, <2>2 DEF TypeOK
  <2>7. Active(p)
    BY <1>7 DEF OpenFile
  <2>8. BufferRoom'
    BY <2>2, <2>6 DEF BufferRoom
  <2> QED  BY <2>5, <2>8
<1>8. CASE OpenFails(p)
  <2>1. GiveUp(p) /\ UNCHANGED <<file, handlers, off, buffer, hits, deposited, torn, loaderVars>>
    BY <1>8 DEF OpenFails
  <2>2. /\ st' \in [Proc -> {"ready", "running", "exiting", "exited", "killed"}]
        /\ packet' \in [Proc -> Packet]
        /\ todo' \in [Proc -> Seq(Seq(Word))]
        /\ BufferRoom'
    BY <2>1, GiveUpType
  <2> QED  BY <2>1, <2>2 DEF TypeOK
<1>9. CASE Write(p)
  <2>1. /\ off[p] \in Nat /\ off[p] <= Len(file) /\ file \in Seq(Word)
        /\ todo[p] \in Seq(Seq(Word)) /\ todo[p] # <<>> /\ Head(todo[p]) \in Seq(Word)
    <3>1. todo[p] \in Seq(Seq(Word)) /\ todo[p] # <<>>
      BY <1>9 DEF Write, TypeOK
    <3>2. Head(todo[p]) \in Seq(Word)
      BY <3>1, HeadTailProperties
    <3> QED  BY <1>9, <3>1, <3>2 DEF Write, TypeOK
  <2> DEFINE ws == Head(todo[p])
  <2>2. /\ WriteAt(off[p], ws) /\ AfterWrite(p)
        /\ off' = [off EXCEPT ![p] = off[p] + Len(ws)]
        /\ deposited' = deposited \o Completed(p)
        /\ UNCHANGED <<st, handlers, hits, torn, loaderVars>>
    BY <1>9 DEF Write
  <2> HIDE DEF ws
  <2>3. ws \in Seq(Word)
    BY <2>1 DEF ws
  <2>4. file' \in Seq(Word) /\ Len(file) <= Len(file') /\ off[p] + Len(ws) <= Len(file')
    BY <2>1, <2>2, <2>3, WriteAtKeeps
  <2>5. off' \in [Proc -> Nat \cup {Closed}] /\ \A q \in Proc : off'[q] <= Len(file')
    <3>1. off \in [Proc -> Nat \cup {-1}] /\ \A q \in Proc : off[q] <= Len(file)
      BY DEF TypeOK, Closed
    <3>2. off[p] + Len(ws) \in Nat /\ Len(file) \in Nat /\ Len(file') \in Nat
      BY <2>1, <2>3, <2>4
    <3>3. off' = [off EXCEPT ![p] = off[p] + Len(ws)]
      BY <2>2
    <3> HIDE DEF ws
    <3>4. off' \in [Proc -> Nat \cup {-1}]
      BY <3>1, <3>2, <3>3
    <3>5. off[p] + Len(ws) <= Len(file')
      BY <2>3, <2>4
    <3>6. ASSUME NEW q \in Proc
          PROVE  off'[q] <= Len(file')
      <4>1. off'[q] = IF q = p THEN off[p] + Len(ws) ELSE off[q]
        BY <3>1, <3>3
      <4>2. off[q] \in Int /\ off[q] <= Len(file) /\ Len(file) <= Len(file')
        BY <3>1, <2>4
      <4> QED  BY <4>1, <4>2, <3>2, <3>5
    <3> QED  BY <3>4, <3>6 DEF Closed
  <2>6. deposited' \in Seq(Packet)
    BY <2>2, CompletedType, ConcatProperties DEF TypeOK
  <2>7. /\ todo' \in [Proc -> Seq(Seq(Word))]
        /\ packet' \in [Proc -> Packet]
        /\ buffer' \in [Proc -> Seq(Word)]
        /\ \A q \in Proc : Len(buffer'[q]) <= BufferSize
        /\ BufferRoom'
    BY <2>1, <2>2, AfterWriteType
  <2>8. lpos' \in 0 .. Len(file')
    BY <2>1, <2>2, <2>4 DEF TypeOK
  <2> QED  BY <2>2, <2>4, <2>5, <2>6, <2>7, <2>8 DEF TypeOK
<1>10. CASE ShortWrite(p)
  <2>1. /\ off[p] \in Nat /\ off[p] <= Len(file) /\ file \in Seq(Word)
        /\ todo[p] \in Seq(Seq(Word)) /\ todo[p] # <<>> /\ Head(todo[p]) \in Seq(Word)
    <3>1. todo[p] \in Seq(Seq(Word)) /\ todo[p] # <<>>
      BY <1>10 DEF ShortWrite, TypeOK
    <3>2. Head(todo[p]) \in Seq(Word)
      BY <3>1, HeadTailProperties
    <3> QED  BY <1>10, <3>1, <3>2 DEF ShortWrite, TypeOK
  <2>2. PICK n \in 0 .. (Len(Head(todo[p])) - 1) :
          /\ WriteAt(off[p], SubSeq(Head(todo[p]), 1, n))
          /\ off' = [off EXCEPT ![p] = off[p] + n]
          /\ torn' = torn \cup {off[p] + n}
    BY <1>10 DEF ShortWrite
  <2> DEFINE ws == SubSeq(Head(todo[p]), 1, n)
  <2>3. ws \in Seq(Word) /\ Len(ws) = n /\ n \in Nat
    BY <2>1, <2>2
  <2>4. WriteAt(off[p], ws)
    BY <2>2
  <2>5. AfterWrite(p) /\ UNCHANGED <<st, handlers, hits, deposited, loaderVars>>
    BY <1>10 DEF ShortWrite
  <2> HIDE DEF ws
  <2>6. file' \in Seq(Word) /\ Len(file) <= Len(file') /\ off[p] + Len(ws) <= Len(file')
    BY <2>1, <2>3, <2>4, WriteAtKeeps
  <2>7. off' \in [Proc -> Nat \cup {Closed}] /\ \A q \in Proc : off'[q] <= Len(file')
    <3>1. off \in [Proc -> Nat \cup {-1}] /\ \A q \in Proc : off[q] <= Len(file)
      BY DEF TypeOK, Closed
    <3>2. off[p] + n \in Nat /\ Len(file) \in Nat /\ Len(file') \in Nat
      BY <2>1, <2>3, <2>6
    <3>3. off' = [off EXCEPT ![p] = off[p] + n]
      BY <2>2
    <3> HIDE DEF ws
    <3>4. off' \in [Proc -> Nat \cup {-1}]
      BY <3>1, <3>2, <3>3
    <3>5. off[p] + n <= Len(file')
      BY <2>3, <2>6
    <3>6. ASSUME NEW q \in Proc
          PROVE  off'[q] <= Len(file')
      <4>1. off'[q] = IF q = p THEN off[p] + n ELSE off[q]
        BY <3>1, <3>3
      <4>2. off[q] \in Int /\ off[q] <= Len(file) /\ Len(file) <= Len(file')
        BY <3>1, <2>6
      <4> QED  BY <4>1, <4>2, <3>2, <3>5
    <3> QED  BY <3>4, <3>6 DEF Closed
  <2>8. torn' \subseteq Nat
    <3>1. off[p] + n \in Nat
      BY <2>1, <2>3
    <3> QED  BY <2>2, <3>1 DEF TypeOK
  <2>9. /\ todo' \in [Proc -> Seq(Seq(Word))]
        /\ packet' \in [Proc -> Packet]
        /\ buffer' \in [Proc -> Seq(Word)]
        /\ \A q \in Proc : Len(buffer'[q]) <= BufferSize
        /\ BufferRoom'
    BY <2>1, <2>5, AfterWriteType
  <2>10. lpos' \in 0 .. Len(file')
    BY <2>1, <2>5, <2>6 DEF TypeOK
  <2> QED  BY <2>5, <2>6, <2>7, <2>8, <2>9, <2>10 DEF TypeOK
<1>11. CASE WriteFails(p)
  <2>1. /\ GiveUp(p) /\ Tear(p, off[p])
        /\ UNCHANGED <<file, handlers, off, buffer, hits, deposited, loaderVars>>
    BY <1>11 DEF WriteFails
  <2>2. /\ st' \in [Proc -> {"ready", "running", "exiting", "exited", "killed"}]
        /\ packet' \in [Proc -> Packet]
        /\ todo' \in [Proc -> Seq(Seq(Word))]
        /\ BufferRoom'
    BY <2>1, GiveUpType
  <2>3. torn' \subseteq Nat
    BY <2>1, TearType
  <2> QED  BY <2>1, <2>2, <2>3 DEF TypeOK
<1> QED
  BY <1>1, <1>2, <1>3, <1>4, <1>5, <1>6, <1>7, <1>8, <1>9, <1>10, <1>11 DEF Run, Proceed

LEMMA TypeLoad ==
  ASSUME TypeOK, BufferRoom, LoaderOpen \/ Read
  PROVE  TypeOK' /\ BufferRoom'
<1> USE DEF runVars
<1>1. UNCHANGED <<file, st, handlers, off, packet, todo, buffer, hits, deposited, torn>>
  BY DEF Read, LoaderOpen, LoaderDone, ReadArguments, ReadBlock, ReadUnknown
<1>2. BufferRoom'
  BY <1>1 DEF BufferRoom
<1>3. file \in Seq(Word) /\ lpos \in Nat /\ lpos <= Len(file) /\ Len(file) \in Nat
  BY DEF TypeOK
<1>A. ASSUME lpos' \in 0 .. Len(file), counts' \in [BlockKind -> Seq(Word)],
             lines' \in Nat, lst' \in {"idle", "reading", "done", "failed"}
      PROVE  TypeOK'
  <2>1. file' = file /\ st' = st /\ handlers' = handlers /\ off' = off
    BY <1>1
  <2>2. packet' = packet /\ todo' = todo /\ buffer' = buffer /\ hits' = hits
    BY <1>1
  <2>3. deposited' = deposited /\ torn' = torn
    BY <1>1
  <2> QED  BY <1>A, <2>1, <2>2, <2>3 DEF TypeOK
<1>B. lpos \in 0 .. Len(file) /\ counts \in [BlockKind -> Seq(Word)] /\ lines \in Nat
      /\ lst \in {"idle", "reading", "done", "failed"}
  BY DEF TypeOK
<1>4. ASSUME lpos' = lpos, counts' = counts, lines' = lines,
             lst' \in {"idle", "reading", "done", "failed"}
      PROVE  TypeOK'
  BY <1>4, <1>A, <1>B
<1>5. CASE LoaderOpen
  BY <1>2, <1>4, <1>5 DEF LoaderOpen
<1>6. CASE LoaderDone
  BY <1>2, <1>4, <1>6 DEF LoaderDone
<1>7. CASE ReadUnknown
  BY <1>2, <1>4, <1>7 DEF ReadUnknown
<1>8. CASE ReadArguments
  <2> DEFINE n == (file[lpos + 2] + 3) \div 4
  <2>1. /\ IF Truncated(n)
           THEN lst' = "failed" /\ UNCHANGED <<lpos, lines>>
           ELSE lpos' = lpos + 2 + n /\ lines' = lines + 1 /\ UNCHANGED lst
        /\ UNCHANGED counts
    BY <1>8 DEF ReadArguments
  <2>2. CASE Truncated(n)
    BY <1>2, <1>4, <2>1, <2>2
  <2>3. CASE ~Truncated(n)
    <3>1. Len(file) - lpos >= 2
      BY <2>3, <1>3 DEF Truncated, Rest
    <3>2. file[lpos + 2] \in Nat
      <4>1. lpos + 2 \in 1 .. Len(file)
        BY <3>1, <1>3
      <4>2. file[lpos + 2] \in Word
        BY <4>1, <1>3
      <4> QED  BY <4>2 DEF Word
    <3>3. n \in Nat
      BY <3>2
    <3> HIDE DEF n
    <3>4. lpos' \in 0 .. Len(file)
      BY <2>1, <2>3, <3>1, <3>3, <1>3 DEF Truncated, Rest
    <3>5. lines' \in Nat /\ lst' = lst /\ counts' = counts
      BY <2>1, <2>3 DEF TypeOK
    <3> QED  BY <1>2, <1>A, <1>B, <3>4, <3>5
  <2> QED  BY <2>2, <2>3
<1>9. ASSUME NEW k \in BlockKind, ReadBlock(k)
      PROVE  TypeOK'
  <2> DEFINE n == file[lpos + 2]
  <2> DEFINE ws == SubSeq(file, lpos + 3, lpos + 2 + n)
  <2>1. /\ IF Truncated(n) \/ n = 0
           THEN lst' = "failed" /\ UNCHANGED <<lpos, counts>>
           ELSE /\ counts' = [counts EXCEPT ![k] = Accumulate(counts[k], ws)]
                /\ lpos' = lpos + 2 + n
                /\ UNCHANGED lst
        /\ UNCHANGED lines
    BY <1>9 DEF ReadBlock, AfterBlock
  <2>2. CASE Truncated(n) \/ n = 0
    BY <1>2, <1>4, <2>1, <2>2
  <2>3. CASE ~(Truncated(n) \/ n = 0)
    <3>1. Len(file) - lpos >= 2
      BY <2>3, <1>3 DEF Truncated, Rest
    <3>2. n \in Nat
      <4>1. lpos + 2 \in 1 .. Len(file)
        BY <3>1, <1>3
      <4>2. file[lpos + 2] \in Word
        BY <4>1, <1>3
      <4> QED  BY <4>2 DEF Word
    <3>3. Len(file) - lpos >= 2 + n
      <4> HIDE DEF n
      <4> QED  BY <2>3, <3>2, <1>3 DEF Truncated, Rest
    <3>4. ws \in Seq(Word)
      <4> HIDE DEF n
      <4>1. \A x \in (lpos + 3) .. (lpos + 2 + n) : x \in 1 .. Len(file)
        BY <1>3, <3>2, <3>3
      <4>2. \A x \in (lpos + 3) .. (lpos + 2 + n) : file[x] \in Word
        BY <4>1, <1>3
      <4>3. lpos + 3 \in Int /\ lpos + 2 + n \in Int
        BY <1>3, <3>2
      <4> QED  BY <4>2, <4>3, SubSeqProperties
    <3> HIDE DEF n, ws
    <3>5. lpos' \in 0 .. Len(file)
      BY <2>1, <2>3, <3>2, <3>3, <1>3
    <3>6. counts[k] \in Seq(Word)
      BY DEF TypeOK
    <3>7. Accumulate(counts[k], ws) \in Seq(Word)
      BY <3>4, <3>6, AccumulateType
    <3>8. counts' \in [BlockKind -> Seq(Word)]
      BY <2>1, <2>3, <3>7 DEF TypeOK
    <3>9. lines' = lines /\ lst' = lst
      BY <2>1, <2>3
    <3> QED  BY <1>A, <1>B, <3>5, <3>8, <3>9
  <2> QED  BY <2>2, <2>3
<1> QED  BY <1>2, <1>5, <1>6, <1>7, <1>8, <1>9 DEF Read

\* For all programs, buffer sizes and faults: the variables keep their types.
\* In particular the trace buffer is never overrun, the loader never reads
\* behind the end of the file, and sums stay words.
THEOREM TypeCorrect == Spec => [](TypeOK /\ BufferRoom)
<1>1. TypeOK /\ BufferRoom /\ [Next]_vars => TypeOK' /\ BufferRoom'
  <2> SUFFICES ASSUME TypeOK, BufferRoom, [Next]_vars
               PROVE  TypeOK' /\ BufferRoom'
    OBVIOUS
  <2>1. CASE UNCHANGED vars
    BY <2>1 DEF vars, runVars, loaderVars, TypeOK, BufferRoom
  <2>2. CASE Next
    BY <2>2, TypeRun, TypeLoad DEF Next
  <2> QED  BY <2>1, <2>2
<1> QED  BY TypeInit, <1>1, PTL DEF Spec

-----------------------------------------------------------------------------
\* A step of run p moves no other run, and keeps p at the end of the file.
LEMMA RunStaysAtEnd ==
  ASSUME TypeOK, SingleWriter, NEW p \in Proc, Run(p), "overlap" \notin Faults
  PROVE  /\ \A q \in Proc : st'[q] \in {"running", "exiting"} => q = p
         /\ st'[p] \in {"running", "exiting"} => off'[p] \in {Closed, Len(file')}
         /\ \A q \in Proc \ {p} : st'[q] = st[q] /\ off'[q] = off[q]
         /\ st'[p] # "ready"
<1>1. /\ st \in [Proc -> {"ready", "running", "exiting", "exited", "killed"}]
      /\ off \in [Proc -> Nat \cup {Closed}]
  BY DEF TypeOK
<1>2. CASE Start(p)
  <2>1. \A q \in Proc : st[q] \notin {"running", "exiting"}
    BY <1>2 DEF Start, Active
  <2>2. st' = [st EXCEPT ![p] = "running"] /\ off' = off /\ st[p] = "ready"
    BY <1>2 DEF Start
  <2>3. off[p] = Closed
    BY <2>2 DEF SingleWriter
  <2> QED  BY <1>1, <2>1, <2>2, <2>3
<1>3. ASSUME Active(p),
             \A q \in Proc \ {p} : st'[q] = st[q] /\ off'[q] = off[q],
             st'[p] # "ready",
             off'[p] \in {Closed, Len(file')}
      PROVE  /\ \A q \in Proc : st'[q] \in {"running", "exiting"} => q = p
             /\ st'[p] \in {"running", "exiting"} => off'[p] \in {Closed, Len(file')}
             /\ \A q \in Proc \ {p} : st'[q] = st[q] /\ off'[q] = off[q]
             /\ st'[p] # "ready"
  <2>1. \A q \in Proc \ {p} : ~Active(q)
    BY <1>3 DEF SingleWriter
  <2> QED  BY <1>3, <2>1 DEF Active
<1>4. Active(p) => off[p] \in {Closed, Len(file)}
  BY DEF SingleWriter
<1>5. CASE Trace(p) \/ Exit(p) \/ Kill(p) \/ RunHandler(p) \/ Finish(p)
  <2>1. Active(p) /\ off' = off /\ file' = file
    BY <1>5 DEF Trace, Exit, Kill, RunHandler, Finish, Active
  <2>2. st'[p] # "ready" /\ \A q \in Proc \ {p} : st'[q] = st[q]
    BY <1>1, <1>5 DEF Trace, Exit, Kill, RunHandler, Finish, Active
  <2> QED  BY <1>3, <1>4, <2>1, <2>2
<1>6. CASE OpenFile(p)
  <2>1. Active(p) /\ file' = file /\ st' = st /\ off' = [off EXCEPT ![p] = Len(file)]
    BY <1>6 DEF OpenFile, EndOfFile
  <2>2. st'[p] # "ready" /\ off'[p] = Len(file')
    BY <1>1, <2>1 DEF Active
  <2> QED  BY <1>1, <1>3, <2>1, <2>2
<1>7. CASE OpenFails(p) \/ WriteFails(p)
  <2>1. Active(p) /\ file' = file /\ off' = off /\ st' = [st EXCEPT ![p] = "exiting"]
    BY <1>7 DEF OpenFails, WriteFails, GiveUp
  <2>2. st'[p] # "ready" /\ \A q \in Proc \ {p} : st'[q] = st[q]
    BY <1>1, <2>1
  <2> QED  BY <1>3, <1>4, <2>1, <2>2
<1>8. ASSUME NEW ws \in Seq(Word), Active(p), off[p] # Closed, WriteAt(off[p], ws),
             st' = st, off' = [off EXCEPT ![p] = off[p] + Len(ws)]
      PROVE  /\ st'[p] # "ready"
             /\ \A q \in Proc \ {p} : st'[q] = st[q] /\ off'[q] = off[q]
             /\ off'[p] \in {Closed, Len(file')}
  <2>1. off[p] = Len(file) /\ off[p] \in Nat /\ file \in Seq(Word)
    BY <1>1, <1>4, <1>8 DEF TypeOK
  <2>2. Len(file') = off[p] + Len(ws)
    BY <1>8, <2>1, WriteAtKeeps
  <2> QED  BY <1>1, <1>8, <2>2 DEF Active
<1>9. CASE Write(p)
  <2>1. /\ Active(p) /\ off[p] # Closed /\ WriteAt(off[p], Head(todo[p])) /\ st' = st
        /\ off' = [off EXCEPT ![p] = off[p] + Len(Head(todo[p]))]
    BY <1>9 DEF Write
  <2>2. Head(todo[p]) \in Seq(Word)
    BY <1>9, HeadTailProperties DEF Write, TypeOK
  <2> QED  BY <1>3, <1>8, <2>1, <2>2
<1>10. CASE ShortWrite(p)
  <2>1. todo[p] \in Seq(Seq(Word)) /\ todo[p] # <<>>
    BY <1>10 DEF ShortWrite, TypeOK
  <2>2. Head(todo[p]) \in Seq(Word)
    BY <2>1, HeadTailProperties
  <2>3. PICK n \in 0 .. (Len(Head(todo[p])) - 1) :
          /\ WriteAt(off[p], SubSeq(Head(todo[p]), 1, n))
          /\ off' = [off EXCEPT ![p] = off[p] + n]
    BY <1>10 DEF ShortWrite
  <2> DEFINE ws == SubSeq(Head(todo[p]), 1, n)
  <2>4. ws \in Seq(Word) /\ Len(ws) = n
    BY <2>2, <2>3
  <2>5. WriteAt(off[p], ws)
    BY <2>3
  <2>6. Active(p) /\ off[p] # Closed /\ st' = st
    BY <1>10 DEF ShortWrite
  <2> HIDE DEF ws
  <2>7. off' = [off EXCEPT ![p] = off[p] + Len(ws)]
    BY <2>3, <2>4
  <2> QED  BY <1>3, <1>8, <2>4, <2>5, <2>6, <2>7
<1> QED
  BY <1>2, <1>5, <1>6, <1>7, <1>9, <1>10 DEF Run, Proceed

\* Without overlap the one run that is active stands at the end of the file.
LEMMA SingleWriterStep ==
  ASSUME TypeOK, SingleWriter, [Next]_vars, "overlap" \notin Faults
  PROVE  SingleWriter'
<1>1. CASE UNCHANGED vars
  BY <1>1 DEF vars, runVars, loaderVars, SingleWriter, Active
<1>2. CASE LoaderOpen \/ Read
  <2>1. UNCHANGED <<file, st, off>>
    BY <1>2 DEF LoaderOpen, Read, LoaderDone, ReadArguments, ReadBlock, ReadUnknown, runVars
  <2> QED  BY <2>1 DEF SingleWriter, Active
<1>3. ASSUME NEW p \in Proc, Run(p)
      PROVE  SingleWriter'
  <2>1. /\ \A q \in Proc : st'[q] \in {"running", "exiting"} => q = p
        /\ st'[p] \in {"running", "exiting"} => off'[p] \in {Closed, Len(file')}
        /\ \A q \in Proc \ {p} : st'[q] = st[q] /\ off'[q] = off[q]
        /\ st'[p] # "ready"
    BY <1>3, RunStaysAtEnd
  <2> QED  BY <2>1 DEF SingleWriter, Active
<1> QED  BY <1>1, <1>2, <1>3 DEF Next

LEMMA SingleWriterInit == Init => SingleWriter
  BY DEF Init, SingleWriter, Active

\* A run that stands at the end of the file changes no word of it.
LEMMA RunKeepsWords ==
  ASSUME TypeOK, SingleWriter, NEW p \in Proc, Run(p)
  PROVE  Len(file) <= Len(file') /\ \A n \in 1 .. Len(file) : file'[n] = file[n]
<1>1. file \in Seq(Word) /\ off[p] \in Nat \cup {Closed}
  BY DEF TypeOK
<1>2. CASE file' = file
  BY <1>1, <1>2
<1>3. ASSUME NEW ws \in Seq(Word), Active(p), off[p] # Closed, WriteAt(off[p], ws)
      PROVE  Len(file) <= Len(file') /\ \A n \in 1 .. Len(file) : file'[n] = file[n]
  <2>1. off[p] = Len(file) /\ off[p] \in Nat
    BY <1>1, <1>3 DEF SingleWriter
  <2> QED  BY <1>1, <1>3, <2>1, WriteAtKeeps
<1>4. CASE Write(p)
  <2>1. Head(todo[p]) \in Seq(Word)
    BY <1>4, HeadTailProperties DEF Write, TypeOK
  <2> QED  BY <1>3, <1>4, <2>1 DEF Write
<1>5. CASE ShortWrite(p)
  <2>1. todo[p] \in Seq(Seq(Word)) /\ todo[p] # <<>>
    BY <1>5 DEF ShortWrite, TypeOK
  <2>2. Head(todo[p]) \in Seq(Word)
    BY <2>1, HeadTailProperties
  <2>3. PICK n \in 0 .. (Len(Head(todo[p])) - 1) :
          WriteAt(off[p], SubSeq(Head(todo[p]), 1, n))
    BY <1>5 DEF ShortWrite
  <2>4. SubSeq(Head(todo[p]), 1, n) \in Seq(Word)
    BY <2>2, <2>3
  <2>5. Active(p) /\ off[p] # Closed
    BY <1>5 DEF ShortWrite
  <2> QED  BY <1>3, <2>3, <2>4, <2>5
<1>6. file' = file \/ Write(p) \/ ShortWrite(p)
  BY DEF Run, Proceed, Start, Trace, Exit, Kill, RunHandler, Finish, OpenFile, OpenFails, WriteFails
<1> QED  BY <1>2, <1>4, <1>5, <1>6

\* For any number of runs, of any program, in any order, killed or cut short
\* anywhere: as long as no two of them overlap in time, the words that are in
\* the profile file stay as they are.
THEOREM FileOnlyGrows ==
  ASSUME "overlap" \notin Faults
  PROVE  Spec => AppendOnly
<1>1. Init => SingleWriter
  BY SingleWriterInit
<1>2. TypeOK /\ SingleWriter /\ [Next]_vars => SingleWriter'
  BY SingleWriterStep
<1>3. TypeOK /\ SingleWriter /\ [Next]_vars
        => [/\ Len(file) <= Len(file')
            /\ \A n \in 1 .. Len(file) : file'[n] = file[n]]_file
  <2> SUFFICES ASSUME TypeOK, SingleWriter, [Next]_vars, file' # file
               PROVE  /\ Len(file) <= Len(file')
                      /\ \A n \in 1 .. Len(file) : file'[n] = file[n]
    OBVIOUS
  <2>1. PICK p \in Proc : Run(p)
    BY DEF Next, vars, LoaderOpen, Read, LoaderDone, ReadArguments, ReadBlock, ReadUnknown
  <2> QED  BY <2>1, RunKeepsWords
<1>4. Spec => [](TypeOK /\ BufferRoom)
  BY TypeCorrect
<1> QED  BY <1>1, <1>2, <1>3, <1>4, PTL DEF Spec, AppendOnly

-----------------------------------------------------------------------------
(* Where the packets are *)

\* The two words before the data of a packet
HeaderWord(q) == IF q.kind = "args" THEN ArgumentInfo ELSE TypeOf[q.kind]
LengthWord(q) == IF q.kind = "args" THEN ArgBytes ELSE Len(q.data)

\* Packet q is in f behind place o.
PacketIn(f, o, q) ==
  /\ o + 2 + Len(q.data) <= Len(f)
  /\ f[o + 1] = HeaderWord(q)
  /\ f[o + 2] = LengthWord(q)
  /\ \A i \in 1 .. Len(q.data) : f[o + 2 + i] = q.data[i]

\* The first m packets are the beginning of f, the n-th behind place[n].
Laid(f, packets, place, m) ==
  /\ place[1] = 0
  /\ \A n \in 1 .. m : /\ place[n + 1] = place[n] + 2 + Len(packets[n].data)
                       /\ PacketIn(f, place[n], packets[n])

\* The write() calls that remain are the last of those of the packet, and of
\* the arguments before it if the file was just opened.
CountedKind == {"edge", "opt", "trace"}

AllWrites(q) == << <<ArgumentInfo>>, <<ArgBytes>>, ArgWords,
                   <<TypeOf[q.kind]>>, <<Len(q.data)>>, q.data >>

Expected(calls, q, o) ==
  /\ Len(calls) \in 0 .. 6
  /\ o = Closed => Len(calls) \in {0, 3}
  /\ calls # <<>> => q.kind \in CountedKind /\ q.data \in Seq(Word) /\ Len(q.data) \in Word
  /\ \A i \in 1 .. Len(calls) : calls[i] = AllWrites(q)[6 - Len(calls) + i]

Pending == \A p \in Proc : Expected(todo[p], packet[p], off[p])

\* What is deposited is what handlers deliver, and arguments.
Storable(q) == \/ q = ArgsPacket
               \/ q.kind \in CountedKind /\ q.data \in Seq(Word) /\ Len(q.data) \in Word

StoredPackets == \A n \in 1 .. Len(deposited) : Storable(deposited[n])

\* The packet run p is at, and whether it has written a part of it.
Current(p) == IF Len(todo[p]) > 3 THEN ArgsPacket ELSE packet[p]

Writing(p) == Active(p) /\ MidPacket(p)

\* Behind place t, the end of the packets, are the first words of the packet
\* that is being written, and nothing when none is.
Begun(t) ==
  /\ \A p \in Proc : Writing(p) =>
       /\ file[t + 1] = HeaderWord(Current(p))
       /\ Len(todo[p]) \in {2, 5} => Len(file) = t + 1
       /\ Len(todo[p]) \in {1, 4} => Len(file) = t + 2 /\ file[t + 2] = LengthWord(Current(p))
  /\ (\A p \in Proc : ~Writing(p)) => Len(file) = t

\* What is in f behind place t is not a packet, and the loader can tell.
Incomplete(f, t) ==
  \/ Len(f) = t + 1
  \/ /\ Len(f) >= t + 2
     /\ \/ f[t + 1] = ArgumentInfo /\ (f[t + 2] + 3) \div 4 > Len(f) - (t + 2)
        \/ \E k \in BlockKind : /\ f[t + 1] = TypeOf[k]
                                /\ f[t + 2] = 0 \/ f[t + 2] > Len(f) - (t + 2)

\* A packet without counters
Hollow(q) == q.kind \in BlockKind /\ q.data = <<>>

\* How the file ends behind the first m packets: whole, or torn at its end.
Ends(t, m) ==
  \/ torn = {} /\ m = Len(deposited) /\ Begun(t)
  \/ /\ torn = {Len(file)}
     /\ \/ Incomplete(file, t)
        \/ Len(file) = t /\ \A n \in (m + 1) .. Len(deposited) : Hollow(deposited[n])

\* The sum of counter c over the packets of kind k among the first j
Known(packets, j, k, c) ==
  {n \in 1 .. j : /\ packets[n].kind = k
                  /\ c \in DOMAIN packets[n].data
                  /\ packets[n].data[c] # Uncounted}

Values(packets, j, k, c) == [n \in Known(packets, j, k, c) |-> packets[n].data[c]]

Partial(packets, j, k, c) ==
  SumFunctionOnSet(Values(packets, j, k, c), Known(packets, j, k, c))

Arguments(packets, j) == {n \in 1 .. j : packets[n].kind = "args"}

\* res and runs are what the first j packets add up to.
Wide(packets, j, k, w) ==
  /\ \A n \in 1 .. j : packets[n].kind = k => Len(packets[n].data) <= w
  /\ w = 0 \/ \E n \in 1 .. j : packets[n].kind = k /\ Len(packets[n].data) = w

Exact(packets, j, k, c, v) ==
  /\ Known(packets, j, k, c) = {} => v = Uncounted
  /\ Known(packets, j, k, c) # {} /\ Partial(packets, j, k, c) < Uncounted
       => v = Partial(packets, j, k, c)

Loaded(packets, j, res, runs) ==
  /\ runs = Cardinality(Arguments(packets, j))
  /\ \A n \in 1 .. j : ~Hollow(packets[n])
  /\ \A k \in BlockKind :
       /\ Wide(packets, j, k, Len(res[k]))
       /\ \A c \in 1 .. Len(res[k]) : Exact(packets, j, k, c, res[k][c])

\* Unless something was written behind a torn packet: the first m packets are
\* in the file, and the first j of them are loaded.
Position(place, m, j) ==
  /\ place \in [Nat -> Nat] /\ m \in Nat /\ j \in Nat
  /\ j <= m /\ m <= Len(deposited)
  /\ Laid(file, deposited, place, m)
  /\ Ends(place[m + 1], m)
  /\ lpos = place[j + 1]
  /\ Loaded(deposited, j, counts, lines)

FileInv == torn \subseteq {Len(file)} => \E place, m, j : Position(place, m, j)

\* No place where a packet was left incomplete is behind the end of the file.
TornPlaces == \A x \in torn : x <= Len(file)

Base == TypeOK /\ BufferRoom /\ Pending /\ SingleWriter /\ StoredPackets /\ TornPlaces

-----------------------------------------------------------------------------
(* The calls a run has still to make *)

\* No call is pending for a packet that is given up or delivered.
LEMMA NothingExpected == \A q, o : Expected(<<>>, q, o)
  BY DEF Expected

\* A packet that is delivered is to be written by three calls.
LEMMA DeliveredExpected ==
  ASSUME NEW k \in CountedKind, NEW d \in Seq(Word), Len(d) \in Word, NEW o
  PROVE  Expected(PacketWrites([kind |-> k, data |-> d]), [kind |-> k, data |-> d], o)
<1> DEFINE q == [kind |-> k, data |-> d]
<1>1. q.kind = k /\ q.data = d
  OBVIOUS
<1> HIDE DEF q
<1> DEFINE c == PacketWrites(q)
<1>2. Len(c) = 3 /\ c[1] = <<TypeOf[q.kind]>> /\ c[2] = <<Len(q.data)>> /\ c[3] = q.data
  BY DEF PacketWrites
<1>3. /\ AllWrites(q)[4] = <<TypeOf[q.kind]>> /\ AllWrites(q)[5] = <<Len(q.data)>>
      /\ AllWrites(q)[6] = q.data
  BY DEF AllWrites
<1> HIDE DEF c
<1>4. ASSUME NEW i \in 1 .. 3
      PROVE  c[i] = AllWrites(q)[6 - 3 + i]
  <2>1. i = 1 \/ i = 2 \/ i = 3
    OBVIOUS
  <2>2. 6 - 3 + 1 = 4 /\ 6 - 3 + 2 = 5 /\ 6 - 3 + 3 = 6
    OBVIOUS
  <2> QED
    BY <1>2, <1>3, <2>1, <2>2, Zenon
<1>5. Expected(c, q, o)
  BY <1>1, <1>2, <1>4 DEF Expected
<1> QED
  BY <1>5 DEF c, q

\* A call that was made leaves the ones behind it.
LEMMA TailExpected ==
  ASSUME NEW c \in Seq(Seq(Word)), c # <<>>, NEW q, NEW q2, NEW o, NEW o2, o # Closed, o2 # Closed,
         Expected(c, q, o), Len(c) # 1 => q2 = q
  PROVE  Expected(Tail(c), q2, o2)
<1>1. Len(c) \in 1 .. 6 /\ Tail(c) \in Seq(Seq(Word)) /\ Len(Tail(c)) = Len(c) - 1
  BY HeadTailProperties, EmptyIffNoLength DEF Expected
<1>2. CASE Len(c) = 1
  <2>1. Tail(c) = <<>>
    <3>1. Tail(c) \in Seq(Seq(Word)) /\ Len(Tail(c)) = 0
      BY <1>1, <1>2
    <3> QED
      BY <3>1, EmptyIffNoLength, Zenon
  <2> QED
    BY <2>1, NothingExpected
<1>3. CASE Len(c) # 1
  <2> DEFINE t == Tail(c)
  <2>1. \A i \in 1 .. Len(c) - 1 : t[i] = c[i + 1]
    OBVIOUS
  <2>2. t \in Seq(Seq(Word)) /\ Len(t) = Len(c) - 1
    BY <1>1
  <2> HIDE DEF t
  <2>3. ASSUME NEW i \in 1 .. Len(t)
        PROVE  t[i] = AllWrites(q)[6 - Len(t) + i]
    <3>1. i + 1 \in 1 .. Len(c) /\ 6 - Len(c) + (i + 1) = 6 - Len(t) + i
      BY <1>1, <2>2
    <3>2. c[i + 1] = AllWrites(q)[6 - Len(c) + (i + 1)]
      BY <3>1 DEF Expected
    <3>3. t[i] = c[i + 1]
      BY <1>1, <2>1, <2>2
    <3> QED
      BY <3>1, <3>2, <3>3, Zenon
  <2>4. Expected(t, q, o2)
    <3>1. q.kind \in CountedKind /\ q.data \in Seq(Word) /\ Len(q.data) \in Word
      BY DEF Expected
    <3>2. Len(t) \in 0 .. 6
      <4>1. Len(c) \in 1 .. 6 /\ Len(t) = Len(c) - 1
        BY <1>1, <2>2, Zenon
      <4>2. \A x \in 1 .. 6 : x - 1 \in 0 .. 6
        OBVIOUS
      <4> QED
        BY <4>1, <4>2, Zenon
    <3> QED
      BY <2>3, <3>1, <3>2, Zenon DEF Expected
  <2> QED
    BY <1>3, <2>4 DEF t
<1> QED
  BY <1>2, <1>3

\* When the file is opened, the arguments come before the packet.
LEMMA OpenedExpected ==
  ASSUME NEW c \in Seq(Seq(Word)), c # <<>>, NEW q, NEW o, Expected(c, q, Closed), o # Closed
  PROVE  Expected(ArgsWrites \o c, q, o) /\ Len(ArgsWrites \o c) = 6
<1>1. Len(c) = 3
  BY EmptyIffNoLength DEF Expected
<1> DEFINE t == ArgsWrites \o c
<1>2. /\ ArgsWrites \in Seq(Seq(Word)) /\ Len(ArgsWrites) = 3
      /\ ArgsWrites[1] = <<ArgumentInfo>> /\ ArgsWrites[2] = <<ArgBytes>>
      /\ ArgsWrites[3] = ArgWords
  BY WritesAreWords DEF ArgsWrites
<1>3. /\ t \in Seq(Seq(Word)) /\ Len(t) = 6
      /\ \A i \in 1 .. 3 : t[i] = ArgsWrites[i]
      /\ \A i \in 4 .. 6 : t[i] = c[i - 3]
  <2> DEFINE a == ArgsWrites
  <2>1. a \in Seq(Seq(Word)) /\ Len(a) = 3 /\ t = a \o c
    BY <1>2
  <2> HIDE DEF a, t
  <2>2. /\ t \in Seq(Seq(Word)) /\ Len(t) = Len(a) + Len(c)
        /\ \A i \in 1 .. Len(a) + Len(c) : t[i] = IF i <= Len(a) THEN a[i] ELSE c[i - Len(a)]
    BY <2>1, ConcatProperties, Zenon
  <2>3. Len(t) = 6 /\ \A i \in 1 .. 6 : t[i] = IF i <= 3 THEN a[i] ELSE c[i - 3]
    BY <1>1, <2>1, <2>2
  <2>4. \A i \in 1 .. 3 : i \in 1 .. 6 /\ i <= 3
    OBVIOUS
  <2>5. \A i \in 4 .. 6 : i \in 1 .. 6 /\ ~(i <= 3)
    OBVIOUS
  <2> QED
    BY <2>2, <2>3, <2>4, <2>5, Zenon DEF a
<1> HIDE DEF t
<1>4. /\ AllWrites(q)[1] = <<ArgumentInfo>> /\ AllWrites(q)[2] = <<ArgBytes>>
      /\ AllWrites(q)[3] = ArgWords
  BY DEF AllWrites
<1>5. ASSUME NEW i \in 1 .. 6
      PROVE  t[i] = AllWrites(q)[6 - 6 + i]
  <2>0. 6 - 6 + i = i
    OBVIOUS
  <2>1. CASE i \in 1 .. 3
    <3>1. i = 1 \/ i = 2 \/ i = 3
      BY <2>1
    <3>2. t[i] = AllWrites(q)[i]
      BY <1>2, <1>3, <1>4, <2>1, <3>1, Zenon
    <3> QED
      BY <2>0, <3>2, Zenon
  <2>2. CASE i \in 4 .. 6
    <3>1. i - 3 \in 1 .. 3 /\ 6 - 3 + (i - 3) = i
      BY <2>2
    <3>2. c[i - 3] = AllWrites(q)[6 - 3 + (i - 3)]
      BY <1>1, <3>1 DEF Expected
    <3> QED
      BY <1>3, <2>0, <2>2, <3>1, <3>2, Zenon
  <2> QED
    BY <2>1, <2>2
<1>6. Expected(t, q, o)
  <2>1. t # <<>> /\ (q.kind \in CountedKind /\ q.data \in Seq(Word) /\ Len(q.data) \in Word)
    BY <1>3 DEF Expected
  <2> QED
    BY <1>3, <1>5, <2>1 DEF Expected
<1> QED
  BY <1>3, <1>6 DEF t

\* The run that moves has the calls its packet needs, and no other run moves.
LEMMA PendingRun ==
  ASSUME TypeOK, BufferRoom, Pending, NEW p \in Proc, Run(p)
  PROVE  Pending'
<1>0. /\ todo \in [Proc -> Seq(Seq(Word))] /\ packet \in [Proc -> Packet]
      /\ off \in [Proc -> Nat \cup {Closed}] /\ Closed \notin Nat
  BY DEF TypeOK, Closed
<1>1. ASSUME \A q \in Proc \ {p} : todo'[q] = todo[q] /\ packet'[q] = packet[q] /\ off'[q] = off[q],
             Expected(todo'[p], packet'[p], off'[p])
      PROVE  Pending'
  BY <1>1, Zenon DEF Pending
<1>2. Expected(todo[p], packet[p], off[p])
  BY DEF Pending
<1>3. CASE UNCHANGED <<todo, packet, off>>
  BY <1>3, Zenon DEF Pending
<1>4. ASSUME NEW k \in CountedKind, NEW d \in Seq(Word), Len(d) \in Word,
             Deliver(p, [kind |-> k, data |-> d]), off' = off
      PROVE  Pending'
  <2> DEFINE x == [kind |-> k, data |-> d]
  <2>1. packet' = [packet EXCEPT ![p] = x] /\ todo' = [todo EXCEPT ![p] = PacketWrites(x)]
    BY <1>4 DEF Deliver
  <2>2. Expected(PacketWrites(x), x, off[p])
    BY <1>4, DeliveredExpected
  <2> HIDE DEF x
  <2>3. todo'[p] = PacketWrites(x) /\ packet'[p] = x /\ off'[p] = off[p]
    BY <1>0, <1>4, <2>1
  <2>4. \A q \in Proc \ {p} : todo'[q] = todo[q] /\ packet'[q] = packet[q] /\ off'[q] = off[q]
    BY <1>0, <1>4, <2>1
  <2>5. Expected(todo'[p], packet'[p], off'[p])
    BY <2>2, <2>3
  <2> QED
    BY <1>1, <2>4, <2>5
<1>5. ASSUME NEW b \in Seq(Word), Len(b) <= BufferSize
      PROVE  Len(b) \in Word
  BY <1>5, ProgramAssumption, UncountedAssumption DEF Word
<1>6. CASE Trace(p)
  <2>1. off' = off
    BY <1>6 DEF Trace
  <2>2. PICK b \in BlockIds :
          IF BufferFull(Append(buffer[p], b))
          THEN Deliver(p, [kind |-> "trace", data |-> Append(buffer[p], b)])
          ELSE UNCHANGED <<packet, todo>>
    BY <1>6 DEF Trace
  <2>3. Append(buffer[p], b) \in Seq(Word)
    <3>1. b \in Word /\ buffer[p] \in Seq(Word)
      BY ProgramAssumption DEF TypeOK
    <3> QED
      BY <3>1
  <2>4. CASE BufferFull(Append(buffer[p], b))
    <3>1. Len(Append(buffer[p], b)) \in Word
      BY <2>3, <2>4, <1>5, ProgramAssumption, UncountedAssumption DEF BufferFull, Word
    <3>2. "trace" \in CountedKind
      BY DEF CountedKind
    <3> QED
      BY <1>4, <2>1, <2>2, <2>3, <2>4, <3>1, <3>2
  <2> QED
    BY <1>3, <2>1, <2>2, <2>4
<1>7. CASE RunHandler(p)
  <2>1. off' = off /\ handlers[p] # <<>> /\ handlers[p] \in Seq(CountedKind)
    BY <1>7 DEF RunHandler, TypeOK, CountedKind
  <2>2. Last(handlers[p]) \in CountedKind
    BY <2>1, EmptySeq DEF Last
  <2>3. PICK k : k = Last(handlers[p])
    OBVIOUS
  <2>4. IF k = "trace"
        THEN Deliver(p, [kind |-> k, data |-> buffer[p]])
        ELSE \E v \in Vectors[k] : Deliver(p, [kind |-> k, data |-> v])
    BY <1>7, <2>3 DEF RunHandler
  <2>5. CASE k = "trace"
    <3>1. buffer[p] \in Seq(Word) /\ Len(buffer[p]) <= BufferSize
      BY DEF TypeOK
    <3>2. Len(buffer[p]) \in Word
      BY <1>5, <3>1
    <3>3. k \in CountedKind /\ Deliver(p, [kind |-> k, data |-> buffer[p]])
      BY <2>2, <2>3, <2>4, <2>5
    <3> QED
      BY <1>4, <2>1, <3>1, <3>2, <3>3
  <2>6. CASE k # "trace"
    <3>1. k \in {"edge", "opt"} /\ k \in CountedKind
      BY <2>2, <2>3, <2>6 DEF CountedKind
    <3>2. PICK v \in Vectors[k] : Deliver(p, [kind |-> k, data |-> v])
      BY <2>4, <2>6
    <3>3. v \in Seq(Word) /\ Len(v) \in Word
      BY <3>1, ProgramAssumption
    <3> QED
      BY <1>4, <2>1, <3>1, <3>2, <3>3
  <2> QED
    BY <2>5, <2>6
<1>8. CASE OpenFile(p)
  <2>1. /\ off[p] = Closed /\ todo[p] # <<>> /\ packet' = packet
        /\ off' = [off EXCEPT ![p] = Len(file)]
        /\ todo' = [todo EXCEPT ![p] = ArgsWrites \o todo[p]]
    BY <1>8 DEF OpenFile, EndOfFile
  <2>2. Len(file) # Closed
    BY DEF TypeOK, Closed
  <2>3. todo[p] \in Seq(Seq(Word)) /\ Expected(todo[p], packet[p], Closed)
    BY <1>0, <1>2, <2>1
  <2>4. Expected(ArgsWrites \o todo[p], packet[p], Len(file))
    BY <2>1, <2>2, <2>3, OpenedExpected
  <2>5. todo'[p] = ArgsWrites \o todo[p] /\ off'[p] = Len(file) /\ packet'[p] = packet[p]
    BY <1>0, <2>1
  <2>6. \A q \in Proc \ {p} : todo'[q] = todo[q] /\ packet'[q] = packet[q] /\ off'[q] = off[q]
    BY <1>0, <2>1
  <2>7. Expected(todo'[p], packet'[p], off'[p])
    BY <2>4, <2>5
  <2> QED
    BY <1>1, <2>6, <2>7
<1>9. CASE OpenFails(p) \/ WriteFails(p)
  <2>1. off' = off /\ GiveUp(p)
    BY <1>9 DEF OpenFails, WriteFails
  <2>2. todo' = [todo EXCEPT ![p] = <<>>] /\ packet' = [packet EXCEPT ![p] = NoPacket]
    BY <2>1 DEF GiveUp
  <2>3. todo'[p] = <<>> /\ \A q \in Proc \ {p} : todo'[q] = todo[q] /\ packet'[q] = packet[q] /\ off'[q] = off[q]
    BY <1>0, <2>1, <2>2
  <2>4. Expected(todo'[p], packet'[p], off'[p])
    BY <2>3, NothingExpected
  <2> QED
    BY <1>1, <2>3, <2>4
<1>10. ASSUME todo[p] # <<>>, off[p] # Closed, AfterWrite(p),
              NEW n \in Nat, off' = [off EXCEPT ![p] = off[p] + n]
       PROVE  Pending'
  <2>1. /\ todo' = [todo EXCEPT ![p] = Tail(todo[p])]
        /\ packet' = [packet EXCEPT ![p] = IF Len(todo[p]) = 1 THEN NoPacket ELSE packet[p]]
    BY <1>10 DEF AfterWrite
  <2>2. todo'[p] = Tail(todo[p]) /\ (Len(todo[p]) # 1 => packet'[p] = packet[p])
    BY <1>0, <2>1
  <2>3. off'[p] # Closed
    BY <1>0, <1>10
  <2>4. \A q \in Proc \ {p} : todo'[q] = todo[q] /\ packet'[q] = packet[q] /\ off'[q] = off[q]
    BY <1>0, <1>10, <2>1
  <2>5. Expected(Tail(todo[p]), packet'[p], off'[p])
    <3>1. todo[p] \in Seq(Seq(Word))
      BY <1>0
    <3> QED
      BY <1>2, <1>10, <2>2, <2>3, <3>1, TailExpected
  <2>6. Expected(todo'[p], packet'[p], off'[p])
    BY <2>2, <2>5
  <2> QED
    BY <1>1, <2>4, <2>6
<1>11. CASE Write(p) \/ ShortWrite(p)
  <2>1. todo[p] # <<>> /\ off[p] # Closed /\ AfterWrite(p)
    BY <1>11 DEF Write, ShortWrite
  <2>2. Head(todo[p]) \in Seq(Word)
    BY <1>0, <2>1, HeadTailProperties
  <2>3. PICK n \in Nat : off' = [off EXCEPT ![p] = off[p] + n]
    <3>1. CASE Write(p)
      <4>1. Len(Head(todo[p])) \in Nat
        BY <2>2
      <4>2. off' = [off EXCEPT ![p] = off[p] + Len(Head(todo[p]))]
        BY <3>1 DEF Write
      <4> QED
        BY <4>1, <4>2, Zenon
    <3>2. CASE ShortWrite(p)
      <4>1. PICK n \in 0 .. (Len(Head(todo[p])) - 1) : off' = [off EXCEPT ![p] = off[p] + n]
        BY <3>2 DEF ShortWrite
      <4>2. n \in Nat
        BY <2>2
      <4> QED
        BY <4>1, <4>2, Zenon
    <3> QED
      BY <1>11, <3>1, <3>2
  <2> QED
    BY <1>10, <2>1, <2>3
<1>12. CASE Start(p) \/ Exit(p) \/ Finish(p) \/ Kill(p)
  <2>1. UNCHANGED <<todo, packet, off>>
    BY <1>12 DEF Start, Exit, Finish, Kill
  <2> QED
    BY <1>3, <2>1
<1> QED
  BY <1>6, <1>7, <1>8, <1>9, <1>11, <1>12 DEF Run, Proceed

-----------------------------------------------------------------------------
(* The sums of the packets that are loaded *)

\* Only the packets counted matter.
LEMMA LoadedSame ==
  ASSUME NEW a, NEW b, NEW j \in Nat, \A n \in 1 .. j : a[n] = b[n],
         NEW res, NEW runs, Loaded(a, j, res, runs)
  PROVE  Loaded(b, j, res, runs)
<1>1. Arguments(a, j) = Arguments(b, j)
  BY DEF Arguments
<1>2. \A k, c : Known(a, j, k, c) = Known(b, j, k, c)
  BY DEF Known
<1>3. ASSUME NEW k, NEW c
      PROVE  Partial(a, j, k, c) = Partial(b, j, k, c)
  <2>1. \A n \in Known(a, j, k, c) : a[n] = b[n]
    BY DEF Known
  <2>2. Values(a, j, k, c) = Values(b, j, k, c)
    BY <1>2, <2>1 DEF Values
  <2> QED
    BY <1>2, <2>2 DEF Partial
<1>4. \A k, c, v : Exact(a, j, k, c, v) => Exact(b, j, k, c, v)
  BY <1>2, <1>3, Zenon DEF Exact
<1>5. \A k, w : Wide(a, j, k, w) => Wide(b, j, k, w)
  BY DEF Wide
<1>6. \A n \in 1 .. j : ~Hollow(a[n]) => ~Hollow(b[n])
  OBVIOUS
<1> QED
  BY <1>1, <1>4, <1>5, <1>6, Zenon DEF Loaded

\* The data of the first j packets are words.
DataTo(packets, j) == \A n \in 1 .. j : packets[n].data \in Seq(Word)

\* The packets counted are finitely many, and their values are numbers.
LEMMA KnownFinite ==
  ASSUME NEW a, NEW j \in Nat, DataTo(a, j), NEW k, NEW c
  PROVE  /\ IsFiniteSet(Known(a, j, k, c))
         /\ \A n \in Known(a, j, k, c) : a[n].data[c] \in Nat
         /\ Partial(a, j, k, c) \in Nat
<1>1. IsFiniteSet(Known(a, j, k, c))
  <2>1. IsFiniteSet(1 .. j)
    BY FS_Interval
  <2>2. Known(a, j, k, c) \subseteq 1 .. j
    BY DEF Known
  <2> QED
    BY <2>1, <2>2, FS_Subset
<1>2. \A n \in Known(a, j, k, c) : a[n].data[c] \in Nat
  BY UncountedAssumption DEF Known, Word, DataTo
<1>3. \A n \in Known(a, j, k, c) : Values(a, j, k, c)[n] \in Nat
  BY <1>2 DEF Values
<1>4. Partial(a, j, k, c) \in Nat
  BY <1>1, <1>3, SumType DEF Partial
<1> QED
  BY <1>1, <1>2, <1>4

\* One packet more that has no value for a counter leaves its sum.
LEMMA KnownStays ==
  ASSUME NEW a, NEW j \in Nat, NEW k, NEW c, j + 1 \notin Known(a, j + 1, k, c)
  PROVE  Known(a, j + 1, k, c) = Known(a, j, k, c) /\ Partial(a, j + 1, k, c) = Partial(a, j, k, c)
<1>0. \A n \in 1 .. j + 1 : n \in 1 .. j \/ n = j + 1
  OBVIOUS
<1>00. \A n \in 1 .. j : n \in 1 .. j + 1
  OBVIOUS
<1>1. Known(a, j + 1, k, c) = Known(a, j, k, c)
  <2>1. \A n \in Known(a, j + 1, k, c) : n \in Known(a, j, k, c)
    BY <1>0, Zenon DEF Known
  <2>2. \A n \in Known(a, j, k, c) : n \in Known(a, j + 1, k, c)
    BY <1>00, Zenon DEF Known
  <2> QED
    BY <2>1, <2>2
<1>2. Values(a, j + 1, k, c) = Values(a, j, k, c)
  BY <1>1 DEF Values
<1> QED
  BY <1>1, <1>2 DEF Partial

\* One that has a value adds it.
LEMMA KnownMore ==
  ASSUME NEW a, NEW j \in Nat, DataTo(a, j + 1),
         NEW k, NEW c, j + 1 \in Known(a, j + 1, k, c)
  PROVE  /\ Known(a, j + 1, k, c) # {}
         /\ Partial(a, j + 1, k, c) = a[j + 1].data[c] + Partial(a, j, k, c)
         /\ Known(a, j, k, c) = {} => Partial(a, j, k, c) = 0
<1> DEFINE K == Known(a, j, k, c)
           g == Values(a, j + 1, k, c)
<1>0. \A n \in 1 .. j : n \in 1 .. j + 1 /\ n # j + 1
  OBVIOUS
<1>01. \A n \in 1 .. j + 1 : n \in 1 .. j \/ n = j + 1
  OBVIOUS
<1>1. Known(a, j + 1, k, c) = K \cup {j + 1} /\ j + 1 \notin K
  <2>1. \A n \in Known(a, j + 1, k, c) : n \in K \/ n = j + 1
    BY <1>01, Zenon DEF Known
  <2>2. \A n \in K : n \in Known(a, j + 1, k, c) /\ n # j + 1
    BY <1>0, Zenon DEF Known
  <2> HIDE DEF K
  <2> QED
    BY <2>1, <2>2
<1>2. IsFiniteSet(K)
  <2>1. DataTo(a, j)
    BY <1>0, Zenon DEF DataTo
  <2> QED
    BY <2>1, KnownFinite
<1>3. \A n \in K \cup {j + 1} : g[n] \in Nat /\ g[n] = a[n].data[c]
  <2>1. \A n \in Known(a, j + 1, k, c) : a[n].data[c] \in Nat
    BY KnownFinite
  <2>2. \A n \in Known(a, j + 1, k, c) : g[n] = a[n].data[c]
    BY DEF Values
  <2> HIDE DEF K, g
  <2> QED
    BY <1>1, <2>1, <2>2
<1>4. SumFunctionOnSet(g, K) = Partial(a, j, k, c)
  <2> DEFINE h == Values(a, j, k, c)
  <2>1. \A n \in K : h[n] = a[n].data[c]
    BY DEF Values
  <2> HIDE DEF K, g, h
  <2>2. \A n \in K : h[n] \in Nat /\ g[n] = h[n]
    BY <1>3, <2>1
  <2>3. SumFunctionOnSet(g, K) = SumFunctionOnSet(h, K)
    BY <1>2, <2>2, SumSame
  <2> QED
    BY <2>3 DEF Partial, K, h
<1>5. SumFunctionOnSet(g, K \cup {j + 1}) = g[j + 1] + SumFunctionOnSet(g, K)
  <2> HIDE DEF K, g
  <2> QED
    BY <1>1, <1>2, <1>3, SumAdd
<1>6. Partial(a, j + 1, k, c) = SumFunctionOnSet(g, K \cup {j + 1})
  BY <1>1, Zenon DEF Partial
<1>7. g[j + 1] = a[j + 1].data[c]
  BY <1>3
<1>8. K = {} => Partial(a, j, k, c) = 0
  BY SumEmpty DEF Partial
<1> HIDE DEF K, g
<1>9. K \cup {j + 1} # {}
  OBVIOUS
<1> QED
  BY <1>1, <1>4, <1>5, <1>6, <1>7, <1>8, <1>9, Zenon DEF K

\* AddCounts adds as long as nothing wraps around, and knows Uncounted.
LEMMA AddCountsIs ==
  ASSUME NEW x \in Word, NEW y \in Word
  PROVE  /\ x = Uncounted => AddCounts(x, y) = y
         /\ x # Uncounted /\ y = Uncounted => AddCounts(x, y) = x
         /\ x # Uncounted /\ y # Uncounted /\ x + y < Uncounted => AddCounts(x, y) = x + y
<1>1. ASSUME x # Uncounted, y # Uncounted, x + y < Uncounted
      PROVE  AddCounts(x, y) = x + y
  <2>1. AddCounts(x, y) = (x + y) % (Uncounted + 1)
    BY <1>1 DEF AddCounts
  <2>2. \A n, u \in Nat : n < u => n % (u + 1) = n
    OBVIOUS
  <2>3. x + y \in Nat
    BY UncountedAssumption DEF Word
  <2> QED
    BY <1>1, <2>1, <2>2, <2>3, UncountedAssumption
<1> QED
  BY <1>1 DEF AddCounts

\* A counter of one packet more: x is its value there, and v what is loaded.
LEMMA ExactMore ==
  ASSUME NEW a, NEW j \in Nat, DataTo(a, j + 1),
         NEW k, a[j + 1].kind = k, NEW c \in Nat,
         NEW x \in Word, c \in DOMAIN a[j + 1].data => x = a[j + 1].data[c],
         c \notin DOMAIN a[j + 1].data => x = Uncounted,
         NEW v \in Word, Exact(a, j, k, c, v)
  PROVE  Exact(a, j + 1, k, c, AddCounts(x, v))
<1>1. j + 1 \in Known(a, j + 1, k, c) <=> x # Uncounted
  BY DEF Known
<1>2. CASE x = Uncounted
  <2>1. AddCounts(x, v) = v
    BY <1>2, AddCountsIs
  <2>2. /\ Known(a, j + 1, k, c) = Known(a, j, k, c)
        /\ Partial(a, j + 1, k, c) = Partial(a, j, k, c)
    BY <1>1, <1>2, KnownStays
  <2> QED
    BY <2>1, <2>2, Zenon DEF Exact
<1>3. CASE x # Uncounted
  <2>1. j + 1 \in Known(a, j + 1, k, c)
    BY <1>1, <1>3
  <2>2. /\ Known(a, j + 1, k, c) # {}
        /\ Partial(a, j + 1, k, c) = a[j + 1].data[c] + Partial(a, j, k, c)
        /\ Known(a, j, k, c) = {} => Partial(a, j, k, c) = 0
    BY <2>1, KnownMore
  <2>3. a[j + 1].data[c] = x
    BY <1>3
  <2>4. PICK s, s2 : s = Partial(a, j, k, c) /\ s2 = Partial(a, j + 1, k, c)
    BY Zenon
  <2>5. s \in Nat /\ s2 = x + s
    <3>1. DataTo(a, j)
      BY DEF DataTo
    <3>2. s \in Nat
      BY <2>4, <3>1, KnownFinite
    <3> QED
      BY <2>2, <2>3, <2>4, <3>2, Zenon
  <2>6. CASE Known(a, j, k, c) = {}
    <3>1. v = Uncounted /\ s = 0
      BY <2>2, <2>4, <2>6 DEF Exact
    <3>2. AddCounts(x, v) = x
      BY <1>3, <3>1, AddCountsIs
    <3>3. x = s2
      <4>1. x \in Nat
        BY UncountedAssumption DEF Word
      <4>2. s2 = x + 0
        BY <2>5, <3>1, Zenon
      <4> QED
        BY <4>1, <4>2
    <3> QED
      BY <2>2, <2>4, <3>2, <3>3, Zenon DEF Exact
  <2>7. CASE Known(a, j, k, c) # {}
    <3>1. ASSUME s2 < Uncounted
          PROVE  AddCounts(x, v) = s2
      <4>0. x \in Nat /\ Uncounted \in Nat
        BY UncountedAssumption DEF Word
      <4>1. s < Uncounted
        BY <2>5, <3>1, <4>0
      <4>2. v = s
        BY <2>4, <2>7, <4>1, Zenon DEF Exact
      <4>3. v # Uncounted /\ x + v < Uncounted
        BY <2>5, <3>1, <4>0, <4>1, <4>2
      <4> QED
        BY <1>3, <2>5, <4>2, <4>3, AddCountsIs
    <3> QED
      BY <2>2, <2>4, <3>1, Zenon DEF Exact
  <2> QED
    BY <2>6, <2>7
<1> QED
  BY <1>2, <1>3

\* A packet of another kind changes no counter of kind k.
LEMMA OtherKind ==
  ASSUME NEW a, NEW j \in Nat, NEW k, a[j + 1].kind # k, NEW w \in Nat
  PROVE  /\ Wide(a, j, k, w) => Wide(a, j + 1, k, w)
         /\ \A c, v : Exact(a, j, k, c, v) => Exact(a, j + 1, k, c, v)
<1>1. \A c : j + 1 \notin Known(a, j + 1, k, c)
  BY DEF Known
<1>2. \A c : /\ Known(a, j + 1, k, c) = Known(a, j, k, c)
             /\ Partial(a, j + 1, k, c) = Partial(a, j, k, c)
  BY <1>1, KnownStays
<1>3. \A n \in 1 .. j + 1 : n \in 1 .. j \/ n = j + 1
  OBVIOUS
<1>4. \A n \in 1 .. j : n \in 1 .. j + 1
  OBVIOUS
<1>5. Wide(a, j, k, w) => Wide(a, j + 1, k, w)
  BY <1>3, <1>4, Zenon DEF Wide
<1> QED
  BY <1>2, <1>5, Zenon DEF Exact

\* One packet of arguments more
LEMMA LoadedArgs ==
  ASSUME NEW a, NEW j \in Nat, NEW res \in [BlockKind -> Seq(Word)], NEW runs,
         Loaded(a, j, res, runs), a[j + 1].kind = "args"
  PROVE  Loaded(a, j + 1, res, runs + 1)
<1>0. "args" \notin BlockKind
  BY DEF BlockKind
<1>1. \A n \in 1 .. j + 1 : n \in 1 .. j \/ n = j + 1
  OBVIOUS
<1>2. \A n \in 1 .. j : n \in 1 .. j + 1 /\ n # j + 1
  OBVIOUS
<1>3. Cardinality(Arguments(a, j + 1)) = Cardinality(Arguments(a, j)) + 1
  <2>1. j + 1 \in 1 .. j + 1
    OBVIOUS
  <2>2. Arguments(a, j + 1) = Arguments(a, j) \cup {j + 1} /\ j + 1 \notin Arguments(a, j)
    <3>1. \A n : n \in Arguments(a, j + 1) <=> n \in Arguments(a, j) \/ n = j + 1
      BY <1>1, <1>2, <2>1, Zenon DEF Arguments
    <3>2. j + 1 \notin Arguments(a, j)
      BY <1>2, Zenon DEF Arguments
    <3> QED
      BY <3>1, <3>2
  <2>3. IsFiniteSet(Arguments(a, j))
    <3>1. IsFiniteSet(1 .. j) /\ Arguments(a, j) \subseteq 1 .. j
      BY FS_Interval DEF Arguments
    <3> QED
      BY <3>1, FS_Subset
  <2> QED
    BY <2>2, <2>3, FS_AddElement
<1>4. \A n \in 1 .. j + 1 : ~Hollow(a[n])
  <2>1. ~Hollow(a[j + 1])
    BY <1>0 DEF Hollow
  <2>2. \A n \in 1 .. j : ~Hollow(a[n])
    BY Zenon DEF Loaded
  <2> QED
    BY <1>1, <2>1, <2>2, Zenon
<1>5. ASSUME NEW k \in BlockKind
      PROVE  /\ Wide(a, j + 1, k, Len(res[k]))
             /\ \A c \in 1 .. Len(res[k]) : Exact(a, j + 1, k, c, res[k][c])
  <2>1. a[j + 1].kind # k /\ Len(res[k]) \in Nat
    BY <1>0
  <2>2. Wide(a, j, k, Len(res[k])) /\ \A c \in 1 .. Len(res[k]) : Exact(a, j, k, c, res[k][c])
    BY Zenon DEF Loaded
  <2> QED
    BY <2>1, <2>2, OtherKind
<1>6. runs + 1 = Cardinality(Arguments(a, j + 1))
  BY <1>3, Zenon DEF Loaded
<1> QED
  BY <1>4, <1>5, <1>6, Zenon DEF Loaded

\* What Accumulate returns, counter by counter
LEMMA AccumulateIs ==
  ASSUME NEW data \in Seq(Word), NEW block \in Seq(Word)
  PROVE  /\ Accumulate(data, block) \in Seq(Word)
         /\ Len(data) <= Len(Accumulate(data, block)) /\ Len(block) <= Len(Accumulate(data, block))
         /\ Len(Accumulate(data, block)) \in {Len(data), Len(block)}
         /\ \A c \in 1 .. Len(Accumulate(data, block)) :
              Accumulate(data, block)[c] =
                AddCounts(IF c \in DOMAIN block THEN block[c] ELSE Uncounted,
                          IF c \in DOMAIN data THEN data[c] ELSE Uncounted)
<1> DEFINE L == IF Len(data) < Len(block) THEN Len(block) ELSE Len(data)
           A == Accumulate(data, block)
<1>1. A = [c \in 1 .. L |-> AddCounts(IF c \in DOMAIN block THEN block[c] ELSE Uncounted,
                                      IF c \in DOMAIN data THEN data[c] ELSE Uncounted)]
  BY DEF Accumulate
<1>2. A \in Seq(Word)
  BY AccumulateType
<1>3. L \in Nat /\ Len(data) <= L /\ Len(block) <= L /\ L \in {Len(data), Len(block)}
  OBVIOUS
<1>4. Len(A) = L
  <2> HIDE DEF L
  <2>1. DOMAIN A = 1 .. L
    BY <1>1
  <2> HIDE DEF A
  <2>2. DOMAIN A = 1 .. Len(A) /\ Len(A) \in Nat
    BY <1>2
  <2> QED
    BY <1>3, <2>1, <2>2
<1> HIDE DEF L
<1>5. \A c \in 1 .. L : A[c] = AddCounts(IF c \in DOMAIN block THEN block[c] ELSE Uncounted,
                                        IF c \in DOMAIN data THEN data[c] ELSE Uncounted)
  BY <1>1
<1> HIDE DEF A
<1>6. /\ A \in Seq(Word)
      /\ Len(data) <= Len(A) /\ Len(block) <= Len(A) /\ Len(A) \in {Len(data), Len(block)}
      /\ \A c \in 1 .. Len(A) : A[c] = AddCounts(IF c \in DOMAIN block THEN block[c] ELSE Uncounted,
                                                IF c \in DOMAIN data THEN data[c] ELSE Uncounted)
  BY <1>2, <1>3, <1>4, <1>5, Zenon
<1> QED
  BY <1>6, Zenon DEF A

\* One packet of counters more: the heart of the matter. A counter that the
\* loaded vector is too short to have is in no packet so far.
LEMMA LoadedBlock ==
  ASSUME NEW a, NEW j \in Nat, DataTo(a, j + 1),
         NEW res \in [BlockKind -> Seq(Word)], NEW runs, Loaded(a, j, res, runs),
         NEW k \in BlockKind, a[j + 1].kind = k, a[j + 1].data # <<>>
  PROVE  Loaded(a, j + 1, [res EXCEPT ![k] = Accumulate(res[k], a[j + 1].data)], runs)
<1> DEFINE b == a[j + 1].data
           A == Accumulate(res[k], b)
           res2 == [res EXCEPT ![k] = A]
<1>0. "args" \notin BlockKind
  BY DEF BlockKind
<1>1. \A n \in 1 .. j + 1 : n \in 1 .. j \/ n = j + 1
  OBVIOUS
<1>2. (\A n \in 1 .. j : n \in 1 .. j + 1) /\ j + 1 \in 1 .. j + 1
  OBVIOUS
<1>3. b \in Seq(Word) /\ res[k] \in Seq(Word)
  BY DEF DataTo
<1>4. /\ A \in Seq(Word)
      /\ Len(res[k]) <= Len(A) /\ Len(b) <= Len(A) /\ Len(A) \in {Len(res[k]), Len(b)}
      /\ \A c \in 1 .. Len(A) : A[c] = AddCounts(IF c \in DOMAIN b THEN b[c] ELSE Uncounted,
                                                IF c \in DOMAIN res[k] THEN res[k][c] ELSE Uncounted)
  <2> HIDE DEF b
  <2> QED
    BY <1>3, AccumulateIs
<1> HIDE DEF A
<1>5. res2[k] = A /\ \A k2 \in BlockKind \ {k} : res2[k2] = res[k2]
  OBVIOUS
<1> HIDE DEF res2
<1>6. /\ Wide(a, j, k, Len(res[k]))
      /\ \A c \in 1 .. Len(res[k]) : Exact(a, j, k, c, res[k][c])
  BY Zenon DEF Loaded
<1>7. Wide(a, j + 1, k, Len(A))
  <2>1. \A n \in 1 .. j : a[n].kind = k => Len(a[n].data) <= Len(res[k])
    BY <1>6, Zenon DEF Wide
  <2>2. \A n \in 1 .. j + 1 : a[n].kind = k => Len(a[n].data) <= Len(A)
    <3> TAKE n \in 1 .. j + 1
    <3> HAVE a[n].kind = k
    <3>1. CASE n = j + 1
      BY <1>4, <3>1
    <3>2. CASE n \in 1 .. j
      <4>1. Len(a[n].data) <= Len(res[k]) /\ Len(a[n].data) \in Nat
        BY <1>2, <2>1, <3>2 DEF DataTo
      <4> QED
        BY <1>3, <1>4, <4>1
    <3> QED
      BY <1>1, <3>1, <3>2
  <2>3. Len(A) = 0 \/ \E n \in 1 .. j + 1 : a[n].kind = k /\ Len(a[n].data) = Len(A)
    <3>1. CASE Len(A) = Len(b)
      BY <1>2, <3>1
    <3>2. CASE Len(A) = Len(res[k])
      BY <1>2, <1>6, <3>2, Zenon DEF Wide
    <3> QED
      BY <1>4, <3>1, <3>2
  <2> QED
    BY <2>2, <2>3, Zenon DEF Wide
<1>8. ASSUME NEW c \in 1 .. Len(A)
      PROVE  Exact(a, j + 1, k, c, A[c])
  <2> DEFINE x == IF c \in DOMAIN b THEN b[c] ELSE Uncounted
             v == IF c \in DOMAIN res[k] THEN res[k][c] ELSE Uncounted
  <2>0. Uncounted \in Word /\ c \in Nat
    BY UncountedAssumption DEF Word
  <2>1. x \in Word /\ v \in Word
    BY <1>3, <2>0
  <2>2. Exact(a, j, k, c, v)
    <3>1. CASE c \in DOMAIN res[k]
      <4>1. c \in 1 .. Len(res[k])
        BY <1>3, <3>1
      <4> QED
        BY <1>6, <3>1, <4>1
    <3>2. CASE c \notin DOMAIN res[k]
      <4>1. \A n \in 1 .. j : a[n].kind = k => c \notin DOMAIN a[n].data
        <5> TAKE n \in 1 .. j
        <5> HAVE a[n].kind = k
        <5>1. Len(a[n].data) <= Len(res[k])
          BY <1>6, Zenon DEF Wide
        <5>2. a[n].data \in Seq(Word)
          BY <1>2 DEF DataTo
        <5>3. c \notin 1 .. Len(res[k])
          BY <1>3, <3>2
        <5> QED
          BY <1>3, <5>1, <5>2, <5>3
      <4>2. Known(a, j, k, c) = {}
        BY <4>1 DEF Known
      <4>3. v = Uncounted
        BY <3>2
      <4> QED
        BY <4>2, <4>3 DEF Exact
    <3> QED
      BY <3>1, <3>2
  <2>3. A[c] = AddCounts(x, v)
    BY <1>4
  <2>4. /\ c \in DOMAIN a[j + 1].data => x = a[j + 1].data[c]
        /\ c \notin DOMAIN a[j + 1].data => x = Uncounted
    OBVIOUS
  <2> HIDE DEF x, v, b
  <2>5. Exact(a, j + 1, k, c, AddCounts(x, v))
    BY <2>0, <2>1, <2>2, <2>4, ExactMore
  <2> QED
    BY <2>3, <2>5
<1>9. \A n \in 1 .. j + 1 : ~Hollow(a[n])
  <2>1. ~Hollow(a[j + 1])
    BY DEF Hollow
  <2>2. \A n \in 1 .. j : ~Hollow(a[n])
    BY Zenon DEF Loaded
  <2> QED
    BY <1>1, <2>1, <2>2, Zenon
<1>10. Arguments(a, j + 1) = Arguments(a, j)
  <2>1. a[j + 1].kind # "args"
    BY <1>0
  <2>2. \A n : n \in Arguments(a, j + 1) <=> n \in Arguments(a, j)
    BY <1>1, <1>2, <2>1, Zenon DEF Arguments
  <2> QED
    BY <2>2
<1>11. runs = Cardinality(Arguments(a, j + 1))
  BY <1>10 DEF Loaded
<1>12. ASSUME NEW k2 \in BlockKind
       PROVE  /\ Wide(a, j + 1, k2, Len(res2[k2]))
              /\ \A c \in 1 .. Len(res2[k2]) : Exact(a, j + 1, k2, c, res2[k2][c])
  <2>1. CASE k2 = k
    BY <1>5, <1>7, <1>8, <2>1
  <2>2. CASE k2 # k
    <3>1. Wide(a, j, k2, Len(res[k2])) /\ \A c \in 1 .. Len(res[k2]) : Exact(a, j, k2, c, res[k2][c])
      BY Zenon DEF Loaded
    <3>2. a[j + 1].kind # k2 /\ Len(res[k2]) \in Nat /\ res2[k2] = res[k2]
      BY <1>5, <2>2
    <3> QED
      BY <3>1, <3>2, OtherKind
  <2> QED
    BY <2>1, <2>2
<1>13. Loaded(a, j + 1, res2, runs)
  BY <1>9, <1>11, <1>12, Zenon DEF Loaded
<1> QED
  BY <1>13 DEF res2, A, b

\* The operators of the libraries are the same in the store.
LEMMA StoreCardinality == \A S : Store!Cardinality(S) = Cardinality(S)
  BY DEF Store!Cardinality, Cardinality

LEMMA StoreSum == \A f : Store!SumFunction(f) = SumFunction(f)
  BY DEF Store!SumFunction, Store!SumFunctionOnSet, Store!FoldFunctionOnSet, Store!MapThenFoldSet,
         SumFunction, SumFunctionOnSet, FoldFunctionOnSet, MapThenFoldSet

\* When all packets are loaded but ones without counters, the loader has what
\* the store promises.
LEMMA LoadedFaithful ==
  ASSUME NEW a, Len(a) \in Nat, DOMAIN a = 1 .. Len(a), DataTo(a, Len(a)),
         NEW m \in Nat, m <= Len(a), \A n \in (m + 1) .. Len(a) : Hollow(a[n]),
         NEW res \in [BlockKind -> Seq(Word)], NEW runs, Loaded(a, m, res, runs)
  PROVE  Store!Faithful(a, res, runs)
<1>0. "args" \notin BlockKind
  BY DEF BlockKind
<1>1. \A n \in 1 .. m : n \in 1 .. Len(a)
  OBVIOUS
<1>2. \A n \in 1 .. Len(a) : n \in 1 .. m \/ n \in (m + 1) .. Len(a)
  OBVIOUS
<1>3. \A n \in 1 .. Len(a) : n \in 1 .. m \/ (a[n].kind \in BlockKind /\ a[n].data = <<>>)
  BY <1>2, Zenon DEF Hollow
<1>4. Store!OfKind(a, "args") = Arguments(a, m)
  <2>1. \A n : n \in Store!OfKind(a, "args") <=> n \in Arguments(a, m)
    BY <1>0, <1>1, <1>3 DEF Store!OfKind, Arguments
  <2> QED
    BY <2>1
<1>5. runs = Store!Cardinality(Store!OfKind(a, "args"))
  BY <1>4, StoreCardinality DEF Loaded
<1>6. ASSUME NEW k \in BlockKind
      PROVE  Len(res[k]) = Store!Width(a, k)
  <2> DEFINE W == {0} \cup {Len(a[n].data) : n \in Store!OfKind(a, k)}
             w == Len(res[k])
  <2>1. Wide(a, m, k, w)
    BY Zenon DEF Loaded
  <2>2. \A n \in Store!OfKind(a, k) : Len(a[n].data) <= w
    <3> TAKE n \in Store!OfKind(a, k)
    <3>1. n \in 1 .. Len(a) /\ a[n].kind = k
      BY DEF Store!OfKind
    <3>2. CASE n \in 1 .. m
      BY <2>1, <3>1, <3>2, Zenon DEF Wide
    <3>3. CASE a[n].data = <<>>
      <4>1. Len(a[n].data) = 0 /\ w \in Nat
        BY <3>3
      <4> QED
        BY <4>1
    <3> QED
      BY <1>3, <3>1, <3>2, <3>3
  <2>3. w \in W
    <3>1. CASE w = 0
      BY <3>1
    <3>2. CASE w # 0
      <4>1. PICK n \in 1 .. m : a[n].kind = k /\ Len(a[n].data) = w
        BY <2>1, <3>2, Zenon DEF Wide
      <4>2. n \in Store!OfKind(a, k)
        BY <1>1, <4>1 DEF Store!OfKind
      <4> QED
        BY <4>1, <4>2
    <3> QED
      BY <3>1, <3>2
  <2>4. w \in Nat /\ \A y \in W : y \in Nat /\ w >= y
    <3>1. \A n \in Store!OfKind(a, k) : Len(a[n].data) \in Nat
      BY DEF Store!OfKind
    <3>2. w \in Nat
      OBVIOUS
    <3> HIDE DEF w
    <3> QED
      BY <2>2, <3>1, <3>2
  <2> HIDE DEF W, w
  <2>5. \A x \in W : (\A y \in W : x >= y) => x = w
    BY <2>3, <2>4
  <2>6. w = CHOOSE x \in W : \A y \in W : x >= y
    BY <2>3, <2>4, <2>5
  <2> QED
    BY <2>6 DEF Store!Width, Store!Max, W, w
<1>7. ASSUME NEW k \in BlockKind, NEW c \in DOMAIN res[k]
      PROVE  IF Store!Holders(a, k, c) = {}
             THEN res[k][c] = Uncounted
             ELSE Store!Total(a, k, c) < Uncounted => res[k][c] = Store!Total(a, k, c)
  <2>1. Store!Holders(a, k, c) = Known(a, m, k, c)
    <3>1. \A n : n \in Store!Holders(a, k, c) <=> n \in Known(a, m, k, c)
      BY <1>1, <1>3 DEF Store!Holders, Store!OfKind, Known
    <3> QED
      BY <3>1
  <2>2. [n \in Store!Holders(a, k, c) |-> a[n].data[c]] = Values(a, m, k, c)
    BY <2>1 DEF Values
  <2>3. Store!Total(a, k, c) = Partial(a, m, k, c)
    <3>1. DOMAIN Values(a, m, k, c) = Known(a, m, k, c)
      BY DEF Values
    <3>2. Store!Total(a, k, c) = SumFunction(Values(a, m, k, c))
      BY <2>2, StoreSum DEF Store!Total
    <3> QED
      BY <3>1, <3>2 DEF SumFunction, Partial
  <2>4. Exact(a, m, k, c, res[k][c])
    <3>1. c \in 1 .. Len(res[k])
      OBVIOUS
    <3> QED
      BY <3>1, Zenon DEF Loaded
  <2> QED
    BY <2>1, <2>3, <2>4 DEF Exact
<1> QED
  BY <1>5, <1>6, <1>7, Zenon DEF Store!Faithful

-----------------------------------------------------------------------------
(* What is in the file stays there *)

Extends(f, f2) == Len(f) <= Len(f2) /\ \A n \in 1 .. Len(f) : f2[n] = f[n]

\* A write() at the end of the file puts its words there.
LEMMA WriteAppends ==
  ASSUME NEW ws \in Seq(Word), file \in Seq(Word), WriteAt(Len(file), ws)
  PROVE  /\ file' \in Seq(Word)
         /\ Len(file') = Len(file) + Len(ws)
         /\ Extends(file, file')
         /\ \A i \in 1 .. Len(ws) : file'[Len(file) + i] = ws[i]
<1>1. Len(file) \in Nat /\ Len(ws) \in Nat /\ Len(file) <= Len(file)
  OBVIOUS
<1>2. /\ file' \in Seq(Word)
      /\ Len(file') = Len(file) + Len(ws)
      /\ \A n \in 1 .. Len(file) : file'[n] = file[n]
  BY <1>1, WriteAtKeeps
<1>3. Extends(file, file')
  BY <1>1, <1>2 DEF Extends
<1>4. ASSUME NEW i \in 1 .. Len(ws)
      PROVE  file'[Len(file) + i] = ws[i]
  <2> DEFINE n == Len(file) + i
             L == IF Len(file) + Len(ws) > Len(file) THEN Len(file) + Len(ws) ELSE Len(file)
  <2>1. n \in (Len(file) + 1) .. (Len(file) + Len(ws)) /\ n - Len(file) = i
    BY <1>1
  <2>2. n \in 1 .. L
    BY <1>1
  <2>3. file' = [x \in 1 .. L |->
                   IF x \in (Len(file) + 1) .. (Len(file) + Len(ws)) THEN ws[x - Len(file)] ELSE file[x]]
    BY DEF WriteAt
  <2> HIDE DEF n, L
  <2>4. file'[n] = ws[n - Len(file)]
    BY <2>1, <2>2, <2>3
  <2> QED
    BY <2>1, <2>4 DEF n
<1> QED
  BY <1>2, <1>3, <1>4

\* A packet stays where it is.
LEMMA PacketStays ==
  ASSUME NEW f \in Seq(Word), NEW f2 \in Seq(Word), Extends(f, f2),
         NEW o \in Nat, NEW q, q.data \in Seq(Word), PacketIn(f, o, q)
  PROVE  PacketIn(f2, o, q)
<1> DEFINE d == q.data
<1>1. Len(d) \in Nat /\ Len(f) \in Nat /\ Len(f2) \in Nat
  OBVIOUS
<1>2. o + 2 + Len(d) <= Len(f) /\ Len(f) <= Len(f2)
  BY DEF PacketIn, Extends
<1>3. \A n \in 1 .. Len(f) : f2[n] = f[n]
  BY DEF Extends
<1>4. /\ f[o + 1] = HeaderWord(q) /\ f[o + 2] = LengthWord(q)
      /\ \A i \in 1 .. Len(d) : f[o + 2 + i] = d[i]
  BY DEF PacketIn
<1> HIDE DEF d
<1>5. o + 1 \in 1 .. Len(f) /\ o + 2 \in 1 .. Len(f) /\ \A i \in 1 .. Len(d) : o + 2 + i \in 1 .. Len(f)
  BY <1>1, <1>2
<1>6. /\ f2[o + 1] = HeaderWord(q) /\ f2[o + 2] = LengthWord(q)
      /\ \A i \in 1 .. Len(d) : f2[o + 2 + i] = d[i]
  BY <1>3, <1>4, <1>5
<1>7. o + 2 + Len(d) <= Len(f2)
  BY <1>1, <1>2
<1> QED
  BY <1>6, <1>7 DEF PacketIn, d

\* The packets stay where they are, and more can come behind them.
LEMMA LaidStays ==
  ASSUME NEW f \in Seq(Word), NEW f2 \in Seq(Word), Extends(f, f2),
         NEW a, NEW b, NEW m \in Nat, DataTo(a, m), \A n \in 1 .. m : b[n] = a[n],
         NEW place \in [Nat -> Nat], NEW place2 \in [Nat -> Nat],
         \A n \in 1 .. m + 1 : place2[n] = place[n],
         Laid(f, a, place, m)
  PROVE  Laid(f2, b, place2, m)
<1>1. place2[1] = 0
  <2>1. 1 \in 1 .. m + 1
    OBVIOUS
  <2> QED
    BY <2>1 DEF Laid
<1>2. ASSUME NEW n \in 1 .. m
      PROVE  /\ place2[n + 1] = place2[n] + 2 + Len(b[n].data)
             /\ PacketIn(f2, place2[n], b[n])
  <2>1. n \in 1 .. m + 1 /\ n + 1 \in 1 .. m + 1 /\ n \in Nat
    OBVIOUS
  <2>2. place2[n] = place[n] /\ place2[n + 1] = place[n + 1] /\ b[n] = a[n]
    BY <2>1
  <2>3. place[n + 1] = place[n] + 2 + Len(a[n].data) /\ PacketIn(f, place[n], a[n])
    BY DEF Laid
  <2>4. place[n] \in Nat /\ a[n].data \in Seq(Word)
    BY <2>1 DEF DataTo
  <2>5. PacketIn(f2, place[n], a[n])
    BY <2>3, <2>4, PacketStays
  <2> QED
    BY <2>2, <2>3, <2>5
<1> QED
  BY <1>1, <1>2 DEF Laid

\* The packet behind the m-th is the next one.
LEMMA LaidMore ==
  ASSUME NEW f, NEW a, NEW place \in [Nat -> Nat], NEW m \in Nat, Laid(f, a, place, m),
         place[m + 2] = place[m + 1] + 2 + Len(a[m + 1].data),
         PacketIn(f, place[m + 1], a[m + 1])
  PROVE  Laid(f, a, place, m + 1)
<1>1. \A n \in 1 .. m + 1 : n \in 1 .. m \/ (n = m + 1 /\ n + 1 = m + 2)
  OBVIOUS
<1>2. ASSUME NEW n \in 1 .. m + 1
      PROVE  place[n + 1] = place[n] + 2 + Len(a[n].data) /\ PacketIn(f, place[n], a[n])
  <2>1. CASE n \in 1 .. m
    BY <2>1 DEF Laid
  <2>2. CASE n = m + 1 /\ n + 1 = m + 2
    BY <2>2
  <2> QED
    BY <1>1, <2>1, <2>2
<1> QED
  BY <1>2 DEF Laid

\* The packets end inside the file.
LEMMA PlaceInside ==
  ASSUME NEW f \in Seq(Word), NEW a, NEW place \in [Nat -> Nat], NEW m \in Nat,
         DataTo(a, m), Laid(f, a, place, m)
  PROVE  place[m + 1] <= Len(f)
<1>1. CASE m = 0
  <2>1. place[m + 1] = 0
    BY <1>1 DEF Laid
  <2> QED
    BY <2>1
<1>2. CASE m # 0
  <2>1. m \in 1 .. m
    BY <1>2
  <2>2. place[m + 1] = place[m] + 2 + Len(a[m].data) /\ PacketIn(f, place[m], a[m])
    BY <2>1 DEF Laid
  <2> QED
    BY <2>2 DEF PacketIn
<1> QED
  BY <1>1, <1>2

-----------------------------------------------------------------------------
(* Where a writer is *)

\* The numbers of calls: six are a packet with its arguments, three a packet.
LEMMA Six ==
  \A L \in 1 .. 6 :
    /\ 1 \in 1 .. L /\ 6 - L + 1 = 7 - L /\ L # 0
    /\ L > 3 => /\ L = 4 \/ L = 5 \/ L = 6
                /\ L \in {3, 6} => L = 6
                /\ L \in {2, 5} => L = 5
                /\ L \in {1, 4} => L = 4
    /\ ~(L > 3) => /\ L = 1 \/ L = 2 \/ L = 3
                   /\ L \in {3, 6} => L = 3
                   /\ L \in {2, 5} => L = 2
                   /\ L \in {1, 4} => L = 1
    /\ L \in {3, 6} \/ L \in {2, 5} \/ L \in {1, 4}
    /\ L \in {3, 6} => L - 1 \in {2, 5} /\ L \notin {1, 4} /\ L \notin {2, 5}
    /\ L \in {2, 5} => L - 1 \in {1, 4} /\ L \notin {1, 4} /\ L \notin {3, 6}
    /\ L \in {1, 4} => L - 1 \in {0, 3} /\ L \notin {2, 5} /\ L \notin {3, 6}
    /\ L \notin {1, 4} => L # 1 /\ (L - 1 > 3 <=> L > 3)
    /\ L \in {0, 3, 6} <=> L \in {3, 6}
    /\ L - 1 \in {0, 3, 6} <=> L \in {1, 4}
  OBVIOUS

\* What a run that has the file open is about to write, by the number of calls
\* it has still to make: the header, the length or the data of its packet.
LEMMA WriterStands ==
  ASSUME TypeOK, Pending, SingleWriter, NEW p \in Proc,
         Active(p), todo[p] # <<>>, off[p] # Closed
  PROVE  /\ off[p] = Len(file)
         /\ Len(todo[p]) \in 1 .. 6
         /\ Storable(Current(p)) /\ Current(p).data \in Seq(Word)
         /\ Head(todo[p]) \in Seq(Word)
         /\ Len(todo[p]) \in {3, 6} => Head(todo[p]) = <<HeaderWord(Current(p))>>
         /\ Len(todo[p]) \in {2, 5} => Head(todo[p]) = <<LengthWord(Current(p))>>
         /\ Len(todo[p]) \in {1, 4} => Head(todo[p]) = Current(p).data
         /\ \A q \in Proc : Active(q) => q = p
<1> DEFINE c == todo[p]
           q == packet[p]
<1>1. Expected(c, q, off[p])
  BY DEF Pending
<1>2. c \in Seq(Seq(Word)) /\ c # <<>>
  BY DEF TypeOK
<1>3. off[p] = Len(file) /\ \A r \in Proc : Active(r) => r = p
  BY DEF SingleWriter
<1> HIDE DEF c, q
<1>4. /\ Len(c) \in 1 .. 6
      /\ q.kind \in CountedKind /\ q.data \in Seq(Word) /\ Len(q.data) \in Word
  BY <1>1, <1>2, EmptyIffNoLength DEF Expected
<1>5. Head(c) = AllWrites(q)[7 - Len(c)]
  <2>1. 1 \in 1 .. Len(c) /\ 6 - Len(c) + 1 = 7 - Len(c)
    BY <1>4, Six, Zenon
  <2>2. c[1] = AllWrites(q)[6 - Len(c) + 1]
    BY <1>1, <2>1 DEF Expected
  <2>3. Head(c) = c[1]
    BY <1>2
  <2> QED
    BY <2>1, <2>2, <2>3, Zenon
<1>6. Head(c) \in Seq(Word)
  BY <1>2, HeadTailProperties
<1>7. /\ AllWrites(q)[1] = <<ArgumentInfo>> /\ AllWrites(q)[2] = <<ArgBytes>>
      /\ AllWrites(q)[3] = ArgWords /\ AllWrites(q)[4] = <<TypeOf[q.kind]>>
      /\ AllWrites(q)[5] = <<Len(q.data)>> /\ AllWrites(q)[6] = q.data
  BY DEF AllWrites
<1>8. /\ ArgsPacket.kind = "args" /\ ArgsPacket.data = ArgWords /\ ArgWords \in Seq(Word)
      /\ "args" \notin CountedKind
  <2>1. ArgWords \in Seq(Word)
    BY ArgumentsAssumption, UncountedAssumption DEF ArgWords, Word
  <2> QED
    BY <2>1 DEF ArgsPacket, CountedKind
<1>9. /\ HeaderWord(ArgsPacket) = ArgumentInfo /\ LengthWord(ArgsPacket) = ArgBytes
      /\ HeaderWord(q) = TypeOf[q.kind] /\ LengthWord(q) = Len(q.data)
  BY <1>4, <1>8 DEF HeaderWord, LengthWord
<1>10. Storable(ArgsPacket) /\ Storable(q)
  BY <1>4 DEF Storable
<1>11. Current(p) = IF Len(c) > 3 THEN ArgsPacket ELSE q
  BY DEF Current, c, q
<1>12. CASE Len(c) > 3
  <2>1. Current(p) = ArgsPacket /\ (Len(c) = 4 \/ Len(c) = 5 \/ Len(c) = 6)
    BY <1>4, <1>11, <1>12, Six, Zenon
  <2>2. 7 - 6 = 1 /\ 7 - 5 = 2 /\ 7 - 4 = 3
    OBVIOUS
  <2>3. /\ Len(c) = 6 => Head(c) = <<HeaderWord(ArgsPacket)>>
        /\ Len(c) = 5 => Head(c) = <<LengthWord(ArgsPacket)>>
        /\ Len(c) = 4 => Head(c) = ArgsPacket.data
    BY <1>5, <1>7, <1>8, <1>9, <2>2, Zenon
  <2>4. /\ Len(c) \in {3, 6} => Len(c) = 6
        /\ Len(c) \in {2, 5} => Len(c) = 5
        /\ Len(c) \in {1, 4} => Len(c) = 4
    BY <1>4, <1>12, Six, Zenon
  <2>5. /\ Len(c) \in {3, 6} => Head(c) = <<HeaderWord(Current(p))>>
        /\ Len(c) \in {2, 5} => Head(c) = <<LengthWord(Current(p))>>
        /\ Len(c) \in {1, 4} => Head(c) = Current(p).data
    BY <2>1, <2>3, <2>4, Zenon
  <2>6. Storable(Current(p)) /\ Current(p).data \in Seq(Word)
    BY <1>8, <1>10, <2>1, Zenon
  <2> QED
    BY <1>3, <1>4, <1>6, <2>5, <2>6, Zenon DEF c
<1>13. CASE ~(Len(c) > 3)
  <2>1. Current(p) = q /\ (Len(c) = 1 \/ Len(c) = 2 \/ Len(c) = 3)
    BY <1>4, <1>11, <1>13, Six, Zenon
  <2>2. 7 - 3 = 4 /\ 7 - 2 = 5 /\ 7 - 1 = 6
    OBVIOUS
  <2>3. /\ Len(c) = 3 => Head(c) = <<HeaderWord(q)>>
        /\ Len(c) = 2 => Head(c) = <<LengthWord(q)>>
        /\ Len(c) = 1 => Head(c) = q.data
    BY <1>5, <1>7, <1>9, <2>2, Zenon
  <2>4. /\ Len(c) \in {3, 6} => Len(c) = 3
        /\ Len(c) \in {2, 5} => Len(c) = 2
        /\ Len(c) \in {1, 4} => Len(c) = 1
    BY <1>4, <1>13, Six, Zenon
  <2>5. /\ Len(c) \in {3, 6} => Head(c) = <<HeaderWord(Current(p))>>
        /\ Len(c) \in {2, 5} => Head(c) = <<LengthWord(Current(p))>>
        /\ Len(c) \in {1, 4} => Head(c) = Current(p).data
    BY <2>1, <2>3, <2>4, Zenon
  <2>6. Storable(Current(p)) /\ Current(p).data \in Seq(Word)
    BY <1>4, <1>10, <2>1, Zenon
  <2> QED
    BY <1>3, <1>4, <1>6, <2>5, <2>6, Zenon DEF c
<1> QED
  BY <1>12, <1>13

\* A call that is made leaves the run at the same packet, unless it was the
\* packet's last.
LEMMA WriterMoves ==
  ASSUME TypeOK, NEW p \in Proc, Len(todo[p]) \in 1 .. 6, AfterWrite(p)
  PROVE  /\ Len(todo'[p]) = Len(todo[p]) - 1
         /\ Len(todo[p]) \notin {1, 4} => Current(p)' = Current(p)
<1>1. /\ todo \in [Proc -> Seq(Seq(Word))] /\ packet \in [Proc -> Packet]
  BY DEF TypeOK
<1>2. todo' = [todo EXCEPT ![p] = Tail(todo[p])]
  BY DEF AfterWrite
<1>3. packet' = [packet EXCEPT ![p] = IF Len(todo[p]) = 1 THEN NoPacket ELSE packet[p]]
  BY DEF AfterWrite
<1>4. Len(todo'[p]) = Len(todo[p]) - 1
  <2>1. todo'[p] = Tail(todo[p]) /\ todo[p] \in Seq(Seq(Word))
    BY <1>1, <1>2
  <2>2. Len(todo[p]) # 0
    BY Six, Zenon
  <2>3. todo[p] # <<>>
    BY <2>1, <2>2, EmptyIffNoLength
  <2>4. Len(Tail(todo[p])) = Len(todo[p]) - 1
    BY <2>1, <2>3, HeadTailProperties
  <2> QED
    BY <2>1, <2>4, Zenon
<1>5. Len(todo[p]) # 1 => packet'[p] = packet[p]
  BY <1>1, <1>3
<1>6. \A L \in 1 .. 6 : \A M : M = L - 1 /\ L \notin {1, 4} => L # 1 /\ (M > 3 <=> L > 3)
  OBVIOUS
<1>7. Len(todo[p]) \notin {1, 4} => Len(todo[p]) # 1 /\ (Len(todo'[p]) > 3 <=> Len(todo[p]) > 3)
  BY <1>4, <1>6, Zenon
<1> QED
  BY <1>4, <1>5, <1>7, Zenon DEF Current

-----------------------------------------------------------------------------
(* What the programs do to the file *)

\* The data of what is deposited are words.
LEMMA DepositedData ==
  ASSUME TypeOK, NEW m \in Nat, m <= Len(deposited)
  PROVE  DataTo(deposited, m)
<1>1. deposited \in Seq(Packet) /\ \A q \in Packet : q.data \in Seq(Word)
  BY DEF TypeOK, Packet
<1>2. \A n \in 1 .. m : n \in 1 .. Len(deposited)
  BY <1>1
<1>3. \A n \in 1 .. m : deposited[n] \in Packet
  BY <1>1, <1>2
<1> QED
  BY <1>1, <1>3 DEF DataTo

\* The position after a step, from what the step did.
LEMMA Reposition ==
  ASSUME TypeOK, TypeOK', NEW place, NEW m, NEW j, Position(place, m, j),
         Extends(file, file'), \A n \in 1 .. m : deposited'[n] = deposited[n],
         NEW place2 \in [Nat -> Nat], \A n \in 1 .. m + 1 : place2[n] = place[n],
         NEW m2 \in Nat, m <= m2, m2 <= Len(deposited'),
         Laid(file', deposited', place2, m) => Laid(file', deposited', place2, m2),
         Ends(place2[m2 + 1], m2)', UNCHANGED loaderVars
  PROVE  Position(place2, m2, j)'
<1>1. /\ place \in [Nat -> Nat] /\ m \in Nat /\ j \in Nat /\ j <= m /\ m <= Len(deposited)
      /\ Laid(file, deposited, place, m)
      /\ lpos = place[j + 1]
      /\ Loaded(deposited, j, counts, lines)
  BY DEF Position
<1>2. file \in Seq(Word) /\ file' \in Seq(Word)
  BY DEF TypeOK
<1>3. Laid(file', deposited', place2, m)
  BY <1>1, <1>2, DepositedData, LaidStays
<1>4. j <= m2
  BY <1>1
<1>5. lpos' = place2[j + 1]
  <2>1. j + 1 \in 1 .. m + 1
    BY <1>1
  <2>2. lpos' = lpos
    BY DEF loaderVars
  <2> QED
    BY <1>1, <2>1, <2>2
<1>6. Loaded(deposited', j, counts', lines')
  <2>1. \A n \in 1 .. j : deposited[n] = deposited'[n]
    <3>1. \A n \in 1 .. j : n \in 1 .. m
      BY <1>1
    <3> QED
      BY <3>1
  <2>2. Loaded(deposited', j, counts, lines)
    BY <1>1, <2>1, LoadedSame
  <2>3. counts' = counts /\ lines' = lines
    BY DEF loaderVars
  <2> QED
    BY <2>2, <2>3
<1> QED
  BY <1>1, <1>3, <1>4, <1>5, <1>6 DEF Position

\* A step that writes nothing, while no packet is half written, leaves things
\* as they are.
LEMMA QuietKeeps ==
  ASSUME TypeOK, TypeOK', FileInv, file' = file, deposited' = deposited, torn' = torn,
         UNCHANGED loaderVars, \A q \in Proc : ~Writing(q), \A q \in Proc : ~Writing(q)'
  PROVE  FileInv'
<1> SUFFICES ASSUME torn \subseteq {Len(file)}
             PROVE  (\E place, m, j : Position(place, m, j))'
  BY DEF FileInv
<1>1. PICK place, m, j : Position(place, m, j)
  BY DEF FileInv
<1>2. /\ place \in [Nat -> Nat] /\ m \in Nat /\ m <= Len(deposited) /\ Ends(place[m + 1], m)
  BY <1>1 DEF Position
<1>3. Begun(place[m + 1]) => Begun(place[m + 1])'
  BY Zenon DEF Begun
<1>4. Ends(place[m + 1], m)'
  BY <1>2, <1>3, Zenon DEF Ends
<1>5. Extends(file, file')
  BY DEF Extends, TypeOK
<1>6. Position(place, m, j)'
  <2>1. m <= Len(deposited') /\ m <= m
    BY <1>2
  <2> QED
    BY <1>1, <1>2, <1>4, <1>5, <2>1, Reposition
<1> QED
  BY <1>6

\* A packet that is half written and stays so is not a packet.
LEMMA HalfIsIncomplete ==
  ASSUME TypeOK, NEW q, Storable(q), NEW t \in Nat, ArgBytes > 0,
         NEW f \in Seq(Word), f[t + 1] = HeaderWord(q),
         Len(f) = t + 1 \/ (Len(f) >= t + 2 /\ f[t + 2] = LengthWord(q)
                             /\ (Len(f) - (t + 2) < Len(q.data) \/ Len(f) = t + 2))
  PROVE  Incomplete(f, t)
<1>1. CASE Len(f) = t + 1
  BY <1>1 DEF Incomplete
<1>2. CASE /\ Len(f) >= t + 2 /\ f[t + 2] = LengthWord(q)
           /\ (Len(f) - (t + 2) < Len(q.data) \/ Len(f) = t + 2)
  <2>1. CASE q = ArgsPacket
    <3>1. HeaderWord(q) = ArgumentInfo /\ LengthWord(q) = ArgBytes /\ q.data = ArgWords
      BY <2>1 DEF HeaderWord, LengthWord, ArgsPacket
    <3>2. ArgBytes \in Nat /\ (ArgBytes + 3) \div 4 \in Nat /\ (ArgBytes + 3) \div 4 > 0
      BY ArgumentsAssumption, UncountedAssumption DEF Word
    <3>3. Len(ArgWords) = (ArgBytes + 3) \div 4
      BY <3>2 DEF ArgWords
    <3>4. PICK w : w = (ArgBytes + 3) \div 4
      OBVIOUS
    <3>5. w > Len(f) - (t + 2)
      BY <1>2, <3>1, <3>2, <3>3, <3>4
    <3>6. f[t + 1] = ArgumentInfo /\ (f[t + 2] + 3) \div 4 > Len(f) - (t + 2)
      BY <1>2, <3>1, <3>4, <3>5
    <3> QED
      BY <1>2, <3>6 DEF Incomplete
  <2>2. CASE q.kind \in CountedKind /\ q.data \in Seq(Word) /\ Len(q.data) \in Word
    <3>1. q.kind \in BlockKind /\ HeaderWord(q) = TypeOf[q.kind] /\ LengthWord(q) = Len(q.data)
      BY <2>2 DEF CountedKind, BlockKind, HeaderWord, LengthWord
    <3>2. Len(q.data) \in Nat
      BY <2>2
    <3>3. Len(q.data) = 0 \/ Len(q.data) > Len(f) - (t + 2)
      BY <1>2, <3>2
    <3>4. f[t + 1] = TypeOf[q.kind] /\ (f[t + 2] = 0 \/ f[t + 2] > Len(f) - (t + 2))
      BY <1>2, <3>1, <3>3
    <3> QED
      BY <1>2, <3>1, <3>4 DEF Incomplete
  <2> QED
    BY <2>1, <2>2 DEF Storable
<1> QED
  BY <1>1, <1>2

\* What is torn at the end of the file stays torn there when the file stays,
\* and packets without counters may follow.
LEMMA TornStays ==
  ASSUME TypeOK, TypeOK', NEW place, NEW m, NEW j, Position(place, m, j),
         torn = {Len(file)}, torn' = torn, Len(file') = Len(file), Extends(file, file'),
         Len(deposited) <= Len(deposited'),
         \A n \in 1 .. Len(deposited) : deposited'[n] = deposited[n],
         \A n \in (Len(deposited) + 1) .. Len(deposited') : Hollow(deposited'[n]),
         UNCHANGED loaderVars
  PROVE  Position(place, m, j)'
<1> DEFINE t == place[m + 1]
<1>1. /\ place \in [Nat -> Nat] /\ m \in Nat /\ m <= Len(deposited) /\ Ends(t, m)
  BY DEF Position
<1>2. t \in Nat
  BY <1>1
<1>3. file \in Seq(Word) /\ file' \in Seq(Word) /\ deposited \in Seq(Packet) /\ deposited' \in Seq(Packet)
  BY DEF TypeOK
<1> HIDE DEF t
<1>4. Incomplete(file, t) \/ (Len(file) = t /\ \A n \in (m + 1) .. Len(deposited) : Hollow(deposited[n]))
  <2>1. torn # {}
    OBVIOUS
  <2> QED
    BY <1>1, <2>1, Zenon DEF Ends
<1>5. Incomplete(file, t) => Incomplete(file', t)
  <2>1. ASSUME Len(file) >= t + 2
        PROVE  file'[t + 1] = file[t + 1] /\ file'[t + 2] = file[t + 2]
    <3>1. t + 1 \in 1 .. Len(file) /\ t + 2 \in 1 .. Len(file)
      BY <1>2, <1>3, <2>1
    <3> QED
      BY <3>1 DEF Extends
  <2> QED
    BY <2>1, Zenon DEF Incomplete
<1>6. ASSUME \A n \in (m + 1) .. Len(deposited) : Hollow(deposited[n])
      PROVE  \A n \in (m + 1) .. Len(deposited') : Hollow(deposited'[n])
  <2>1. \A n \in (m + 1) .. Len(deposited') :
          n \in (Len(deposited) + 1) .. Len(deposited')
          \/ (n \in (m + 1) .. Len(deposited) /\ n \in 1 .. Len(deposited))
    BY <1>1, <1>3
  <2> QED
    BY <1>6, <2>1
<1>7. Ends(t, m)'
  BY <1>4, <1>5, <1>6, Zenon DEF Ends
<1>8. \A n \in 1 .. m : deposited'[n] = deposited[n]
  <2>1. \A n \in 1 .. m : n \in 1 .. Len(deposited)
    BY <1>1, <1>3
  <2> QED
    BY <2>1
<1>9. m <= Len(deposited') /\ m <= m
  BY <1>1, <1>3
<1> QED
  BY <1>1, <1>7, <1>8, <1>9, Reposition DEF t

\* The numbers of a position
LEMMA PositionNumbers ==
  ASSUME NEW place, NEW m, NEW j, Position(place, m, j)
  PROVE  place \in [Nat -> Nat] /\ m \in Nat /\ m <= Len(deposited) /\ m <= m
<1>1. place \in [Nat -> Nat] /\ m \in Nat /\ m <= Len(deposited)
  BY Zenon DEF Position
<1>2. m <= m
  BY <1>1
<1> QED
  BY <1>1, <1>2

\* Where the file ends behind its packets while nothing was torn
LEMMA WholeFile ==
  ASSUME Base, NEW place, NEW m, NEW j, Position(place, m, j), torn = {}
  PROVE  /\ m = Len(deposited) /\ place[m + 1] \in Nat
         /\ (\A q \in Proc : ~Writing(q)) => Len(file) = place[m + 1]
         /\ \A p \in Proc : Writing(p) =>
              /\ file[place[m + 1] + 1] = HeaderWord(Current(p))
              /\ Len(todo[p]) \in {2, 5} => Len(file) = place[m + 1] + 1
              /\ Len(todo[p]) \in {1, 4} => /\ Len(file) = place[m + 1] + 2
                                            /\ file[place[m + 1] + 2] = LengthWord(Current(p))
<1> DEFINE t == place[m + 1]
<1>1. place \in [Nat -> Nat] /\ m \in Nat /\ Ends(t, m)
  BY DEF Position
<1>2. t \in Nat
  BY <1>1
<1>3. torn # {Len(file)}
  OBVIOUS
<1> HIDE DEF t
<1>4. m = Len(deposited) /\ Begun(t)
  BY <1>1, <1>3, Zenon DEF Ends
<1>5. (\A q \in Proc : ~Writing(q)) => Len(file) = t
  BY <1>4, Zenon DEF Begun
<1>6. ASSUME NEW p \in Proc, Writing(p)
      PROVE  /\ file[t + 1] = HeaderWord(Current(p))
             /\ Len(todo[p]) \in {2, 5} => Len(file) = t + 1
             /\ Len(todo[p]) \in {1, 4} => Len(file) = t + 2 /\ file[t + 2] = LengthWord(Current(p))
  BY <1>4, <1>6, Zenon DEF Begun
<1>7. /\ m = Len(deposited) /\ t \in Nat
      /\ (\A q \in Proc : ~Writing(q)) => Len(file) = t
      /\ \A p \in Proc : Writing(p) =>
           /\ file[t + 1] = HeaderWord(Current(p))
           /\ Len(todo[p]) \in {2, 5} => Len(file) = t + 1
           /\ Len(todo[p]) \in {1, 4} => Len(file) = t + 2 /\ file[t + 2] = LengthWord(Current(p))
  BY <1>2, <1>4, <1>5, <1>6, Zenon
<1> QED
  BY <1>7 DEF t

\* A run in the middle of a packet has the file open, and made one or two of
\* its calls.
LEMMA HalfWay ==
  ASSUME Base, NEW p \in Proc
  PROVE  /\ Writing(p) => /\ Active(p) /\ todo[p] # <<>> /\ off[p] # Closed
                          /\ Len(todo[p]) \in {2, 5} \/ Len(todo[p]) \in {1, 4}
         /\ Active(p) /\ off[p] # Closed /\ (Len(todo[p]) \in {2, 5} \/ Len(todo[p]) \in {1, 4})
              => Writing(p)
<1>1. Len(todo[p]) \in 0 .. 6
  BY DEF Base, Pending, Expected
<1>2. \A L \in 0 .. 6 : L \notin {0, 3, 6} => L # 0 /\ (L \in {2, 5} \/ L \in {1, 4})
  OBVIOUS
<1>3. \A L : L \in {2, 5} \/ L \in {1, 4} => L \notin {0, 3, 6}
  OBVIOUS
<1>4. Len(<<>>) = 0
  OBVIOUS
<1>5. Writing(p) <=> Active(p) /\ off[p] # Closed /\ Len(todo[p]) \notin {0, 3, 6}
  BY DEF Writing, MidPacket
<1>6. PICK L : L = Len(todo[p])
  OBVIOUS
<1>7. L # 0 => todo[p] # <<>>
  BY <1>4, <1>6, Zenon
<1>8. L \notin {0, 3, 6} => L # 0 /\ (L \in {2, 5} \/ L \in {1, 4})
  BY <1>1, <1>2, <1>6, Zenon
<1>9. L \in {2, 5} \/ L \in {1, 4} => L \notin {0, 3, 6}
  BY <1>3, Zenon
<1> QED
  BY <1>5, <1>6, <1>7, <1>8, <1>9, Zenon

\* A run that dies or gives up in the middle of a packet leaves it torn.
LEMMA TearKeeps ==
  ASSUME Base, TypeOK', FileInv, ArgBytes > 0, NEW p \in Proc, Writing(p), Tear(p, off[p]),
         file' = file, deposited' = deposited, UNCHANGED loaderVars
  PROVE  FileInv'
<1> SUFFICES ASSUME torn' \subseteq {Len(file')}
             PROVE  (\E place, m, j : Position(place, m, j))'
  BY DEF FileInv
<1>0. TypeOK /\ file \in Seq(Word) /\ Len(file) \in Nat
  <2>1. TypeOK
    BY DEF Base
  <2>2. file \in Seq(Word)
    BY <2>1 DEF TypeOK
  <2> QED
    BY <2>1, <2>2
<1>1. Active(p) /\ todo[p] # <<>> /\ off[p] # Closed /\ MidPacket(p)
  BY HalfWay DEF Writing
<1>2. off[p] = Len(file) /\ Storable(Current(p))
  BY <1>1, WriterStands DEF Base
<1>3. torn' = torn \cup {Len(file)}
  BY <1>1, <1>2 DEF Tear
<1>4. torn \subseteq {Len(file)} /\ torn' = {Len(file)}
  BY <1>3
<1>5. PICK place, m, j : Position(place, m, j)
  BY <1>4 DEF FileInv
<1>6. place \in [Nat -> Nat] /\ m \in Nat /\ m <= Len(deposited) /\ m <= m
  BY <1>5, PositionNumbers
<1>7. Extends(file, file') /\ Len(file') = Len(file)
  BY <1>0 DEF Extends
<1>8. CASE torn = {}
  <2> DEFINE t == place[m + 1]
  <2>1. /\ t \in Nat /\ file[t + 1] = HeaderWord(Current(p))
        /\ Len(file) = t + 1 \/ (Len(file) = t + 2 /\ file[t + 2] = LengthWord(Current(p)))
    BY <1>5, <1>8, WholeFile, HalfWay
  <2> HIDE DEF t
  <2>2. Len(file) = t + 2 => Len(file) >= t + 2
    BY <1>0, <2>1
  <2>3. Incomplete(file, t)
    <3>1. PICK q : q = Current(p)
      OBVIOUS
    <3>2. /\ file[t + 1] = HeaderWord(q)
          /\ Len(file) = t + 1 \/ (Len(file) >= t + 2 /\ file[t + 2] = LengthWord(q)
                             /\ (Len(file) - (t + 2) < Len(q.data) \/ Len(file) = t + 2))
      BY <2>1, <2>2, <3>1, Zenon
    <3> QED
      BY <1>0, <1>2, <2>1, <3>1, <3>2, HalfIsIncomplete
  <2>4. Ends(t, m)'
    BY <1>4, <2>3, Zenon DEF Ends
  <2>5. Position(place, m, j)'
    BY <1>0, <1>5, <1>6, <1>7, <2>4, Reposition DEF t
  <2> QED
    BY <2>5
<1>9. CASE torn # {}
  <2>1. torn = {Len(file)} /\ torn' = torn
    BY <1>4, <1>9
  <2>2. deposited \in Seq(Packet) /\ Len(deposited) \in Nat
    BY <1>0 DEF TypeOK
  <2>3. Len(deposited) <= Len(deposited') /\ \A n \in (Len(deposited) + 1) .. Len(deposited') : Hollow(deposited'[n])
    BY <2>2
  <2>4. Position(place, m, j)'
    BY <1>0, <1>5, <1>7, <2>1, <2>3, TornStays
  <2> QED
    BY <2>4
<1> QED
  BY <1>8, <1>9

\* Behind a torn packet the file does not grow, or it is not looked at again.
LEMMA TornOrGrown ==
  ASSUME Base, NEW ws \in Seq(Word), Len(file') = Len(file) + Len(ws),
         torn # {}, torn \subseteq torn', torn' \subseteq {Len(file')}
  PROVE  torn = {Len(file)} /\ torn' = torn /\ Len(ws) = 0
<1>1. PICK x \in torn : TRUE
  OBVIOUS
<1>2. x = Len(file') /\ x <= Len(file) /\ x \in Nat
  BY DEF Base, TypeOK, TornPlaces
<1>3. Len(file) \in Nat /\ Len(ws) \in Nat
  BY DEF Base, TypeOK
<1>4. Len(ws) = 0 /\ Len(file') = Len(file)
  BY <1>2, <1>3
<1>5. torn' = {Len(file)} /\ torn = {Len(file)}
  BY <1>2, <1>4
<1> QED
  BY <1>4, <1>5

\* A write() that writes less than it should leaves its packet torn.
LEMMA ShortKeeps ==
  ASSUME Base, TypeOK', FileInv, ArgBytes > 0, NEW p \in Proc, ShortWrite(p)
  PROVE  FileInv'
<1> SUFFICES ASSUME torn' \subseteq {Len(file')}
             PROVE  (\E place, m, j : Position(place, m, j))'
  BY DEF FileInv
<1>0. TypeOK /\ file \in Seq(Word) /\ file' \in Seq(Word) /\ Len(file) \in Nat
      /\ deposited \in Seq(Packet) /\ Len(deposited) \in Nat
  <2>1. TypeOK
    BY DEF Base
  <2>2. file \in Seq(Word) /\ deposited \in Seq(Packet)
    BY <2>1 DEF TypeOK
  <2>3. file' \in Seq(Word)
    BY DEF TypeOK
  <2> QED
    BY <2>1, <2>2, <2>3
<1>1. Active(p) /\ todo[p] # <<>> /\ off[p] # Closed /\ deposited' = deposited /\ UNCHANGED loaderVars
  BY DEF ShortWrite
<1> DEFINE L == Len(todo[p])
           q == Current(p)
           h == Head(todo[p])
<1>2. /\ off[p] = Len(file) /\ L \in 1 .. 6 /\ Storable(q) /\ q.data \in Seq(Word) /\ h \in Seq(Word)
      /\ L \in {3, 6} => h = <<HeaderWord(q)>>
      /\ L \in {2, 5} => h = <<LengthWord(q)>>
      /\ L \in {1, 4} => h = q.data
      /\ \A r \in Proc : Active(r) => r = p
  BY <1>1, WriterStands DEF Base
<1>3. PICK n \in 0 .. (Len(h) - 1) :
        WriteAt(off[p], SubSeq(h, 1, n)) /\ torn' = torn \cup {off[p] + n}
  BY DEF ShortWrite
<1>4. L \in {3, 6} \/ L \in {2, 5} \/ L \in {1, 4}
  BY <1>2, Six, Zenon
<1>W. /\ (L \in {2, 5} \/ L \in {1, 4}) => Writing(p)
      /\ L \in {3, 6} => ~Writing(p)
  <2>1. L \in {3, 6} => L \notin {2, 5} /\ L \notin {1, 4}
    BY <1>2, Six, Zenon
  <2> QED
    BY <1>1, <2>1, HalfWay
<1> HIDE DEF L, q, h
<1> DEFINE ws == SubSeq(h, 1, n)
<1>5. ws \in Seq(Word) /\ Len(ws) = n /\ n \in Nat /\ n < Len(h)
  BY <1>2
<1>6. WriteAt(Len(file), ws)
  BY <1>2, <1>3
<1> HIDE DEF ws
<1>7. Len(file') = Len(file) + n /\ Extends(file, file') /\ file' \in Seq(Word)
  BY <1>0, <1>5, <1>6, WriteAppends
<1>8. torn' = torn \cup {Len(file')}
  BY <1>2, <1>3, <1>7
<1>9. CASE torn = {}
  <2>1. PICK place, m, j : Position(place, m, j)
    BY <1>9 DEF FileInv
  <2>2. place \in [Nat -> Nat] /\ m \in Nat /\ m <= Len(deposited') /\ m <= m
    BY <1>1, <2>1, PositionNumbers
  <2> DEFINE t == place[m + 1]
  <2>3. /\ m = Len(deposited) /\ t \in Nat
        /\ (\A r \in Proc : ~Writing(r)) => Len(file) = t
        /\ Writing(p) =>
             /\ file[t + 1] = HeaderWord(q)
             /\ L \in {2, 5} => Len(file) = t + 1
             /\ L \in {1, 4} => Len(file) = t + 2 /\ file[t + 2] = LengthWord(q)
    BY <1>9, <2>1, WholeFile DEF L, q
  <2> HIDE DEF t
  <2>4. torn' = {Len(file')}
    BY <1>8, <1>9
  <2>5. Incomplete(file', t) \/ Len(file') = t
    <3>1. CASE L \in {3, 6}
      <4>1. h = <<HeaderWord(q)>>
        BY <1>2, <3>1
      <4>2. n = 0
        BY <1>5, <4>1
      <4>3. \A r \in Proc : ~Writing(r)
        BY <1>2, <1>W, <3>1 DEF Writing
      <4>4. Len(file) = t
        BY <2>3, <4>3
      <4> QED
        BY <1>0, <1>7, <4>2, <4>4
    <3>2. CASE L \in {2, 5}
      <4>1. h = <<LengthWord(q)>>
        BY <1>2, <3>2
      <4>2. n = 0
        BY <1>5, <4>1
      <4>3. Len(file) = t + 1
        BY <1>W, <2>3, <3>2
      <4>4. Len(file') = t + 1
        BY <1>0, <1>7, <4>2, <4>3
      <4> QED
        BY <4>4 DEF Incomplete
    <3>3. CASE L \in {1, 4}
      <4>1. /\ h = q.data /\ Len(file) = t + 2 /\ file[t + 1] = HeaderWord(q)
            /\ file[t + 2] = LengthWord(q)
        BY <1>2, <1>W, <2>3, <3>3
      <4>2. file'[t + 1] = HeaderWord(q) /\ file'[t + 2] = LengthWord(q)
        <5>1. t + 1 \in 1 .. Len(file) /\ t + 2 \in 1 .. Len(file)
          BY <2>3, <4>1
        <5> QED
          BY <1>7, <4>1, <5>1 DEF Extends
      <4>3. Len(file') >= t + 2 /\ Len(file') - (t + 2) < Len(q.data)
        BY <1>5, <1>7, <2>3, <4>1
      <4> QED
        BY <1>0, <1>2, <2>3, <4>2, <4>3, HalfIsIncomplete
    <3> QED
      BY <1>4, <3>1, <3>2, <3>3
  <2>6. \A i \in (m + 1) .. Len(deposited') : Hollow(deposited'[i])
    <3>1. (m + 1) .. Len(deposited') = {}
      BY <1>0, <1>1, <2>3
    <3> QED
      BY <3>1
  <2>7. Ends(t, m)'
    BY <2>4, <2>5, <2>6, Zenon DEF Ends
  <2>8. Position(place, m, j)'
    <3>1. \A i \in 1 .. m : deposited'[i] = deposited[i]
      BY <1>1
    <3> QED
      BY <1>0, <1>1, <1>7, <2>1, <2>2, <2>7, <3>1, Reposition DEF t
  <2> QED
    BY <2>8
<1>10. CASE torn # {}
  <2>1. torn = {Len(file)} /\ torn' = torn /\ n = 0
    BY <1>5, <1>7, <1>8, <1>10, TornOrGrown
  <2>2. PICK place, m, j : Position(place, m, j)
    BY <2>1 DEF FileInv
  <2>3. Len(file') = Len(file)
    BY <1>0, <1>7, <2>1
  <2>4. Len(deposited) <= Len(deposited') /\ \A i \in (Len(deposited) + 1) .. Len(deposited') : Hollow(deposited'[i])
    BY <1>0, <1>1
  <2>5. \A i \in 1 .. Len(deposited) : deposited'[i] = deposited[i]
    BY <1>1
  <2>6. Position(place, m, j)'
    BY <1>0, <1>1, <1>7, <2>1, <2>2, <2>3, <2>4, <2>5, TornStays
  <2> QED
    BY <2>6
<1> QED
  BY <1>9, <1>10

\* What is deposited by a write(): the packet, after its last call.
LEMMA CompletedIs ==
  ASSUME TypeOK, NEW p \in Proc, Len(todo[p]) \in 1 .. 6, Current(p) \in Packet,
         deposited' = deposited \o Completed(p)
  PROVE  /\ Len(todo[p]) \in {1, 4} =>
              /\ Len(deposited') = Len(deposited) + 1
              /\ deposited'[Len(deposited) + 1] = Current(p)
         /\ Len(todo[p]) \notin {1, 4} => Len(deposited') = Len(deposited)
         /\ \A n \in 1 .. Len(deposited) : deposited'[n] = deposited[n]
<1> DEFINE a == deposited
           c == Completed(p)
<1>1. a \in Seq(Packet) /\ Len(a) \in Nat
  BY DEF TypeOK
<1>2. Len(todo[p]) \in {1, 4} => c = <<Current(p)>>
  <2>1. \A L \in 1 .. 6 : L \in {1, 4} => (L = 4 /\ L > 3) \/ (L = 1 /\ L # 4 /\ ~(L > 3))
    OBVIOUS
  <2> QED
    BY <2>1, Zenon DEF Completed, Current
<1>3. Len(todo[p]) \notin {1, 4} => c = <<>>
  <2>1. \A L : L \notin {1, 4} => L # 1 /\ L # 4
    OBVIOUS
  <2> QED
    BY <2>1, Zenon DEF Completed
<1> HIDE DEF a, c
<1>4. deposited' = a \o c
  BY DEF a, c
<1>5. CASE Len(todo[p]) \in {1, 4}
  <2>1. deposited' = a \o <<Current(p)>>
    BY <1>2, <1>4, <1>5
  <2>2. /\ Len(deposited') = Len(a) + 1 /\ deposited'[Len(a) + 1] = Current(p)
        /\ \A n \in 1 .. Len(a) : deposited'[n] = a[n]
    BY <1>1, <2>1
  <2> QED
    BY <1>5, <2>2 DEF a
<1>6. CASE Len(todo[p]) \notin {1, 4}
  <2>1. deposited' = a
    BY <1>1, <1>3, <1>4, <1>6
  <2> QED
    BY <1>6, <2>1 DEF a
<1> QED
  BY <1>5, <1>6

\* What a write() does, by the number of the call.
LEMMA WriteDoes ==
  ASSUME Base, NEW p \in Proc, Write(p)
  PROVE  /\ TypeOK /\ file \in Seq(Word) /\ file' \in Seq(Word) /\ Len(file) \in Nat
         /\ deposited \in Seq(Packet) /\ Len(deposited) \in Nat
         /\ Len(todo[p]) \in 1 .. 6
         /\ Storable(Current(p)) /\ Current(p).data \in Seq(Word)
         /\ Head(todo[p]) \in Seq(Word)
         /\ Len(todo[p]) \in {3, 6} => Head(todo[p]) = <<HeaderWord(Current(p))>>
         /\ Len(todo[p]) \in {2, 5} => Head(todo[p]) = <<LengthWord(Current(p))>>
         /\ Len(todo[p]) \in {1, 4} => Head(todo[p]) = Current(p).data
         /\ Len(file') = Len(file) + Len(Head(todo[p])) /\ Extends(file, file')
         /\ \A i \in 1 .. Len(Head(todo[p])) : file'[Len(file) + i] = Head(todo[p])[i]
         /\ \A q \in Proc : Active(q)' => q = p
         /\ Active(p) /\ Active(p)' /\ off[p] # Closed /\ off'[p] # Closed
         /\ Len(todo'[p]) = Len(todo[p]) - 1
         /\ Len(todo[p]) \notin {1, 4} => Current(p)' = Current(p)
         /\ torn' = torn /\ UNCHANGED loaderVars
         /\ deposited' = deposited \o Completed(p) /\ Current(p) \in Packet
<1>1. /\ Active(p) /\ todo[p] # <<>> /\ off[p] # Closed
      /\ WriteAt(off[p], Head(todo[p]))
      /\ off' = [off EXCEPT ![p] = off[p] + Len(Head(todo[p]))]
      /\ AfterWrite(p) /\ st' = st /\ torn' = torn /\ UNCHANGED loaderVars
      /\ deposited' = deposited \o Completed(p)
  BY DEF Write
<1>2. TypeOK /\ Pending /\ SingleWriter
  BY DEF Base
<1>3. /\ file \in Seq(Word) /\ deposited \in Seq(Packet) /\ off \in [Proc -> Nat \cup {Closed}]
      /\ Closed \notin Nat
  BY <1>2 DEF TypeOK, Closed
<1>4. /\ off[p] = Len(file)
      /\ Len(todo[p]) \in 1 .. 6
      /\ Storable(Current(p)) /\ Current(p).data \in Seq(Word)
      /\ Head(todo[p]) \in Seq(Word)
      /\ Len(todo[p]) \in {3, 6} => Head(todo[p]) = <<HeaderWord(Current(p))>>
      /\ Len(todo[p]) \in {2, 5} => Head(todo[p]) = <<LengthWord(Current(p))>>
      /\ Len(todo[p]) \in {1, 4} => Head(todo[p]) = Current(p).data
      /\ \A q \in Proc : Active(q) => q = p
  BY <1>1, <1>2, WriterStands
<1>5. /\ file' \in Seq(Word)
      /\ Len(file') = Len(file) + Len(Head(todo[p]))
      /\ Extends(file, file')
      /\ \A i \in 1 .. Len(Head(todo[p])) : file'[Len(file) + i] = Head(todo[p])[i]
  <2>1. WriteAt(Len(file), Head(todo[p]))
    BY <1>1, <1>4
  <2> QED
    BY <1>3, <1>4, <2>1, WriteAppends
<1>6. /\ Len(todo'[p]) = Len(todo[p]) - 1
      /\ Len(todo[p]) \notin {1, 4} => Current(p)' = Current(p)
  BY <1>1, <1>2, <1>4, WriterMoves
<1>7. (\A q \in Proc : Active(q)' => q = p) /\ Active(p)'
  BY <1>1, <1>4, Zenon DEF Active
<1>8. off'[p] # Closed
  <2>1. Len(Head(todo[p])) \in Nat /\ Len(file) \in Nat
    BY <1>3, <1>4
  <2>2. off'[p] = Len(file) + Len(Head(todo[p]))
    BY <1>1, <1>3, <1>4
  <2> QED
    BY <1>3, <2>1, <2>2
<1>9. Current(p) \in Packet
  <2>1. ArgWords \in Seq(Word)
    BY ArgumentsAssumption, UncountedAssumption DEF ArgWords, Word
  <2>2. ArgsPacket \in Packet
    BY <2>1 DEF ArgsPacket, Packet
  <2>3. packet[p] \in Packet
    BY <1>2 DEF TypeOK
  <2> QED
    BY <2>2, <2>3 DEF Current
<1>10. Len(file) \in Nat /\ Len(deposited) \in Nat
  BY <1>3
<1> QED
  BY <1>1, <1>2, <1>3, <1>4, <1>5, <1>6, <1>7, <1>8, <1>9, <1>10, Zenon

\* A packet of no words that is not the arguments has no counters.
LEMMA EmptyIsHollow ==
  ASSUME NEW q, Storable(q), q.data \in Seq(Word), Len(q.data) = 0, ArgBytes > 0
  PROVE  Hollow(q)
<1>1. q.data = <<>>
  BY EmptyIffNoLength
<1>2. q # ArgsPacket
  <2>1. (ArgBytes + 3) \div 4 \in Nat /\ (ArgBytes + 3) \div 4 > 0
    BY ArgumentsAssumption, UncountedAssumption DEF Word
  <2>2. Len(ArgWords) = (ArgBytes + 3) \div 4
    BY <2>1 DEF ArgWords
  <2>3. ArgsPacket.data = ArgWords
    BY DEF ArgsPacket
  <2> QED
    BY <2>1, <2>2, <2>3
<1> QED
  BY <1>1, <1>2 DEF Storable, Hollow, CountedKind, BlockKind

\* A write() that is not the last of its packet puts the packet's header or
\* its length behind the packets that are there.
LEMMA HeaderKeeps ==
  ASSUME Base, TypeOK', torn = {}, NEW p \in Proc, Write(p), Len(todo[p]) \notin {1, 4},
         NEW place, NEW m, NEW j, Position(place, m, j)
  PROVE  Position(place, m, j)'
<1> DEFINE t == place[m + 1]
           L == Len(todo[p])
<1>1. /\ TypeOK /\ file \in Seq(Word) /\ Len(file) \in Nat
      /\ L \in 1 .. 6
      /\ L \in {3, 6} => Head(todo[p]) = <<HeaderWord(Current(p))>>
      /\ L \in {2, 5} => Head(todo[p]) = <<LengthWord(Current(p))>>
      /\ Len(file') = Len(file) + Len(Head(todo[p])) /\ Extends(file, file')
      /\ \A i \in 1 .. Len(Head(todo[p])) : file'[Len(file) + i] = Head(todo[p])[i]
      /\ \A q \in Proc : Active(q)' => q = p
      /\ Active(p) /\ Active(p)' /\ off[p] # Closed /\ off'[p] # Closed
      /\ Len(todo'[p]) = L - 1
      /\ Current(p)' = Current(p)
      /\ torn' = torn /\ UNCHANGED loaderVars
      /\ deposited' = deposited \o Completed(p) /\ Current(p) \in Packet
      /\ deposited \in Seq(Packet) /\ Len(deposited) \in Nat
  BY WriteDoes, Zenon
<1>2. Len(deposited') = Len(deposited) /\ \A n \in 1 .. Len(deposited) : deposited'[n] = deposited[n]
  BY <1>1, CompletedIs
<1>3. /\ m = Len(deposited) /\ t \in Nat
      /\ (\A q \in Proc : ~Writing(q)) => Len(file) = t
      /\ Writing(p) =>
           /\ file[t + 1] = HeaderWord(Current(p))
           /\ L \in {2, 5} => Len(file) = t + 1
  BY WholeFile
<1>4. place \in [Nat -> Nat] /\ m \in Nat /\ m <= m
  BY PositionNumbers
<1>H. /\ L \in {2, 5} \/ L \in {1, 4} => Writing(p)
      /\ Writing(p) => L \in {2, 5} \/ L \in {1, 4}
  BY <1>1, HalfWay
<1>A. \A q \in Proc : Active(q) => q = p
  BY <1>1 DEF Base, SingleWriter
<1> HIDE DEF t
<1>5. L \in {3, 6} \/ L \in {2, 5}
  BY <1>1, Six, Zenon
<1>6. Writing(p)'
  <2>1. L - 1 \notin {0, 3, 6}
    BY <1>1, Six, Zenon
  <2>2. Len(todo'[p]) \notin {0, 3, 6}
    BY <1>1, <2>1, Zenon
  <2> QED
    BY <1>1, <2>2, Zenon DEF Writing, MidPacket
<1>7. Begun(t)'
  <2>1. CASE L \in {3, 6}
    <3>1. Len(todo'[p]) \in {2, 5} /\ Len(todo'[p]) \notin {1, 4}
      <4>1. L - 1 \in {2, 5}
        BY <1>1, <2>1, Six, Zenon
      <4>2. \A x \in {2, 5} : x \notin {1, 4}
        OBVIOUS
      <4> QED
        BY <1>1, <4>1, <4>2, Zenon
    <3>2. ~Writing(p)
      BY <1>1, <1>H, <2>1, Six, Zenon
    <3>3. Len(file) = t
      BY <1>3, <1>A, <3>2 DEF Writing
    <3>4. Len(file') = t + 1 /\ file'[t + 1] = HeaderWord(Current(p))
      <4>1. Head(todo[p]) = <<HeaderWord(Current(p))>>
        BY <1>1, <2>1
      <4>2. Len(Head(todo[p])) = 1 /\ Head(todo[p])[1] = HeaderWord(Current(p)) /\ 1 \in 1 .. 1
        BY <4>1
      <4>3. Len(file') = Len(file) + 1 /\ file'[Len(file) + 1] = HeaderWord(Current(p))
        BY <1>1, <4>2, Zenon
      <4> QED
        BY <3>3, <4>3
    <3>5. file'[t + 1] = HeaderWord(Current(p)')
      BY <1>1, <3>4
    <3> QED
      BY <1>1, <1>6, <3>1, <3>4, <3>5, Zenon DEF Begun, Writing
  <2>2. CASE L \in {2, 5}
    <3>1. Len(todo'[p]) \in {1, 4} /\ Len(todo'[p]) \notin {2, 5}
      <4>1. L - 1 \in {1, 4}
        BY <1>1, <2>2, Six, Zenon
      <4>2. \A x \in {1, 4} : x \notin {2, 5}
        OBVIOUS
      <4> QED
        BY <1>1, <4>1, <4>2, Zenon
    <3>2. Len(file) = t + 1 /\ file[t + 1] = HeaderWord(Current(p))
      BY <1>3, <1>H, <2>2
    <3>3. Len(file') = t + 2 /\ file'[t + 2] = LengthWord(Current(p))
      <4>1. Head(todo[p]) = <<LengthWord(Current(p))>>
        BY <1>1, <2>2
      <4>2. Len(Head(todo[p])) = 1 /\ Head(todo[p])[1] = LengthWord(Current(p)) /\ 1 \in 1 .. 1
        BY <4>1
      <4>3. Len(file') = Len(file) + 1 /\ file'[Len(file) + 1] = LengthWord(Current(p))
        BY <1>1, <4>2, Zenon
      <4>4. (t + 1) + 1 = t + 2
        BY <1>3
      <4> QED
        BY <3>2, <4>3, <4>4, Zenon
    <3>4. file'[t + 1] = HeaderWord(Current(p))
      <4>1. t + 1 \in 1 .. Len(file)
        BY <1>3, <3>2
      <4> QED
        BY <1>1, <3>2, <4>1 DEF Extends
    <3>5. file'[t + 1] = HeaderWord(Current(p)') /\ file'[t + 2] = LengthWord(Current(p)')
      BY <1>1, <3>3, <3>4
    <3> QED
      BY <1>1, <1>6, <3>1, <3>3, <3>5, Zenon DEF Begun, Writing
  <2> QED
    BY <1>5, <2>1, <2>2
<1>8. Ends(t, m)'
  BY <1>1, <1>2, <1>3, <1>7, Zenon DEF Ends
<1>9. m <= Len(deposited') /\ \A n \in 1 .. m : deposited'[n] = deposited[n]
  BY <1>2, <1>3, <1>4
<1> QED
  BY <1>1, <1>4, <1>8, <1>9, Reposition DEF t

\* z has one place more than y.
OneMore(z, y, m, x) ==
  /\ z \in [Nat -> Nat] /\ z[m + 2] = x
  /\ \A n \in 1 .. m + 1 : z[n] = y[n]

\* There is room for one place more.
LEMMA PlaceMore ==
  ASSUME NEW place \in [Nat -> Nat], NEW m \in Nat, NEW x \in Nat
  PROVE  OneMore([place EXCEPT ![m + 2] = x], place, m, x)
<1> SUFFICES
         /\ [place EXCEPT ![m + 2] = x] \in [Nat -> Nat]
         /\ [place EXCEPT ![m + 2] = x][m + 2] = x
         /\ \A n \in 1 .. m + 1 : [place EXCEPT ![m + 2] = x][n] = place[n]
  BY Zenon DEF OneMore
<1>1. m + 2 \in Nat /\ \A n \in 1 .. m + 1 : n \in Nat /\ n # m + 2
  OBVIOUS
<1> QED
  BY <1>1

\* The last write() of a packet completes it.
LEMMA DataKeeps ==
  ASSUME Base, TypeOK', torn = {}, NEW p \in Proc, Write(p), Len(todo[p]) \in {1, 4},
         NEW place, NEW m, NEW j, Position(place, m, j)
  PROVE  \E place2, m2 : Position(place2, m2, j)'
<1> DEFINE t == place[m + 1]
           q == Current(p)
<1>1. /\ TypeOK /\ file \in Seq(Word) /\ file' \in Seq(Word) /\ Len(file) \in Nat
      /\ Len(todo[p]) \in 1 .. 6 /\ q.data \in Seq(Word)
      /\ Head(todo[p]) = q.data
      /\ Len(file') = Len(file) + Len(Head(todo[p])) /\ Extends(file, file')
      /\ \A i \in 1 .. Len(Head(todo[p])) : file'[Len(file) + i] = Head(todo[p])[i]
      /\ \A r \in Proc : Active(r)' => r = p
      /\ Active(p) /\ off[p] # Closed
      /\ Len(todo'[p]) = Len(todo[p]) - 1
      /\ torn' = torn /\ UNCHANGED loaderVars
      /\ deposited' = deposited \o Completed(p) /\ q \in Packet
      /\ deposited \in Seq(Packet) /\ Len(deposited) \in Nat
  BY WriteDoes, Zenon
<1>2. /\ Len(deposited') = Len(deposited) + 1
      /\ deposited'[Len(deposited) + 1] = q
      /\ \A n \in 1 .. Len(deposited) : deposited'[n] = deposited[n]
  BY <1>1, CompletedIs
<1>3. /\ m = Len(deposited) /\ t \in Nat
      /\ Writing(p) =>
           /\ file[t + 1] = HeaderWord(q)
           /\ Len(todo[p]) \in {1, 4} => Len(file) = t + 2 /\ file[t + 2] = LengthWord(q)
  BY WholeFile
<1>4. Writing(p)
  BY <1>1, HalfWay
<1>5. Len(file) = t + 2 /\ file[t + 1] = HeaderWord(q) /\ file[t + 2] = LengthWord(q)
  BY <1>3, <1>4
<1>6. place \in [Nat -> Nat] /\ m \in Nat /\ m <= m
  BY PositionNumbers
<1>7. \A r \in Proc : ~Writing(r)'
  <2>1. Len(todo[p]) - 1 \in {0, 3, 6}
    BY <1>1, Six, Zenon
  <2>2. Len(todo'[p]) \in {0, 3, 6}
    BY <1>1, <2>1, Zenon
  <2> QED
    BY <1>1, <2>2, Zenon DEF Writing, MidPacket
<1>8. PICK t2 : t2 = t + 2 + Len(q.data)
  OBVIOUS
<1> HIDE DEF q, t
<1>N. Len(q.data) \in Nat /\ t2 \in Nat
  <2>1. Len(q.data) \in Nat
    BY <1>1
  <2>2. \A x, y \in Nat : x + 2 + y \in Nat
    OBVIOUS
  <2> QED
    BY <1>3, <1>8, <2>1, <2>2, Zenon
<1>Q. PICK place2 : place2 = [place EXCEPT ![m + 2] = t2]
  OBVIOUS
<1>9. PacketIn(file', t, q)
  <2>1. Len(file') = t + 2 + Len(q.data) /\ t + 2 + Len(q.data) <= Len(file')
    <3>1. Len(file') = t + 2 + Len(q.data)
      BY <1>1, <1>5, Zenon
    <3> QED
      BY <1>3, <1>N, <3>1
  <2>2. file'[t + 1] = HeaderWord(q) /\ file'[t + 2] = LengthWord(q)
    <3>1. t + 1 \in 1 .. Len(file) /\ t + 2 \in 1 .. Len(file)
      BY <1>3, <1>5
    <3> QED
      BY <1>1, <1>5, <3>1 DEF Extends
  <2>3. \A i \in 1 .. Len(q.data) : file'[t + 2 + i] = q.data[i]
    BY <1>1, <1>5
  <2> QED
    BY <2>1, <2>2, <2>3 DEF PacketIn
<1>10. Len(file') = t2
  BY <1>1, <1>5, <1>8, Zenon
<1>11. /\ place2 \in [Nat -> Nat] /\ place2[m + 2] = t2
       /\ \A n \in 1 .. m + 1 : place2[n] = place[n]
  <2> DEFINE z == [place EXCEPT ![m + 2] = t2]
  <2>1. z \in [Nat -> Nat] /\ z[m + 2] = t2 /\ \A n \in 1 .. m + 1 : z[n] = place[n]
    <3>1. place \in [Nat -> Nat] /\ m \in Nat /\ t2 \in Nat
      BY <1>6, <1>N, Zenon
    <3>2. OneMore(z, place, m, t2)
      BY <3>1, PlaceMore
    <3> HIDE DEF z
    <3> QED
      BY <3>2, Zenon DEF OneMore
  <2>2. place2 = z
    BY <1>Q
  <2> HIDE DEF z
  <2> QED
    BY <2>1, <2>2, Zenon
<1>12. place2[m + 1] = t
  BY <1>6, <1>11 DEF t
<1>13. Laid(file', deposited', place2, m) => Laid(file', deposited', place2, m + 1)
  <2>1. deposited'[m + 1] = q
    BY <1>2, <1>3
  <2>2. place2[m + 2] = place2[m + 1] + 2 + Len(deposited'[m + 1].data)
    BY <1>8, <1>11, <1>12, <2>1, Zenon
  <2>3. PacketIn(file', place2[m + 1], deposited'[m + 1])
    BY <1>9, <1>12, <2>1
  <2> QED
    BY <1>6, <1>11, <2>2, <2>3, LaidMore
<1>14. (m + 1) + 1 = m + 2 /\ m + 1 \in Nat /\ m <= m + 1 /\ m + 1 <= Len(deposited')
  BY <1>2, <1>3, <1>6
<1>15. Ends(place2[m + 2], m + 1)'
  <2>1. Begun(t2)'
    BY <1>7, <1>10, Zenon DEF Begun
  <2>2. torn' = {} /\ m + 1 = Len(deposited')
    BY <1>1, <1>2, <1>3
  <2> QED
    BY <1>11, <2>1, <2>2, Zenon DEF Ends
<1>16. \A n \in 1 .. m : deposited'[n] = deposited[n]
  BY <1>2, <1>3
<1>17. Position(place2, m + 1, j)'
  <2>1. PICK k : k = m + 1
    OBVIOUS
  <2>2. /\ k \in Nat /\ m <= k /\ k <= Len(deposited') /\ k + 1 = m + 2
        /\ Laid(file', deposited', place2, m) => Laid(file', deposited', place2, k)
    BY <1>13, <1>14, <2>1
  <2>3. Ends(place2[k + 1], k)'
    BY <1>15, <2>1, <2>2, Zenon
  <2>4. /\ TypeOK /\ TypeOK'
        /\ Position(place, m, j) /\ Extends(file, file') /\ UNCHANGED loaderVars
        /\ place2 \in [Nat -> Nat] /\ \A n \in 1 .. m + 1 : place2[n] = place[n]
        /\ \A n \in 1 .. m : deposited'[n] = deposited[n]
    BY <1>1, <1>11, <1>16 DEF Base
  <2>5. Position(place2, k, j)'
    BY <2>2, <2>3, <2>4, Reposition
  <2> QED
    BY <2>1, <2>5
<1> QED
  BY <1>17

\* A write() that writes all its data. Behind a torn packet only one without
\* words leaves the file as it is; otherwise FileInv claims nothing any more.
LEMMA WriteKeeps ==
  ASSUME Base, TypeOK', FileInv, ArgBytes > 0, NEW p \in Proc, Write(p)
  PROVE  FileInv'
<1> SUFFICES ASSUME torn' \subseteq {Len(file')}
             PROVE  (\E place, m, j : Position(place, m, j))'
  BY DEF FileInv
<1>1. CASE torn = {}
  <2>1. PICK place, m, j : Position(place, m, j)
    BY <1>1 DEF FileInv
  <2>2. CASE Len(todo[p]) \in {1, 4}
    BY <1>1, <2>1, <2>2, DataKeeps
  <2>3. CASE Len(todo[p]) \notin {1, 4}
    <3>1. Position(place, m, j)'
      BY <1>1, <2>1, <2>3, HeaderKeeps
    <3> QED
      BY <3>1
  <2> QED
    BY <2>2, <2>3
<1>2. CASE torn # {}
  <2> DEFINE h == Head(todo[p])
             L == Len(todo[p])
             q == Current(p)
  <2>1. /\ TypeOK /\ file \in Seq(Word) /\ file' \in Seq(Word) /\ Len(file) \in Nat
        /\ L \in 1 .. 6 /\ Storable(q) /\ q.data \in Seq(Word) /\ h \in Seq(Word)
        /\ L \in {3, 6} => h = <<HeaderWord(q)>>
        /\ L \in {2, 5} => h = <<LengthWord(q)>>
        /\ L \in {1, 4} => h = q.data
        /\ Len(file') = Len(file) + Len(h) /\ Extends(file, file')
        /\ torn' = torn /\ UNCHANGED loaderVars
        /\ deposited' = deposited \o Completed(p) /\ q \in Packet
        /\ deposited \in Seq(Packet) /\ Len(deposited) \in Nat
    BY WriteDoes, Zenon
  <2>2. /\ L \in {1, 4} =>
              /\ Len(deposited') = Len(deposited) + 1
              /\ deposited'[Len(deposited) + 1] = q
        /\ L \notin {1, 4} => Len(deposited') = Len(deposited)
        /\ \A n \in 1 .. Len(deposited) : deposited'[n] = deposited[n]
    BY <2>1, CompletedIs
  <2>3. L \in {3, 6} \/ L \in {2, 5} \/ L \in {1, 4}
    BY <2>1, Six, Zenon
  <2> HIDE DEF h, L, q
  <2>4. torn = {Len(file)} /\ Len(h) = 0
    BY <1>2, <2>1, TornOrGrown
  <2>5. L \in {1, 4}
    <3>1. \A w : Len(<<w>>) = 1
      OBVIOUS
    <3> QED
      BY <2>1, <2>3, <2>4, <3>1
  <2>6. Hollow(q)
    BY <2>1, <2>4, <2>5, EmptyIsHollow
  <2>7. PICK place, m, j : Position(place, m, j)
    BY <2>4 DEF FileInv
  <2>8. Len(file') = Len(file)
    BY <2>1, <2>4
  <2>9. Len(deposited) <= Len(deposited')
        /\ \A n \in (Len(deposited) + 1) .. Len(deposited') : Hollow(deposited'[n])
    BY <2>1, <2>2, <2>5, <2>6
  <2>10. Position(place, m, j)'
    BY <2>1, <2>2, <2>4, <2>7, <2>8, <2>9, TornStays
  <2> QED
    BY <2>10
<1> QED
  BY <1>1, <1>2

\* A step without a write(), of a run that is between two packets
LEMMA QuietRun ==
  ASSUME Base, TypeOK', FileInv, "overlap" \notin Faults, NEW p \in Proc, Run(p),
         \A q \in Proc : Active(q) => q = p, ~Writing(p), ~Writing(p)',
         file' = file, deposited' = deposited, torn' = torn, UNCHANGED loaderVars
  PROVE  FileInv'
<1>1. TypeOK /\ SingleWriter
  BY DEF Base
<1>2. \A q \in Proc : Active(q)' => q = p
  BY <1>1, RunStaysAtEnd DEF Active
<1>3. (\A q \in Proc : ~Writing(q)) /\ (\A q \in Proc : ~Writing(q)')
  BY <1>2, Zenon DEF Writing
<1> QED
  BY <1>1, <1>3, QuietKeeps

\* A packet that is delivered takes three calls.
LEMMA DeliverLength ==
  ASSUME TypeOK, NEW p \in Proc, NEW x, Deliver(p, x)
  PROVE  Len(todo'[p]) = 3
<1>1. todo \in [Proc -> Seq(Seq(Word))] /\ todo' = [todo EXCEPT ![p] = PacketWrites(x)]
  BY DEF TypeOK, Deliver
<1>2. todo'[p] = PacketWrites(x)
  BY <1>1
<1>3. Len(PacketWrites(x)) = 3
  BY DEF PacketWrites
<1> QED
  BY <1>2, <1>3

\* Every step of a run
LEMMA RunKeeps ==
  ASSUME Base, TypeOK', FileInv, "overlap" \notin Faults, ArgBytes > 0,
         NEW p \in Proc, Run(p)
  PROVE  FileInv'
<1>0. TypeOK /\ BufferRoom /\ Pending /\ SingleWriter
  BY DEF Base
<1>1. todo \in [Proc -> Seq(Seq(Word))]
  BY <1>0 DEF TypeOK
<1>2. Len(<<>>) = 0 /\ 0 \in {0, 3, 6} /\ 3 \in {0, 3, 6} /\ 6 \in {0, 3, 6}
  OBVIOUS
<1>3. ASSUME todo[p] = <<>> PROVE ~Writing(p)
  BY <1>2, <1>3, Zenon DEF Writing, MidPacket
<1>4. ASSUME Len(todo'[p]) \in {0, 3, 6} PROVE ~Writing(p)'
  BY <1>4, Zenon DEF Writing, MidPacket
<1>5. Active(p) => \A q \in Proc : Active(q) => q = p
  BY <1>0 DEF SingleWriter
<1>6. CASE Start(p)
  <2>1. /\ st[p] = "ready" /\ \A q \in Proc : ~Active(q)
        /\ todo' = todo
        /\ file' = file /\ deposited' = deposited /\ torn' = torn /\ UNCHANGED loaderVars
    BY <1>6 DEF Start
  <2>2. todo[p] = <<>>
    BY <1>0, <2>1 DEF BufferRoom
  <2>3. ~Writing(p) /\ ~Writing(p)'
    BY <1>2, <1>3, <1>4, <2>1, <2>2
  <2> QED
    BY <2>1, <2>3, QuietRun
<1>7. CASE Exit(p) \/ Finish(p)
  <2>1. /\ Active(p) /\ todo[p] = <<>> /\ todo' = todo
        /\ file' = file /\ deposited' = deposited /\ torn' = torn /\ UNCHANGED loaderVars
    BY <1>7 DEF Exit, Finish, Active
  <2>2. ~Writing(p) /\ ~Writing(p)'
    BY <1>2, <1>3, <1>4, <2>1
  <2> QED
    BY <1>5, <2>1, <2>2, QuietRun
<1>8. CASE Trace(p)
  <2>1. /\ Active(p) /\ todo[p] = <<>>
        /\ file' = file /\ deposited' = deposited /\ torn' = torn /\ UNCHANGED loaderVars
    BY <1>8 DEF Trace, Active
  <2>2. Len(todo'[p]) \in {0, 3, 6}
    <3>1. PICK b \in BlockIds :
            IF BufferFull(Append(buffer[p], b))
            THEN Deliver(p, [kind |-> "trace", data |-> Append(buffer[p], b)])
            ELSE UNCHANGED <<packet, todo>>
      BY <1>8 DEF Trace
    <3>2. CASE BufferFull(Append(buffer[p], b))
      <4>1. PICK x : x = [kind |-> "trace", data |-> Append(buffer[p], b)]
        OBVIOUS
      <4>2. Deliver(p, x)
        BY <3>1, <3>2, <4>1
      <4>3. Len(todo'[p]) = 3
        BY <1>0, <4>2, DeliverLength
      <4> QED
        BY <1>2, <4>3, Zenon
    <3>3. CASE ~BufferFull(Append(buffer[p], b))
      <4>1. todo' = todo
        BY <3>1, <3>3
      <4> QED
        BY <1>2, <2>1, <4>1
    <3> QED
      BY <3>2, <3>3
  <2>3. ~Writing(p) /\ ~Writing(p)'
    BY <1>3, <1>4, <2>1, <2>2
  <2> QED
    BY <1>5, <2>1, <2>3, QuietRun
<1>9. CASE RunHandler(p)
  <2>1. /\ Active(p) /\ todo[p] = <<>>
        /\ file' = file /\ deposited' = deposited /\ torn' = torn /\ UNCHANGED loaderVars
    BY <1>9 DEF RunHandler, Active
  <2>2. PICK x : Deliver(p, x)
    <3>1. PICK k : k = Last(handlers[p])
      OBVIOUS
    <3>2. IF k = "trace"
          THEN Deliver(p, [kind |-> k, data |-> buffer[p]])
          ELSE \E v \in Vectors[k] : Deliver(p, [kind |-> k, data |-> v])
      BY <1>9, <3>1 DEF RunHandler
    <3> QED
      BY <3>2, Zenon
  <2>3. Len(todo'[p]) = 3
    BY <1>0, <2>2, DeliverLength
  <2>4. ~Writing(p) /\ ~Writing(p)'
    BY <1>2, <1>3, <1>4, <2>1, <2>3
  <2> QED
    BY <1>5, <2>1, <2>4, QuietRun
<1>10. CASE OpenFile(p)
  <2>1. /\ Active(p) /\ todo[p] # <<>> /\ off[p] = Closed
        /\ todo' = [todo EXCEPT ![p] = ArgsWrites \o todo[p]]
        /\ file' = file /\ deposited' = deposited /\ torn' = torn /\ UNCHANGED loaderVars
    BY <1>10 DEF OpenFile
  <2>2. Expected(todo[p], packet[p], Closed)
    BY <1>0, <2>1 DEF Pending
  <2>3. Len(file) # Closed
    BY <1>0 DEF TypeOK, Closed
  <2>4. Len(ArgsWrites \o todo[p]) = 6
    <3>1. todo[p] \in Seq(Seq(Word))
      BY <1>1
    <3> QED
      BY <2>1, <2>2, <2>3, <3>1, OpenedExpected
  <2>5. Len(todo'[p]) = 6
    BY <1>1, <2>1, <2>4
  <2>6. ~Writing(p)
    BY <2>1 DEF Writing, MidPacket
  <2>7. ~Writing(p)'
    BY <1>2, <1>4, <2>5
  <2> QED
    BY <1>5, <2>1, <2>6, <2>7, QuietRun
<1>11. CASE OpenFails(p)
  <2>1. /\ Active(p) /\ off[p] = Closed
        /\ todo' = [todo EXCEPT ![p] = <<>>]
        /\ file' = file /\ deposited' = deposited /\ torn' = torn /\ UNCHANGED loaderVars
    BY <1>11 DEF OpenFails, GiveUp
  <2>2. todo'[p] = <<>>
    BY <1>1, <2>1
  <2>3. ~Writing(p)
    BY <2>1 DEF Writing, MidPacket
  <2>4. ~Writing(p)'
    BY <1>2, <1>4, <2>2
  <2> QED
    BY <1>5, <2>1, <2>3, <2>4, QuietRun
<1>12. CASE Kill(p) \/ WriteFails(p)
  <2>1. /\ Active(p) /\ Tear(p, off[p])
        /\ file' = file /\ deposited' = deposited /\ UNCHANGED loaderVars
    BY <1>12 DEF Kill, WriteFails
  <2>2. CASE Writing(p)
    BY <2>1, <2>2, TearKeeps
  <2>3. CASE ~Writing(p)
    <3>1. torn' = torn
      <4>1. ~MidPacket(p)
        BY <2>1, <2>3 DEF Writing
      <4> QED
        BY <2>1, <4>1 DEF Tear
    <3>2. ~Writing(p)'
      <4>1. CASE Kill(p)
        <5>1. st \in [Proc -> {"ready", "running", "exiting", "exited", "killed"}]
              /\ st' = [st EXCEPT ![p] = "killed"]
          BY <1>0, <4>1 DEF TypeOK, Kill
        <5>2. ~Active(p)'
          BY <5>1 DEF Active
        <5> QED
          BY <5>2, Zenon DEF Writing
      <4>2. CASE WriteFails(p)
        <5>1. todo' = [todo EXCEPT ![p] = <<>>]
          BY <4>2 DEF WriteFails, GiveUp
        <5>2. todo'[p] = <<>>
          BY <1>1, <5>1
        <5> QED
          BY <1>2, <1>4, <5>2
      <4> QED
        BY <1>12, <4>1, <4>2
    <3> QED
      BY <1>5, <2>1, <2>3, <3>1, <3>2, QuietRun
  <2> QED
    BY <2>2, <2>3
<1> QED
  BY <1>6, <1>7, <1>8, <1>9, <1>10, <1>11, <1>12, WriteKeeps, ShortKeeps DEF Run, Proceed

\* What is deposited is what was delivered, and arguments.
LEMMA StoredRun ==
  ASSUME Base, NEW p \in Proc, Run(p)
  PROVE  StoredPackets'
<1>1. CASE deposited' = deposited
  BY <1>1 DEF Base, StoredPackets
<1>2. CASE Write(p)
  <2>1. /\ TypeOK /\ deposited \in Seq(Packet) /\ Len(deposited) \in Nat
        /\ Len(todo[p]) \in 1 .. 6 /\ Storable(Current(p))
        /\ deposited' = deposited \o Completed(p) /\ Current(p) \in Packet
    BY <1>2, WriteDoes, Zenon
  <2>2. /\ Len(todo[p]) \in {1, 4} =>
             /\ Len(deposited') = Len(deposited) + 1
             /\ deposited'[Len(deposited) + 1] = Current(p)
        /\ Len(todo[p]) \notin {1, 4} => Len(deposited') = Len(deposited)
        /\ \A n \in 1 .. Len(deposited) : deposited'[n] = deposited[n]
    BY <2>1, CompletedIs
  <2>3. \A n \in 1 .. Len(deposited) : Storable(deposited[n])
    BY DEF Base, StoredPackets
  <2>4. \A n \in 1 .. Len(deposited) + 1 : n \in 1 .. Len(deposited) \/ n = Len(deposited) + 1
    BY <2>1
  <2>5. \A n \in 1 .. Len(deposited') : Storable(deposited'[n])
    <3> TAKE n \in 1 .. Len(deposited')
    <3>1. CASE n \in 1 .. Len(deposited)
      BY <2>2, <2>3, <3>1, Zenon
    <3>2. CASE n \notin 1 .. Len(deposited)
      <4>1. CASE Len(todo[p]) \in {1, 4}
        <5>1. n = Len(deposited) + 1
          BY <2>2, <2>4, <3>2, <4>1, Zenon
        <5> QED
          BY <2>1, <2>2, <4>1, <5>1, Zenon
      <4>2. CASE Len(todo[p]) \notin {1, 4}
        BY <2>2, <3>2, <4>2, Zenon
      <4> QED
        BY <4>1, <4>2
    <3> QED
      BY <3>1, <3>2
  <2> QED
    BY <2>5 DEF StoredPackets
<1>3. Write(p) \/ deposited' = deposited
  BY DEF Run, Proceed, Start, Trace, Exit, Kill, RunHandler, Finish, OpenFile, OpenFails,
         ShortWrite, WriteFails
<1> QED
  BY <1>1, <1>2, <1>3

\* Files do not get shorter, and a packet is torn where its writer stands.
LEMMA TornRun ==
  ASSUME Base, TypeOK', NEW p \in Proc, Run(p)
  PROVE  TornPlaces'
<1>1. /\ TypeOK /\ Pending /\ SingleWriter
      /\ \A x \in torn : x <= Len(file) /\ x \in Nat
      /\ Len(file) <= Len(file')
  <2>1. TypeOK /\ SingleWriter /\ Pending /\ \A x \in torn : x <= Len(file)
    BY DEF Base, TornPlaces
  <2>2. torn \subseteq Nat
    BY <2>1 DEF TypeOK
  <2> QED
    BY <2>1, <2>2, RunKeepsWords
<1>2. Len(file) \in Nat /\ Len(file') \in Nat
  BY <1>1 DEF TypeOK
<1>3. CASE torn' = torn
  <2>1. \A x \in torn : x <= Len(file')
    BY <1>1, <1>2
  <2> QED
    BY <1>3, <2>1 DEF TornPlaces
<1>4. ASSUME NEW x \in Nat, x <= Len(file'), torn' = torn \cup {x}
      PROVE  TornPlaces'
  <2>1. \A y \in torn : y <= Len(file')
    BY <1>1, <1>2
  <2> QED
    BY <1>4, <2>1 DEF TornPlaces
<1>5. CASE Kill(p) \/ WriteFails(p)
  <2>1. Tear(p, off[p])
    BY <1>5 DEF Kill, WriteFails
  <2>2. CASE MidPacket(p)
    <3>1. off[p] \in Nat /\ off[p] <= Len(file)
      BY <1>1, <2>2 DEF MidPacket, TypeOK
    <3>2. torn' = torn \cup {off[p]}
      BY <2>1, <2>2 DEF Tear
    <3>3. off[p] <= Len(file')
      BY <1>1, <1>2, <3>1
    <3> QED
      BY <1>4, <3>1, <3>2, <3>3
  <2>3. CASE ~MidPacket(p)
    BY <1>3, <2>1, <2>3 DEF Tear
  <2> QED
    BY <2>2, <2>3
<1>6. CASE ShortWrite(p)
  <2>1. Active(p) /\ todo[p] # <<>> /\ off[p] # Closed
    BY <1>6 DEF ShortWrite
  <2>2. off[p] = Len(file) /\ Head(todo[p]) \in Seq(Word)
    BY <1>1, <2>1, WriterStands
  <2>3. PICK n \in 0 .. (Len(Head(todo[p])) - 1) :
          WriteAt(off[p], SubSeq(Head(todo[p]), 1, n)) /\ torn' = torn \cup {off[p] + n}
    BY <1>6 DEF ShortWrite
  <2> DEFINE ws == SubSeq(Head(todo[p]), 1, n)
  <2>4. ws \in Seq(Word) /\ Len(ws) = n /\ n \in Nat
    BY <2>2, <2>3
  <2>5. WriteAt(Len(file), ws)
    BY <2>2, <2>3
  <2> HIDE DEF ws
  <2>6. Len(file') = Len(file) + n
    <3>1. file \in Seq(Word)
      BY <1>1 DEF TypeOK
    <3> QED
      BY <2>4, <2>5, <3>1, WriteAppends
  <2>7. off[p] + n \in Nat /\ off[p] + n <= Len(file')
    BY <1>2, <2>2, <2>4, <2>6
  <2> QED
    BY <1>4, <2>3, <2>7
<1>7. torn' = torn \/ Kill(p) \/ WriteFails(p) \/ ShortWrite(p)
  BY DEF Run, Proceed, Start, Trace, Exit, RunHandler, Finish, OpenFile, OpenFails, Write
<1> QED
  BY <1>3, <1>5, <1>6, <1>7

-----------------------------------------------------------------------------
(* What the loader finds *)

\* The types of packets are different, and none is that of the arguments.
LEMMA TypesDiffer ==
  /\ \A k \in BlockKind : TypeOf[k] # ArgumentInfo
  /\ \A k, l \in BlockKind : TypeOf[k] = TypeOf[l] => k = l
  /\ \A q : Storable(q) =>
       \/ q = ArgsPacket /\ HeaderWord(q) = ArgumentInfo /\ LengthWord(q) = ArgBytes /\ q.kind = "args"
       \/ q.kind \in BlockKind /\ HeaderWord(q) = TypeOf[q.kind] /\ LengthWord(q) = Len(q.data)
<1>1. \A k \in BlockKind : TypeOf[k] # ArgumentInfo
  BY DEF BlockKind, TypeOf, ArgumentInfo
<1>2. \A k, l \in BlockKind : TypeOf[k] = TypeOf[l] => k = l
  BY DEF BlockKind, TypeOf
<1>3. ASSUME NEW q, Storable(q)
      PROVE  \/ q = ArgsPacket /\ HeaderWord(q) = ArgumentInfo /\ LengthWord(q) = ArgBytes
                /\ q.kind = "args"
             \/ q.kind \in BlockKind /\ HeaderWord(q) = TypeOf[q.kind] /\ LengthWord(q) = Len(q.data)
  <2>1. ArgsPacket.kind = "args" /\ CountedKind \subseteq BlockKind /\ "args" \notin CountedKind
    BY DEF ArgsPacket, CountedKind, BlockKind
  <2>2. CASE q = ArgsPacket
    BY <2>1, <2>2 DEF HeaderWord, LengthWord
  <2>3. CASE q.kind \in CountedKind
    BY <2>1, <2>3, Zenon DEF HeaderWord, LengthWord
  <2> QED
    BY <1>3, <2>2, <2>3 DEF Storable
<1> QED
  BY <1>1, <1>2, <1>3

\* When packets are left, the loader is at the first word of one.
LEMMA AtPacket ==
  ASSUME Base, NEW place, NEW m, NEW j, Position(place, m, j), j # m
  PROVE  /\ j + 1 <= m /\ j + 1 \in 1 .. Len(deposited)
         /\ Storable(deposited[j + 1]) /\ deposited[j + 1].data \in Seq(Word)
         /\ lpos + 2 + Len(deposited[j + 1].data) <= Len(file)
         /\ file[lpos + 1] = HeaderWord(deposited[j + 1])
         /\ file[lpos + 2] = LengthWord(deposited[j + 1])
         /\ \A i \in 1 .. Len(deposited[j + 1].data) : file[lpos + 2 + i] = deposited[j + 1].data[i]
         /\ place[j + 2] = lpos + 2 + Len(deposited[j + 1].data)
<1>1. /\ place \in [Nat -> Nat] /\ m \in Nat /\ j \in Nat
      /\ j <= m /\ m <= Len(deposited)
      /\ Laid(file, deposited, place, m)
      /\ lpos = place[j + 1]
  BY Zenon DEF Position
<1>2. deposited \in Seq(Packet) /\ Len(deposited) \in Nat
  <2>1. TypeOK
    BY DEF Base
  <2> QED
    BY <2>1 DEF TypeOK
<1>3. j + 1 \in 1 .. m /\ j + 1 <= m /\ j + 1 \in 1 .. Len(deposited) /\ (j + 1) + 1 = j + 2
  BY <1>1, <1>2
<1>4. /\ place[(j + 1) + 1] = place[j + 1] + 2 + Len(deposited[j + 1].data)
      /\ PacketIn(file, place[j + 1], deposited[j + 1])
  BY <1>1, <1>3, Zenon DEF Laid
<1>5. PacketIn(file, lpos, deposited[j + 1])
  BY <1>1, <1>4
<1>6. Storable(deposited[j + 1])
  BY <1>3 DEF Base, StoredPackets
<1>7. deposited[j + 1].data \in Seq(Word)
  <2>1. deposited[j + 1] \in Packet
    BY <1>2, <1>3
  <2> QED
    BY <2>1 DEF Packet
<1>8. place[j + 2] = lpos + 2 + Len(deposited[j + 1].data)
  BY <1>1, <1>3, <1>4, Zenon
<1> QED
  BY <1>3, <1>5, <1>6, <1>7, <1>8, Zenon DEF PacketIn

\* When none is left, it is at the end of the file, or at what is torn there.
LEMMA AtEnd ==
  ASSUME Base, NEW place, NEW m, Position(place, m, m), \A p \in Proc : ~Active(p)
  PROVE  \/ torn # {} /\ Incomplete(file, lpos)
         \/ Len(file) = lpos /\ \A n \in (m + 1) .. Len(deposited) : Hollow(deposited[n])
<1>1. m \in Nat /\ Ends(place[m + 1], m) /\ lpos = place[m + 1]
  BY Zenon DEF Position
<1>2. Ends(lpos, m)
  BY <1>1
<1>3. CASE torn = {} /\ m = Len(deposited) /\ Begun(lpos)
  <2>1. Len(file) = lpos
    BY <1>3, Zenon DEF Begun, Writing
  <2>2. (m + 1) .. m = {}
    BY <1>1
  <2> QED
    BY <1>3, <2>1, <2>2
<1>4. CASE /\ torn = {Len(file)}
           /\ \/ Incomplete(file, lpos)
              \/ Len(file) = lpos /\ \A n \in (m + 1) .. Len(deposited) : Hollow(deposited[n])
  <2>1. torn # {}
    BY <1>4
  <2> QED
    BY <1>4, <2>1, Zenon
<1> QED
  BY <1>2, <1>3, <1>4, Zenon DEF Ends

\* The words of the file are numbers.
LEMMA WordAt ==
  ASSUME TypeOK, NEW n \in 1 .. Len(file)
  PROVE  file[n] \in Nat
<1>1. file \in Seq(Word)
  BY DEF TypeOK
<1>2. file[n] \in Word
  BY <1>1
<1>3. Word \subseteq Nat
  BY UncountedAssumption DEF Word
<1> QED
  BY <1>2, <1>3

\* What is incomplete behind the loader's place cannot be read.
LEMMA IncompleteFails ==
  ASSUME TypeOK, Incomplete(file, lpos)
  PROVE  /\ Rest > 0
         /\ file[lpos + 1] = ArgumentInfo => Truncated((file[lpos + 2] + 3) \div 4)
         /\ \A k \in BlockKind : file[lpos + 1] = TypeOf[k] =>
              Truncated(file[lpos + 2]) \/ file[lpos + 2] = 0
<1>1. Len(file) \in Nat /\ lpos \in Nat /\ lpos <= Len(file)
  BY DEF TypeOK
<1>2. CASE Len(file) = lpos + 1
  <2>1. Len(file) - lpos = 1
    BY <1>1, <1>2
  <2>2. Rest = 1
    BY <2>1 DEF Rest
  <2>3. Rest > 0 /\ \A n : Truncated(n)
    BY <2>2 DEF Truncated
  <2> QED
    BY <2>3
<1>3. CASE /\ Len(file) >= lpos + 2
           /\ file[lpos + 1] = ArgumentInfo
           /\ (file[lpos + 2] + 3) \div 4 > Len(file) - (lpos + 2)
  <2>1. PICK w : w = (file[lpos + 2] + 3) \div 4
    OBVIOUS
  <2>2. w \in Int
    <3>1. lpos + 2 \in 1 .. Len(file)
      BY <1>1, <1>3
    <3>2. file[lpos + 2] \in Nat
      BY <3>1, WordAt
    <3> QED
      BY <2>1, <3>2
  <2>3. Len(file) - lpos > 0 /\ Len(file) - lpos < 2 + w
    BY <1>1, <1>3, <2>1, <2>2
  <2>4. Rest > 0 /\ Truncated(w)
    BY <2>3 DEF Rest, Truncated
  <2>5. \A k \in BlockKind : file[lpos + 1] # TypeOf[k]
    BY <1>3, TypesDiffer
  <2> QED
    BY <2>1, <2>4, <2>5
<1>4. ASSUME NEW k \in BlockKind, Len(file) >= lpos + 2, file[lpos + 1] = TypeOf[k],
             file[lpos + 2] = 0 \/ file[lpos + 2] > Len(file) - (lpos + 2)
      PROVE  /\ Rest > 0
             /\ file[lpos + 1] # ArgumentInfo
             /\ Truncated(file[lpos + 2]) \/ file[lpos + 2] = 0
  <2>1. PICK w : w = file[lpos + 2]
    OBVIOUS
  <2>2. w \in Nat
    <3>1. lpos + 2 \in 1 .. Len(file)
      BY <1>1, <1>4
    <3>2. file[lpos + 2] \in Nat
      BY <3>1, WordAt
    <3> QED
      BY <2>1, <3>2
  <2>3. Len(file) - lpos > 0 /\ (w = 0 \/ Len(file) - lpos < 2 + w)
    BY <1>1, <1>4, <2>1, <2>2
  <2>4. Rest > 0 /\ (w = 0 \/ Truncated(w))
    BY <2>3 DEF Rest, Truncated
  <2>5. file[lpos + 1] # ArgumentInfo
    BY <1>4, TypesDiffer
  <2> QED
    BY <2>1, <2>4, <2>5
<1> QED
  BY <1>2, <1>3, <1>4, Zenon DEF Incomplete

\* Reading changes neither the packets nor how the file ends.
LEMMA ReadPosition ==
  ASSUME Base, NEW place, NEW m, NEW j, Position(place, m, j),
         UNCHANGED <<file, runVars, deposited, torn>>,
         NEW j2 \in Nat, j2 <= m, lpos' = place[j2 + 1], Loaded(deposited, j2, counts', lines')
  PROVE  Position(place, m, j2)'
<1>1. /\ place \in [Nat -> Nat] /\ m \in Nat
      /\ m <= Len(deposited)
      /\ Laid(file, deposited, place, m)
      /\ Ends(place[m + 1], m)
  BY Zenon DEF Position
<1>2. /\ file' = file /\ deposited' = deposited /\ torn' = torn
      /\ st' = st /\ todo' = todo /\ packet' = packet /\ off' = off
  BY DEF runVars
<1>3. Begun(place[m + 1]) => Begun(place[m + 1])'
  BY <1>2, Zenon DEF Begun, Writing, MidPacket, Active, Current
<1>4. Ends(place[m + 1], m)'
  BY <1>1, <1>2, <1>3, Zenon DEF Ends
<1> QED
  BY <1>1, <1>2, <1>4, Zenon DEF Position

\* When every packet is read, nothing is left that can be.
LEMMA NothingLeft ==
  ASSUME Base, NEW place, NEW m, Position(place, m, m), \A p \in Proc : ~Active(p), Rest > 0
  PROVE  torn # {} /\ Incomplete(file, lpos)
<1>1. Len(file) # lpos
  <2>1. Len(file) \in Nat /\ lpos \in Nat
    BY DEF Base, TypeOK
  <2>2. Len(file) - lpos > 0
    BY DEF Rest
  <2> QED
    BY <2>1, <2>2
<1> QED
  BY <1>1, AtEnd, Zenon

\* The loader at a packet of arguments: it has w words.
LEMMA AtArguments ==
  ASSUME Base, NEW place, NEW m, NEW j, Position(place, m, j),
         \A p \in Proc : ~Active(p), Rest > 0, file[lpos + 1] = ArgumentInfo,
         NEW w, w = (file[lpos + 2] + 3) \div 4
  PROVE  \/ j = m /\ torn # {} /\ Truncated(w)
         \/ /\ ~Truncated(w) /\ j \in Nat /\ j + 1 <= m
            /\ deposited[j + 1].kind = "args"
            /\ place[j + 2] = lpos + 2 + w
<1>0. TypeOK
  BY DEF Base
<1>1. CASE j = m
  <2>1. torn # {} /\ Incomplete(file, lpos)
    BY <1>1, NothingLeft
  <2> QED
    BY <1>0, <1>1, <2>1, IncompleteFails
<1>2. CASE j # m
  <2>1. PICK q : q = deposited[j + 1]
    OBVIOUS
  <2>2. /\ j + 1 <= m /\ Storable(q)
        /\ lpos + 2 + Len(q.data) <= Len(file)
        /\ file[lpos + 1] = HeaderWord(q)
        /\ file[lpos + 2] = LengthWord(q)
        /\ place[j + 2] = lpos + 2 + Len(q.data)
    BY <1>2, <2>1, AtPacket
  <2>3. q = ArgsPacket /\ LengthWord(q) = ArgBytes /\ q.kind = "args"
    BY <2>2, TypesDiffer
  <2>4. Len(q.data) = w /\ w \in Nat
    <3>1. (ArgBytes + 3) \div 4 \in Nat
      BY ArgumentsAssumption, UncountedAssumption DEF Word
    <3>2. Len(ArgWords) = (ArgBytes + 3) \div 4
      BY <3>1 DEF ArgWords
    <3>3. q.data = ArgWords
      BY <2>3 DEF ArgsPacket
    <3>4. file[lpos + 2] = ArgBytes
      BY <2>2, <2>3
    <3>5. w = (ArgBytes + 3) \div 4
      BY <3>4
    <3> QED
      BY <3>1, <3>2, <3>3, <3>5
  <2>5. ~Truncated(w)
    <3>1. Len(file) \in Nat /\ lpos \in Nat
      BY <1>0 DEF TypeOK
    <3>2. lpos + 2 + w <= Len(file)
      BY <2>2, <2>4, Zenon
    <3>3. ~(Len(file) - lpos < 2) /\ ~(Len(file) - lpos < 2 + w)
      BY <2>4, <3>1, <3>2
    <3> QED
      BY <3>3 DEF Truncated, Rest
  <2>6. j \in Nat
    BY Zenon DEF Position
  <2> QED
    BY <2>1, <2>2, <2>3, <2>4, <2>5, <2>6, Zenon
<1> QED
  BY <1>1, <1>2

\* The loader at a packet of counters: it has w words, and its vector is they.
LEMMA AtBlock ==
  ASSUME Base, NEW place, NEW m, NEW j, Position(place, m, j),
         \A p \in Proc : ~Active(p), Rest > 0,
         NEW k \in BlockKind, file[lpos + 1] = TypeOf[k],
         NEW w, w = file[lpos + 2]
  PROVE  \/ j = m /\ torn # {} /\ (Truncated(w) \/ w = 0)
         \/ /\ ~Truncated(w) /\ j \in Nat /\ j + 1 <= m
            /\ j + 1 \in 1 .. Len(deposited)
            /\ deposited[j + 1].kind = k
            /\ place[j + 2] = lpos + 2 + w
            /\ deposited[j + 1].data = <<>> <=> w = 0
            /\ SubSeq(file, lpos + 3, lpos + 2 + w) = deposited[j + 1].data
<1>0. TypeOK
  BY DEF Base
<1>1. CASE j = m
  <2>1. torn # {} /\ Incomplete(file, lpos)
    BY <1>1, NothingLeft
  <2> QED
    BY <1>0, <1>1, <2>1, IncompleteFails
<1>2. CASE j # m
  <2>1. PICK q : q = deposited[j + 1]
    OBVIOUS
  <2>2. /\ j + 1 <= m /\ Storable(q) /\ q.data \in Seq(Word) /\ j + 1 \in 1 .. Len(deposited)
        /\ lpos + 2 + Len(q.data) <= Len(file)
        /\ file[lpos + 1] = HeaderWord(q)
        /\ file[lpos + 2] = LengthWord(q)
        /\ \A i \in 1 .. Len(q.data) : file[lpos + 2 + i] = q.data[i]
        /\ place[j + 2] = lpos + 2 + Len(q.data)
    BY <1>2, <2>1, AtPacket
  <2>3. q.kind = k /\ LengthWord(q) = Len(q.data)
    <3>1. HeaderWord(q) # ArgumentInfo
      BY <2>2, TypesDiffer, Zenon
    <3>2. q.kind \in BlockKind /\ HeaderWord(q) = TypeOf[q.kind] /\ LengthWord(q) = Len(q.data)
      BY <2>2, <3>1, TypesDiffer, Zenon
    <3> QED
      BY <2>2, <3>2, TypesDiffer, Zenon
  <2>4. Len(q.data) = w
    BY <2>2, <2>3
  <2>5. w \in Nat /\ (q.data = <<>> <=> w = 0)
    <3>1. Len(q.data) \in Nat
      BY <2>2
    <3> QED
      BY <2>2, <2>4, <3>1, EmptyIffNoLength
  <2>6. Len(file) \in Nat /\ lpos \in Nat /\ file \in Seq(Word)
    BY <1>0 DEF TypeOK
  <2>7. lpos + 2 + w <= Len(file)
    BY <2>2, <2>4, Zenon
  <2>8. ~Truncated(w)
    <3>1. ~(Len(file) - lpos < 2) /\ ~(Len(file) - lpos < 2 + w)
      BY <2>5, <2>6, <2>7
    <3> QED
      BY <3>1 DEF Truncated, Rest
  <2>9. SubSeq(file, lpos + 3, lpos + 2 + w) = q.data
    <3> DEFINE z == SubSeq(file, lpos + 3, lpos + 2 + w)
    <3>1. /\ lpos + 3 \in Int /\ lpos + 2 + w \in Int
          /\ (lpos + 2 + w) - (lpos + 3) + 1 = w
          /\ lpos + 3 <= lpos + 2 + w \/ w = 0
          /\ \A i \in 1 .. w : (lpos + 3) + i - 1 = lpos + 2 + i
      BY <2>5, <2>6
    <3>2. \A i \in (lpos + 3) .. (lpos + 2 + w) : file[i] \in Word
      <4>1. \A i \in (lpos + 3) .. (lpos + 2 + w) : i \in 1 .. Len(file)
        BY <2>5, <2>6, <2>7
      <4> QED
        BY <2>6, <4>1
    <3>3. /\ z \in Seq(Word)
          /\ Len(z) = IF lpos + 3 <= lpos + 2 + w THEN (lpos + 2 + w) - (lpos + 3) + 1 ELSE 0
          /\ \A i \in 1 .. (lpos + 2 + w) - (lpos + 3) + 1 : z[i] = file[(lpos + 3) + i - 1]
      BY <3>1, <3>2, SubSeqProperties
    <3> HIDE DEF z
    <3>4. Len(z) = w
      BY <3>1, <3>3
    <3>5. \A i \in 1 .. w : z[i] = file[lpos + 2 + i]
      BY <3>1, <3>3, Zenon
    <3>6. \A i \in 1 .. Len(z) : z[i] = q.data[i]
      BY <2>2, <2>4, <3>4, <3>5, Zenon
    <3>7. z = q.data
      BY <2>2, <2>4, <3>3, <3>4, <3>6, SeqEqual
    <3> QED
      BY <3>7 DEF z
  <2>10. j \in Nat
    BY Zenon DEF Position
  <2> QED
    BY <2>1, <2>2, <2>3, <2>4, <2>5, <2>8, <2>9, <2>10, Zenon
<1> QED
  BY <1>1, <1>2

\* The type of the packet the loader is at is known, unless it is torn.
LEMMA AtKnown ==
  ASSUME Base, NEW place, NEW m, NEW j, Position(place, m, j),
         \A p \in Proc : ~Active(p), Rest > 0, file[lpos + 1] # ArgumentInfo,
         \A k \in BlockKind : file[lpos + 1] # TypeOf[k]
  PROVE  torn # {}
<1>1. CASE j = m
  BY <1>1, NothingLeft
<1>2. CASE j # m
  <2>1. PICK q : q = deposited[j + 1]
    OBVIOUS
  <2>2. Storable(q) /\ file[lpos + 1] = HeaderWord(q)
    BY <1>2, <2>1, AtPacket
  <2>3. FALSE
    BY <2>2, TypesDiffer
  <2> QED
    BY <2>3
<1> QED
  BY <1>1, <1>2

\* The loader reads when all runs are over, ends at the end of the file, and
\* fails for a cause. What is deposited is in a file that was created.
LoaderInv ==
  /\ lst # "idle" => \A p \in Proc : ~Active(p)
  /\ lst = "done" => lpos = Len(file)
  /\ lst = "failed" => torn # {} \/ Store!Unreadable(deposited)
  /\ deposited # <<>> => \E p \in Proc : off[p] # Closed

\* A load leaves the file and the runs alone.
LEMMA LoadFrame ==
  ASSUME LoaderOpen \/ Read
  PROVE  /\ UNCHANGED <<file, runVars, deposited, torn>>
         /\ file' = file /\ st' = st /\ off' = off /\ todo' = todo /\ packet' = packet
         /\ deposited' = deposited /\ torn' = torn
  BY DEF LoaderOpen, Read, LoaderDone, ReadArguments, ReadBlock, ReadUnknown, runVars

\* A packet that is read leaves the loader at the next one, with its counters.
LEMMA ReadKeeps ==
  ASSUME Base, FileInv, LoaderInv, LoaderOpen \/ Read
  PROVE  FileInv'
<1>1. /\ UNCHANGED <<file, runVars, deposited, torn>> /\ file' = file /\ torn' = torn
      /\ deposited' = deposited
  BY LoadFrame
<1> SUFFICES ASSUME torn \subseteq {Len(file)}
             PROVE  (\E place, m, j : Position(place, m, j))'
  BY <1>1 DEF FileInv
<1>2. PICK place, m, j : Position(place, m, j)
  BY DEF FileInv
<1>3. /\ j \in Nat /\ j <= m /\ m \in Nat /\ lpos = place[j + 1]
      /\ Loaded(deposited, j, counts, lines) /\ m <= Len(deposited)
  BY <1>2, Zenon DEF Position
<1>4. TypeOK
  BY DEF Base
<1>5. CASE UNCHANGED <<lpos, counts, lines>>
  <2>1. Position(place, m, j)'
    BY <1>1, <1>2, <1>3, <1>5, ReadPosition
  <2> QED
    BY <2>1
<1>6. CASE ReadArguments
  <2>1. PICK w : w = (file[lpos + 2] + 3) \div 4
    OBVIOUS
  <2>2. /\ lst = "reading" /\ Rest > 0 /\ file[lpos + 1] = ArgumentInfo
        /\ Truncated(w) => UNCHANGED <<lpos, lines>>
        /\ ~Truncated(w) => lpos' = lpos + 2 + w /\ lines' = lines + 1
        /\ counts' = counts
    BY <1>6, <2>1 DEF ReadArguments
  <2>3. \A p \in Proc : ~Active(p)
    BY <2>2 DEF LoaderInv
  <2>4. CASE Truncated(w)
    BY <1>5, <2>2, <2>4
  <2>5. CASE ~Truncated(w)
    <3>1. /\ j + 1 <= m
          /\ deposited[j + 1].kind = "args"
          /\ place[j + 2] = lpos + 2 + w
      BY <1>2, <2>1, <2>2, <2>3, <2>5, AtArguments
    <3>2. counts \in [BlockKind -> Seq(Word)]
      BY <1>4 DEF TypeOK
    <3>3. Loaded(deposited, j + 1, counts', lines')
      BY <1>3, <2>2, <2>5, <3>1, <3>2, LoadedArgs
    <3>4. j + 1 \in Nat /\ (j + 1) + 1 = j + 2
      BY <1>3
    <3>5. lpos' = place[(j + 1) + 1]
      BY <2>2, <2>5, <3>1, <3>4, Zenon
    <3>6. Position(place, m, j + 1)'
      BY <1>1, <1>2, <3>1, <3>3, <3>4, <3>5, ReadPosition
    <3> QED
      BY <3>6
  <2> QED
    BY <2>4, <2>5
<1>7. ASSUME NEW k \in BlockKind, ReadBlock(k)
      PROVE  (\E place2, m2, j2 : Position(place2, m2, j2))'
  <2>1. PICK w : w = file[lpos + 2]
    OBVIOUS
  <2>2. /\ lst = "reading" /\ Rest > 0 /\ file[lpos + 1] = TypeOf[k]
        /\ (Truncated(w) \/ w = 0) => UNCHANGED <<lpos, counts>>
        /\ ~(Truncated(w) \/ w = 0) =>
             /\ counts' = [counts EXCEPT ![k] = Accumulate(counts[k], SubSeq(file, lpos + 3, lpos + 2 + w))]
             /\ lpos' = lpos + 2 + w
        /\ lines' = lines
    BY <1>7, <2>1 DEF ReadBlock, AfterBlock
  <2>3. \A p \in Proc : ~Active(p)
    BY <2>2 DEF LoaderInv
  <2>4. CASE Truncated(w) \/ w = 0
    BY <1>5, <2>2, <2>4
  <2>5. CASE ~(Truncated(w) \/ w = 0)
    <3>1. /\ j + 1 <= m
          /\ deposited[j + 1].kind = k
          /\ place[j + 2] = lpos + 2 + w
          /\ deposited[j + 1].data # <<>>
          /\ SubSeq(file, lpos + 3, lpos + 2 + w) = deposited[j + 1].data
      BY <1>2, <2>1, <2>2, <2>3, <2>5, AtBlock
    <3>2. counts \in [BlockKind -> Seq(Word)]
      BY <1>4 DEF TypeOK
    <3>3. j + 1 \in Nat /\ (j + 1) + 1 = j + 2 /\ j + 1 <= Len(deposited)
      <4>1. Len(deposited) \in Nat
        BY <1>4 DEF TypeOK
      <4> QED
        BY <1>3, <3>1, <4>1
    <3>4. DataTo(deposited, j + 1)
      BY <1>4, <3>3, DepositedData
    <3>5. counts' = [counts EXCEPT ![k] = Accumulate(counts[k], deposited[j + 1].data)]
      BY <2>2, <2>5, <3>1, Zenon
    <3>6. Loaded(deposited, j + 1, [counts EXCEPT ![k] = Accumulate(counts[k], deposited[j + 1].data)], lines)
      BY <1>3, <3>1, <3>2, <3>4, LoadedBlock
    <3>7. Loaded(deposited, j + 1, counts', lines')
      BY <2>2, <3>5, <3>6
    <3>8. lpos' = place[(j + 1) + 1]
      BY <2>2, <2>5, <3>1, <3>3, Zenon
    <3>9. Position(place, m, j + 1)'
      BY <1>1, <1>2, <3>1, <3>3, <3>7, <3>8, ReadPosition
    <3> QED
      BY <3>9
  <2> QED
    BY <2>4, <2>5
<1>8. CASE LoaderOpen \/ LoaderDone \/ ReadUnknown
  <2>1. UNCHANGED <<lpos, counts, lines>>
    BY <1>8 DEF LoaderOpen, LoaderDone, ReadUnknown
  <2> QED
    BY <1>5, <2>1
<1> QED
  BY <1>6, <1>7, <1>8 DEF Read

\* A load that fails has met a torn packet or one without counters.
LEMMA FailsForCause ==
  ASSUME Base, FileInv, LoaderInv, LoaderOpen \/ Read, lst # "failed", lst' = "failed"
  PROVE  torn # {} \/ Store!Unreadable(deposited)
<1> SUFFICES ASSUME torn = {}
             PROVE  Store!Unreadable(deposited)
  OBVIOUS
<1>1. PICK place, m, j : Position(place, m, j)
  BY DEF FileInv
<1>2. CASE LoaderOpen
  <2>1. \A p \in Proc : off[p] = Closed
    BY <1>2 DEF LoaderOpen
  <2>2. deposited = <<>>
    BY <2>1 DEF LoaderInv
  <2> QED
    BY <2>2 DEF Store!Unreadable
<1>3. CASE ReadArguments
  <2>1. PICK w : w = (file[lpos + 2] + 3) \div 4
    OBVIOUS
  <2>2. /\ lst = "reading" /\ Rest > 0 /\ file[lpos + 1] = ArgumentInfo
        /\ Truncated(w)
    BY <1>3, <2>1 DEF ReadArguments
  <2>3. \A p \in Proc : ~Active(p)
    BY <2>2 DEF LoaderInv
  <2> QED
    BY <1>1, <2>1, <2>2, <2>3, AtArguments
<1>4. ASSUME NEW k \in BlockKind, ReadBlock(k)
      PROVE  Store!Unreadable(deposited)
  <2>1. PICK w : w = file[lpos + 2]
    OBVIOUS
  <2>2. /\ lst = "reading" /\ Rest > 0 /\ file[lpos + 1] = TypeOf[k]
        /\ Truncated(w) \/ w = 0
    BY <1>4, <2>1 DEF ReadBlock
  <2>3. \A p \in Proc : ~Active(p)
    BY <2>2 DEF LoaderInv
  <2>4. /\ j + 1 \in 1 .. Len(deposited) /\ deposited[j + 1].kind = k
        /\ deposited[j + 1].data = <<>>
    BY <1>1, <2>1, <2>2, <2>3, AtBlock
  <2>5. DOMAIN deposited = 1 .. Len(deposited)
    <3>1. deposited \in Seq(Packet)
      BY DEF Base, TypeOK
    <3> QED
      BY <3>1
  <2> QED
    BY <2>4, <2>5 DEF Store!Unreadable
<1>5. CASE ReadUnknown
  <2>1. /\ lst = "reading" /\ Rest > 0 /\ file[lpos + 1] # ArgumentInfo
        /\ \A k \in BlockKind : file[lpos + 1] # TypeOf[k]
    BY <1>5 DEF ReadUnknown
  <2>2. \A p \in Proc : ~Active(p)
    BY <2>1 DEF LoaderInv
  <2> QED
    BY <1>1, <2>1, <2>2, AtKnown
<1>6. CASE LoaderDone
  BY <1>6 DEF LoaderDone
<1> QED
  BY <1>2, <1>3, <1>4, <1>5, <1>6 DEF Read

\* While a run moves, the loader has not started.
LEMMA RunsBeforeLoad ==
  ASSUME LoaderInv, NEW p \in Proc, Run(p)
  PROVE  lst = "idle"
<1>1. lst = "idle" \/ Active(p)
  BY DEF Run, Proceed, Start, Trace, Exit, Kill, RunHandler, Finish, OpenFile, OpenFails,
         Write, ShortWrite, WriteFails, Active
<1> QED
  BY <1>1 DEF LoaderInv

\* The claims about the loader hold after every step.
LEMMA LoaderStep ==
  ASSUME Base, Base', FileInv, LoaderInv, [Next]_vars
  PROVE  LoaderInv'
<1>1. CASE UNCHANGED vars
  <2>1. /\ lst' = lst /\ st' = st /\ lpos' = lpos /\ file' = file /\ torn' = torn
        /\ deposited' = deposited /\ off' = off
    BY <1>1 DEF vars, runVars, loaderVars
  <2> QED
    BY <2>1 DEF LoaderInv, Active
<1>2. CASE LoaderOpen \/ Read
  <2>1. file' = file /\ st' = st /\ off' = off /\ deposited' = deposited /\ torn' = torn
    BY <1>2, LoadFrame
  <2>2. \A p \in Proc : ~Active(p)
    <3>1. LoaderOpen => \A p \in Proc : ~Active(p)
      BY DEF LoaderOpen
    <3>2. Read => lst # "idle"
      BY DEF Read, LoaderDone, ReadArguments, ReadBlock, ReadUnknown
    <3> QED
      BY <1>2, <3>1, <3>2 DEF LoaderInv
  <2>3. lst' = "done" => lpos' = Len(file')
    <3>1. lst' = "done" => LoaderDone
      BY <1>2 DEF LoaderOpen, Read, LoaderDone, ReadArguments, ReadBlock, ReadUnknown
    <3>2. LoaderDone => lpos' = lpos /\ Rest = 0
      BY DEF LoaderDone
    <3>3. Rest = 0 => lpos = Len(file)
      <4>1. lpos \in Nat /\ Len(file) \in Nat
        BY DEF Base, TypeOK
      <4> QED
        BY <4>1 DEF Rest
    <3> QED
      BY <2>1, <3>1, <3>2, <3>3
  <2>4. lst' = "failed" => torn # {} \/ Store!Unreadable(deposited)
    <3>1. CASE lst = "failed"
      BY <3>1 DEF LoaderInv
    <3>2. CASE lst # "failed"
      BY <1>2, <3>2, FailsForCause
    <3> QED
      BY <3>1, <3>2
  <2>5. Store!Unreadable(deposited) => Store!Unreadable(deposited')
    BY <2>1
  <2> QED
    BY <2>1, <2>2, <2>3, <2>4, <2>5 DEF LoaderInv, Active
<1>3. ASSUME NEW p \in Proc, Run(p)
      PROVE  LoaderInv'
  <2>1. lst = "idle"
    BY <1>3, RunsBeforeLoad
  <2>2. lst' = "idle"
    BY <1>3, <2>1 DEF Run, Proceed, Start, Trace, Exit, Kill, RunHandler, Finish, OpenFile, OpenFails,
         Write, ShortWrite, WriteFails, loaderVars
  <2>3. deposited' # <<>> => \E q \in Proc : off'[q] # Closed
    <3>1. CASE Write(p)
      <4>1. off'[p] # Closed
        BY <3>1, WriteDoes
      <4> QED
        BY <4>1
    <3>2. CASE ~Write(p)
      <4>1. deposited' = deposited
        BY <1>3, <3>2 DEF Run, Proceed, Start, Trace, Exit, Kill, RunHandler, Finish, OpenFile,
           OpenFails, ShortWrite, WriteFails
      <4>2. \A q \in Proc : off[q] # Closed => off'[q] # Closed
        <5>1. off \in [Proc -> Nat \cup {Closed}] /\ off' \in [Proc -> Nat \cup {Closed}]
              /\ Len(file) \in Nat /\ Closed \notin Nat
          BY DEF Base, TypeOK, Closed
        <5>2. CASE OpenFile(p)
          <6>1. off' = [off EXCEPT ![p] = Len(file)]
            BY <5>2 DEF OpenFile, EndOfFile
          <6> QED
            BY <5>1, <6>1
        <5>3. CASE ShortWrite(p)
          <6>1. TypeOK
            BY DEF Base
          <6>2. todo[p] # <<>> /\ off[p] # Closed /\ todo[p] \in Seq(Seq(Word))
            BY <5>3, <6>1 DEF ShortWrite, TypeOK
          <6>3. Head(todo[p]) \in Seq(Word)
            BY <6>2, HeadTailProperties
          <6>4. PICK n \in 0 .. (Len(Head(todo[p])) - 1) : off' = [off EXCEPT ![p] = off[p] + n]
            BY <5>3 DEF ShortWrite
          <6>5. n \in Nat
            BY <6>3
          <6> QED
            BY <5>1, <6>2, <6>4, <6>5
        <5>4. CASE off' = off
          BY <5>4
        <5>5. OpenFile(p) \/ ShortWrite(p) \/ off' = off
          BY <1>3, <3>2 DEF Run, Proceed, Start, Trace, Exit, Kill, RunHandler, Finish,
             OpenFails, WriteFails
        <5> QED
          BY <5>2, <5>3, <5>4, <5>5
      <4> QED
        BY <4>1, <4>2 DEF LoaderInv
    <3> QED
      BY <3>1, <3>2
  <2> QED
    BY <2>2, <2>3 DEF LoaderInv
<1> QED
  BY <1>1, <1>2, <1>3 DEF Next

\* Everything that is claimed of the file and of the loader, at once
LoadInv == Base /\ FileInv /\ LoaderInv

\* The invariant holds at the start, and every step keeps it.
LEMMA LoadInit == Init => LoadInv
<1> SUFFICES ASSUME Init PROVE LoadInv
  OBVIOUS
<1>1. TypeOK /\ BufferRoom /\ SingleWriter
  BY TypeInit, SingleWriterInit
<1>2. /\ file = <<>> /\ deposited = <<>> /\ torn = {} /\ lst = "idle" /\ lpos = 0 /\ lines = 0
      /\ counts = [k \in BlockKind |-> <<>>]
      /\ \A p \in Proc : todo[p] = <<>> /\ st[p] = "ready"
  BY DEF Init
<1>3. Pending
  BY <1>2, NothingExpected DEF Pending
<1>4. Len(<<>>) = 0 /\ 1 .. 0 = {}
  OBVIOUS
<1>5. StoredPackets /\ TornPlaces
  BY <1>2, <1>4 DEF StoredPackets, TornPlaces
<1>6. \A p \in Proc : ~Active(p)
  BY <1>2 DEF Active
<1>7. LoaderInv
  BY <1>2, <1>6 DEF LoaderInv
<1>8. FileInv
  <2> DEFINE place == [n \in Nat |-> 0]
  <2>1. place \in [Nat -> Nat] /\ place[1] = 0 /\ place[0 + 1] = 0
    OBVIOUS
  <2> HIDE DEF place
  <2>2. Laid(file, deposited, place, 0)
    BY <1>4, <2>1 DEF Laid
  <2>3. Ends(0, 0)
    <3>1. Len(file) = 0 /\ 0 = Len(deposited)
      BY <1>2, <1>4
    <3>2. Begun(0)
      BY <1>6, <3>1, Zenon DEF Begun, Writing
    <3> QED
      BY <1>2, <3>1, <3>2, Zenon DEF Ends
  <2>4. Loaded(deposited, 0, counts, lines)
    <3>1. lines = Cardinality(Arguments(deposited, 0))
      <4>1. Arguments(deposited, 0) = {}
        BY <1>4 DEF Arguments
      <4> QED
        BY <1>2, <4>1, FS_EmptySet
    <3>2. \A n \in 1 .. 0 : ~Hollow(deposited[n])
      BY <1>4
    <3>3. ASSUME NEW k \in BlockKind
          PROVE  /\ Wide(deposited, 0, k, Len(counts[k]))
                 /\ \A c \in 1 .. Len(counts[k]) : Exact(deposited, 0, k, c, counts[k][c])
      <4>1. Len(counts[k]) = 0
        BY <1>2, <1>4
      <4> QED
        BY <1>4, <4>1 DEF Wide
    <3> QED
      BY <3>1, <3>2, <3>3, Zenon DEF Loaded
  <2>5. Position(place, 0, 0)
    <3>1. 0 \in Nat /\ 0 <= 0 /\ 0 <= Len(deposited)
      BY <1>2, <1>4
    <3>2. lpos = place[0 + 1] /\ Ends(place[0 + 1], 0)
      BY <1>2, <2>1, <2>3
    <3> QED
      BY <2>1, <2>2, <2>4, <3>1, <3>2, Zenon DEF Position
  <2> QED
    BY <2>5 DEF FileInv
<1> QED
  BY <1>1, <1>3, <1>5, <1>7, <1>8 DEF LoadInv, Base

LEMMA LoadNext ==
  ASSUME LoadInv, [Next]_vars, "overlap" \notin Faults, ArgBytes > 0
  PROVE  LoadInv'
<1>0. Base /\ FileInv /\ LoaderInv
  BY DEF LoadInv
<1>1. TypeOK /\ BufferRoom /\ Pending /\ SingleWriter /\ StoredPackets /\ TornPlaces
  BY <1>0 DEF Base
<1>2. TypeOK' /\ BufferRoom' /\ SingleWriter'
  <2>1. SingleWriter'
    BY <1>1, SingleWriterStep
  <2>2. CASE UNCHANGED vars
    BY <1>1, <2>1, <2>2 DEF vars, runVars, loaderVars, TypeOK, BufferRoom
  <2>3. CASE Next
    BY <1>1, <2>1, <2>3, TypeRun, TypeLoad DEF Next
  <2> QED
    BY <2>1, <2>2, <2>3
<1>3. ASSUME UNCHANGED <<file, runVars, deposited, torn>>
      PROVE  Base'
  <2>1. /\ file' = file /\ deposited' = deposited /\ torn' = torn
        /\ todo' = todo /\ packet' = packet /\ off' = off
    BY <1>3 DEF runVars
  <2>2. Pending' /\ StoredPackets' /\ TornPlaces'
    BY <1>1, <2>1 DEF Pending, StoredPackets, TornPlaces
  <2> QED
    BY <1>2, <2>2 DEF Base
<1>4. CASE UNCHANGED vars
  <2>1. UNCHANGED <<file, runVars, deposited, torn>>
    BY <1>4 DEF vars
  <2>2. Base'
    BY <1>3, <2>1
  <2>3. FileInv'
    <3> SUFFICES ASSUME torn \subseteq {Len(file)}
                 PROVE  (\E place, m, j : Position(place, m, j))'
      BY <2>1 DEF FileInv
    <3>1. PICK place, m, j : Position(place, m, j)
      BY <1>0 DEF FileInv
    <3>2. lpos' = lpos /\ counts' = counts /\ lines' = lines
      BY <1>4 DEF vars, loaderVars
    <3>3. /\ j \in Nat /\ j <= m /\ lpos = place[j + 1]
          /\ Loaded(deposited, j, counts, lines)
      BY <3>1, Zenon DEF Position
    <3>4. Position(place, m, j)'
      BY <1>0, <2>1, <3>1, <3>2, <3>3, ReadPosition
    <3> QED
      BY <3>4
  <2>4. LoaderInv'
    BY <1>0, <2>2, LoaderStep
  <2> QED
    BY <2>2, <2>3, <2>4 DEF LoadInv
<1>5. CASE LoaderOpen \/ Read
  <2>1. Base'
    BY <1>3, <1>5, LoadFrame
  <2>2. FileInv'
    BY <1>0, <1>5, ReadKeeps
  <2>3. LoaderInv'
    BY <1>0, <2>1, LoaderStep
  <2> QED
    BY <2>1, <2>2, <2>3 DEF LoadInv
<1>6. ASSUME NEW p \in Proc, Run(p)
      PROVE  LoadInv'
  <2>1. Pending'
    BY <1>1, <1>6, PendingRun
  <2>2. StoredPackets' /\ TornPlaces'
    BY <1>0, <1>2, <1>6, StoredRun, TornRun
  <2>3. Base'
    BY <1>2, <2>1, <2>2 DEF Base
  <2>4. FileInv'
    BY <1>0, <1>2, <1>6, RunKeeps
  <2>5. LoaderInv'
    BY <1>0, <2>3, LoaderStep
  <2> QED
    BY <2>3, <2>4, <2>5 DEF LoadInv
<1> QED
  BY <1>4, <1>5, <1>6 DEF Next

\* At the end of the file the loader has read every packet but ones without
\* counters behind the last it could read.
LEMMA DoneFaithful ==
  ASSUME Base, FileInv, torn \subseteq {Len(file)}, \A p \in Proc : ~Active(p), lpos = Len(file)
  PROVE  /\ Store!Faithful(deposited, counts, lines)
         /\ torn = {} => \A n \in 1 .. Len(deposited) : ~Hollow(deposited[n])
<1>1. PICK place, m, j : Position(place, m, j)
  BY DEF FileInv
<1>2. /\ m \in Nat /\ m <= Len(deposited) /\ Loaded(deposited, j, counts, lines)
      /\ Ends(place[m + 1], m)
  BY <1>1, Zenon DEF Position
<1>3. TypeOK /\ Len(file) \in Nat /\ deposited \in Seq(Packet) /\ counts \in [BlockKind -> Seq(Word)]
  <2>1. TypeOK
    BY DEF Base
  <2> QED
    BY <2>1 DEF TypeOK
<1>4. j = m
  <2> SUFFICES ASSUME j # m PROVE FALSE
    OBVIOUS
  <2>1. PICK d : d = deposited[j + 1].data
    OBVIOUS
  <2>2. d \in Seq(Word) /\ lpos + 2 + Len(d) <= Len(file)
    BY <1>1, <2>1, AtPacket
  <2>3. Len(d) \in Nat
    BY <2>2
  <2> QED
    BY <1>3, <2>2, <2>3
<1>5. ~(Rest > 0)
  BY <1>3 DEF Rest
<1>6. ~Incomplete(file, lpos)
  BY <1>3, <1>5, IncompleteFails
<1>7. \A n \in (m + 1) .. Len(deposited) : Hollow(deposited[n])
  BY <1>1, <1>4, <1>6, AtEnd
<1>8. Loaded(deposited, m, counts, lines)
  BY <1>2, <1>4
<1>9. Len(deposited) \in Nat /\ DOMAIN deposited = 1 .. Len(deposited) /\ Len(deposited) <= Len(deposited)
  BY <1>3
<1>10. DataTo(deposited, Len(deposited))
  BY <1>3, <1>9, DepositedData
<1>11. Store!Faithful(deposited, counts, lines)
  BY <1>2, <1>3, <1>7, <1>8, <1>9, <1>10, LoadedFaithful
<1>12. ASSUME torn = {} PROVE \A n \in 1 .. Len(deposited) : ~Hollow(deposited[n])
  <2>1. m = Len(deposited)
    BY <1>1, <1>12, WholeFile
  <2> QED
    BY <1>8, <2>1, Zenon DEF Loaded
<1> QED
  BY <1>11, <1>12

\* For any number of runs that do not overlap, of any program with a command
\* line, killed or cut short anywhere: if no packet was written behind a torn
\* one, a load that succeeds returns exactly the sums of the packets written
\* to their end, and the number of runs.
THEOREM LoadIsExact ==
  ASSUME "overlap" \notin Faults, ArgBytes > 0
  PROVE  Spec => []LoadedExact
<1>1. LoadInv => LoadedExact
  <2> SUFFICES ASSUME LoadInv, lst = "done", torn \subseteq {Len(file)}
               PROVE  Store!Faithful(deposited, counts, lines)
    BY DEF LoadedExact
  <2>1. Base /\ FileInv /\ lpos = Len(file) /\ \A p \in Proc : ~Active(p)
    BY DEF LoadInv, LoaderInv
  <2> QED
    BY <2>1, DoneFaithful
<1>2. LoadInv /\ [Next]_vars => LoadInv'
  BY LoadNext
<1> QED
  BY LoadInit, <1>1, <1>2, PTL DEF Spec

\* Under the same conditions a load fails only when some packet is torn, there
\* is no packet at all, or one has no counters.
THEOREM RefusalHasCause ==
  ASSUME "overlap" \notin Faults, ArgBytes > 0
  PROVE  Spec => []RefusedForCause
<1>1. LoadInv => RefusedForCause
  BY DEF LoadInv, LoaderInv, RefusedForCause
<1>2. LoadInv /\ [Next]_vars => LoadInv'
  BY LoadNext
<1> QED
  BY LoadInit, <1>1, <1>2, PTL DEF Spec

-----------------------------------------------------------------------------
(* The file implements the store *)

\* Without faults but a failing open(): no packet is torn, and a file that was
\* created has a packet, or its creator has still to write its arguments.
OpenedInv ==
  /\ torn = {}
  /\ lst \in {"reading", "done"} => \E p \in Proc : off[p] # Closed
  /\ (\E p \in Proc : off[p] # Closed) =>
       deposited # <<>> \/ \E p \in Proc : Active(p) /\ Len(todo[p]) > 3

\* An appended sequence is not empty.
LEMMA LongerIsNotEmpty ==
  ASSUME deposited \in Seq(Packet), deposited' \in Seq(Packet), Len(deposited') = Len(deposited) + 1
  PROVE  deposited' # <<>>
<1>1. Len(deposited) \in Nat /\ Len(<<>>) = 0
  OBVIOUS
<1> QED
  BY <1>1

\* Every step keeps it.
LEMMA OpenedStep ==
  ASSUME LoadInv, TypeOK', OpenedInv, [Next]_vars, Faults \subseteq {"openfail"}
  PROVE  OpenedInv'
<1>0. Base /\ TypeOK /\ BufferRoom /\ Pending /\ SingleWriter
  BY DEF LoadInv, Base
<1>1. /\ off \in [Proc -> Nat \cup {Closed}] /\ todo \in [Proc -> Seq(Seq(Word))] /\ Closed \notin Nat
      /\ deposited \in Seq(Packet)
  BY <1>0 DEF TypeOK, Closed
<1>2. "kill" \notin Faults /\ "writefail" \notin Faults /\ "short" \notin Faults
      /\ "overlap" \notin Faults
  OBVIOUS
<1>3. CASE UNCHANGED vars
  <2>1. /\ lst' = lst /\ st' = st /\ torn' = torn /\ deposited' = deposited
        /\ off' = off /\ todo' = todo
    BY <1>3 DEF vars, runVars, loaderVars
  <2> QED
    BY <2>1 DEF OpenedInv, Active
<1>4. CASE LoaderOpen \/ Read
  <2>1. /\ st' = st /\ torn' = torn /\ deposited' = deposited /\ off' = off /\ todo' = todo
    BY <1>4, LoadFrame
  <2>2. lst' \in {"reading", "done"} => \E p \in Proc : off[p] # Closed
    BY <1>4 DEF OpenedInv, LoaderOpen, Read, LoaderDone, ReadArguments, ReadBlock, ReadUnknown
  <2> QED
    BY <2>1, <2>2 DEF OpenedInv, Active
<1>5. ASSUME NEW p \in Proc, Run(p)
      PROVE  OpenedInv'
  <2>1. ~Kill(p) /\ ~ShortWrite(p) /\ ~WriteFails(p)
    BY <1>2 DEF Kill, ShortWrite, WriteFails
  <2>2. torn' = torn /\ torn = {}
    BY <1>5, <2>1 DEF OpenedInv, Run, Proceed, Start, Trace, Exit, RunHandler, Finish, OpenFile, OpenFails, Write
  <2>3. lst = "idle" /\ lst' = "idle"
    <3>1. lst = "idle"
      BY <1>5, RunsBeforeLoad DEF LoadInv
    <3> QED
      BY <1>5, <2>1, <3>1 DEF Run, Proceed, Start, Trace, Exit, RunHandler, Finish, OpenFile, OpenFails,
         Write, loaderVars
  <2>4. ASSUME off' = off, deposited' = deposited,
               \A q \in Proc : Active(q) /\ Len(todo[q]) > 3 => off[q] = Closed \/ q # p,
               \A q \in Proc : Active(q) => q = p
        PROVE  OpenedInv'
    <3>1. \A q \in Proc : Active(q) /\ Len(todo[q]) > 3 => off[q] = Closed
      BY <2>4
    <3>2. \A q \in Proc : Len(todo[q]) > 3 => off[q] # Closed
      <4>1. \A q \in Proc : Expected(todo[q], packet[q], off[q])
        BY <1>0 DEF Pending
      <4>2. ~(0 > 3) /\ ~(3 > 3)
        OBVIOUS
      <4> QED
        BY <4>1, <4>2 DEF Expected
    <3>3. (\E q \in Proc : off[q] # Closed) => deposited # <<>>
      BY <3>1, <3>2 DEF OpenedInv
    <3> QED
      BY <2>2, <2>3, <2>4, <3>3 DEF OpenedInv
  <2>5. CASE Start(p)
    <3>1. off' = off /\ deposited' = deposited /\ \A q \in Proc : ~Active(q)
      BY <1>2, <2>5 DEF Start
    <3> QED
      BY <2>4, <3>1
  <2>6. CASE Trace(p) \/ Exit(p) \/ RunHandler(p) \/ Finish(p)
    <3>1. off' = off /\ deposited' = deposited /\ todo[p] = <<>> /\ Active(p)
      BY <2>6 DEF Trace, Exit, RunHandler, Finish, Active
    <3>2. \A q \in Proc : Active(q) => q = p
      BY <1>0, <3>1 DEF SingleWriter
    <3>3. ~(Len(<<>>) > 3)
      OBVIOUS
    <3> QED
      BY <2>4, <3>1, <3>2, <3>3
  <2>7. CASE OpenFails(p)
    <3>1. off' = off /\ deposited' = deposited /\ off[p] = Closed /\ Active(p)
      BY <2>7 DEF OpenFails
    <3>2. \A q \in Proc : Active(q) => q = p
      BY <1>0, <3>1 DEF SingleWriter
    <3> QED
      BY <2>4, <3>1, <3>2
  <2>8. CASE OpenFile(p)
    <3>1. /\ Active(p) /\ todo[p] # <<>> /\ off[p] = Closed /\ st' = st
          /\ todo' = [todo EXCEPT ![p] = ArgsWrites \o todo[p]]
      BY <2>8 DEF OpenFile
    <3>2. Expected(todo[p], packet[p], Closed)
      BY <1>0, <3>1 DEF Pending
    <3>3. Len(ArgsWrites \o todo[p]) = 6
      <4>1. todo[p] \in Seq(Seq(Word)) /\ Len(file) # Closed
        BY <1>0, <1>1 DEF TypeOK, Closed
      <4> QED
        BY <3>1, <3>2, <4>1, OpenedExpected
    <3>4. Active(p)' /\ Len(todo'[p]) > 3
      <4>1. Len(todo'[p]) = 6
        BY <1>1, <3>1, <3>3
      <4>2. 6 > 3
        OBVIOUS
      <4>3. Active(p)'
        BY <3>1 DEF Active
      <4> QED
        BY <4>1, <4>2, <4>3, Zenon
    <3>5. \E q \in Proc : Active(q)' /\ Len(todo'[q]) > 3
      BY <3>4
    <3> QED
      BY <2>2, <2>3, <3>5, Zenon DEF OpenedInv, Active
  <2>9. CASE Write(p)
    <3>1. /\ Len(todo[p]) \in 1 .. 6 /\ Active(p) /\ Active(p)' /\ off[p] # Closed
          /\ Len(todo'[p]) = Len(todo[p]) - 1
          /\ deposited' = deposited \o Completed(p) /\ Current(p) \in Packet
      BY <1>0, <2>9, WriteDoes, Zenon
    <3>2. /\ Len(todo[p]) \in {1, 4} => Len(deposited') = Len(deposited) + 1
          /\ Len(todo[p]) \notin {1, 4} => Len(deposited') = Len(deposited)
      BY <1>0, <3>1, CompletedIs
    <3>3. deposited' \in Seq(Packet)
      BY DEF TypeOK
    <3>4. CASE Len(todo[p]) > 3 /\ Len(todo[p]) \notin {1, 4}
      <4>1. Len(todo'[p]) > 3
        <5>1. \A L \in 1 .. 6 : L > 3 /\ L # 4 => L - 1 > 3
          OBVIOUS
        <5>2. Len(todo[p]) > 3 /\ Len(todo[p]) # 4
          BY <3>4
        <5> QED
          BY <3>1, <5>1, <5>2, Zenon
      <4>2. \E q \in Proc : Active(q)' /\ Len(todo'[q]) > 3
        BY <3>1, <4>1
      <4> QED
        BY <2>2, <2>3, <4>2, Zenon DEF OpenedInv, Active
    <3>5. CASE Len(todo[p]) \in {1, 4}
      <4>1. deposited' # <<>>
        BY <1>1, <3>2, <3>3, <3>5, LongerIsNotEmpty
      <4> QED
        BY <2>2, <2>3, <4>1 DEF OpenedInv
    <3>6. CASE ~(Len(todo[p]) > 3) /\ Len(todo[p]) \notin {1, 4}
      <4>1. \A q \in Proc : Active(q) => q = p
        BY <1>0, <3>1 DEF SingleWriter
      <4>2. deposited # <<>>
        BY <3>1, <3>6, <4>1 DEF OpenedInv
      <4>3. Len(deposited) # 0 /\ Len(deposited') = Len(deposited)
        BY <1>1, <3>2, <3>6, <4>2, EmptyIffNoLength
      <4>4. deposited' # <<>>
        BY <3>3, <4>3, EmptyIffNoLength
      <4> QED
        BY <2>2, <2>3, <4>4 DEF OpenedInv
    <3> QED
      BY <3>4, <3>5, <3>6
  <2> QED
    BY <1>5, <2>1, <2>5, <2>6, <2>7, <2>8, <2>9 DEF Run, Proceed
<1> QED
  BY <1>3, <1>4, <1>5 DEF Next

\* The packet that is written to its end is handed to the store.
LEMMA WriteDeposits ==
  ASSUME Base, TypeOK', NEW p \in Proc, Write(p), Len(todo[p]) \in {1, 4}
  PROVE  /\ Len(deposited') = Len(deposited) + 1
         /\ Store!IsPacket(Store!Last(deposited'))
         /\ Store!Front(deposited') = deposited
<1>1. /\ TypeOK /\ deposited \in Seq(Packet) /\ Len(deposited) \in Nat
      /\ Len(todo[p]) \in 1 .. 6 /\ Storable(Current(p))
      /\ deposited' = deposited \o Completed(p) /\ Current(p) \in Packet
  BY WriteDoes, Zenon
<1>2. /\ Len(deposited') = Len(deposited) + 1
      /\ deposited'[Len(deposited) + 1] = Current(p)
      /\ \A n \in 1 .. Len(deposited) : deposited'[n] = deposited[n]
  BY <1>1, CompletedIs
<1>3. deposited' \in Seq(Packet)
  BY DEF TypeOK
<1>4. Store!IsPacket(Store!Last(deposited'))
  <2>1. Store!Last(deposited') = Current(p)
    BY <1>2 DEF Store!Last
  <2>2. Current(p).kind \in BlockKind \cup {"args"}
    BY <1>1, TypesDiffer
  <2> QED
    BY <2>1, <2>2 DEF Store!IsPacket
<1>5. Store!Front(deposited') = deposited
  <2>1. Len(deposited') - 1 = Len(deposited)
    BY <1>1, <1>2
  <2> DEFINE z == SubSeq(deposited', 1, Len(deposited))
  <2>2. z \in Seq(Packet) /\ Len(z) = Len(deposited) /\ \A i \in 1 .. Len(deposited) : z[i] = deposited'[i]
    BY <1>1, <1>2, <1>3
  <2> HIDE DEF z
  <2>3. z = deposited
    BY <1>1, <1>2, <2>2, SeqEqual
  <2> QED
    BY <2>1, <2>3 DEF Store!Front, z
<1> QED
  BY <1>2, <1>4, <1>5

\* Every step is a step of the store, or none.
LEMMA StoreStep ==
  ASSUME LoadInv, LoadInv', OpenedInv, [Next]_vars, Faults \subseteq {"openfail"}
  PROVE  [Store!Next]_Store!vars
<1> DEFINE res == IF lst = "done" THEN counts ELSE [k \in BlockKind |-> <<>>]
           execs == IF lst = "done" THEN lines ELSE 0
           stat == IF lst = "done" THEN "answered" ELSE IF lst = "failed" THEN "refused" ELSE "waiting"
<1>0. Base /\ TypeOK /\ FileInv /\ LoaderInv /\ TypeOK' /\ LoaderInv' /\ torn = {}
  BY DEF LoadInv, Base, OpenedInv
<1>1. ASSUME deposited' = deposited, res' = res, execs' = execs, stat' = stat
      PROVE  [Store!Next]_Store!vars
  BY <1>1 DEF Store!vars
<1>2. CASE UNCHANGED vars
  <2>1. deposited' = deposited /\ lst' = lst /\ counts' = counts /\ lines' = lines
    BY <1>2 DEF vars, loaderVars
  <2> QED
    BY <1>1, <2>1
<1>3. ASSUME NEW p \in Proc, Run(p)
      PROVE  [Store!Next]_Store!vars
  <2>1. lst = "idle" /\ lst' = "idle"
    <3>1. lst = "idle"
      BY <1>0, <1>3, RunsBeforeLoad
    <3>2. lst' = lst
      BY <1>3 DEF Run, Proceed, Start, Trace, Exit, Kill, RunHandler, Finish, OpenFile, OpenFails,
         Write, ShortWrite, WriteFails, loaderVars
    <3> QED
      BY <3>1, <3>2
  <2>2. res' = res /\ execs' = execs /\ stat' = stat /\ stat = "waiting"
    BY <2>1
  <2>3. CASE Write(p) /\ Len(todo[p]) \in {1, 4}
    <3>1. /\ Len(deposited') = Len(deposited) + 1
          /\ Store!IsPacket(Store!Last(deposited'))
          /\ Store!Front(deposited') = deposited
      BY <1>0, <2>3, WriteDeposits
    <3>2. Store!Deposit
      BY <2>2, <3>1 DEF Store!Deposit
    <3> QED
      BY <3>2 DEF Store!Next
  <2>4. CASE ~(Write(p) /\ Len(todo[p]) \in {1, 4})
    <3>1. deposited' = deposited
      <4>1. CASE Write(p)
        <5>1. Completed(p) = <<>> /\ deposited' = deposited \o Completed(p)
          <6>1. Len(todo[p]) # 1 /\ Len(todo[p]) # 4
            BY <2>4, <4>1
          <6> QED
            BY <4>1, <6>1 DEF Completed, Write
        <5>2. deposited \in Seq(Packet)
          BY <1>0 DEF TypeOK
        <5> QED
          BY <5>1, <5>2
      <4>2. CASE ~Write(p)
        BY <1>3, <4>2 DEF Run, Proceed, Start, Trace, Exit, Kill, RunHandler, Finish, OpenFile,
           OpenFails, ShortWrite, WriteFails
      <4> QED
        BY <4>1, <4>2
    <3> QED
      BY <1>1, <2>2, <3>1
  <2> QED
    BY <2>3, <2>4
<1>4. CASE LoaderOpen \/ Read
  <2>1. deposited' = deposited /\ torn' = torn
    BY <1>4, LoadFrame
  <2>2. lst \in {"idle", "reading"} /\ stat = "waiting" /\ res = [k \in BlockKind |-> <<>>] /\ execs = 0
    <3>1. lst \in {"idle", "reading"}
      BY <1>4 DEF LoaderOpen, Read, LoaderDone, ReadArguments, ReadBlock, ReadUnknown
    <3> QED
      BY <3>1
  <2>3. CASE lst' = "failed"
    <3>1. Store!Unreadable(deposited)
      BY <1>0, <1>4, <2>2, <2>3, FailsForCause
    <3>2. stat' = "refused" /\ res' = res /\ execs' = execs
      BY <2>2, <2>3
    <3>3. Store!Refuse
      BY <2>1, <2>2, <3>1, <3>2 DEF Store!Refuse
    <3> QED
      BY <3>3 DEF Store!Next
  <2>4. CASE lst' = "done"
    <3>1. LoaderDone
      BY <1>4, <2>4 DEF LoaderOpen, Read, LoaderDone, ReadArguments, ReadBlock, ReadUnknown
    <3>2. lst = "reading" /\ Rest = 0 /\ counts' = counts /\ lines' = lines
      BY <3>1 DEF LoaderDone
    <3>3. (\A p \in Proc : ~Active(p)) /\ lpos = Len(file)
      <4>1. lpos \in Nat /\ Len(file) \in Nat
        BY <1>0 DEF TypeOK
      <4> QED
        BY <1>0, <3>2, <4>1 DEF LoaderInv, Rest
    <3>4. /\ Store!Faithful(deposited, counts, lines)
          /\ \A n \in 1 .. Len(deposited) : ~Hollow(deposited[n])
      BY <1>0, <3>3, DoneFaithful
    <3>5. deposited # <<>>
      BY <3>2, <3>3 DEF OpenedInv
    <3>6. ~Store!Unreadable(deposited)
      <4>1. DOMAIN deposited = 1 .. Len(deposited)
        <5>1. deposited \in Seq(Packet)
          BY <1>0 DEF TypeOK
        <5> QED
          BY <5>1
      <4> QED
        BY <3>4, <3>5, <4>1 DEF Store!Unreadable, Hollow
    <3>7. stat' = "answered" /\ res' = counts /\ execs' = lines
      BY <2>4, <3>2
    <3>8. Store!Answer
      BY <2>1, <2>2, <3>4, <3>6, <3>7 DEF Store!Answer
    <3> QED
      BY <3>8 DEF Store!Next
  <2>5. CASE lst' \notin {"done", "failed"}
    <3>1. stat' = "waiting" /\ res' = res /\ execs' = execs
      BY <2>2, <2>5
    <3> QED
      BY <1>1, <2>1, <2>2, <3>1
  <2> QED
    BY <2>3, <2>4, <2>5
<1> QED
  BY <1>2, <1>3, <1>4 DEF Next

\* Runs that follow one another, with no fault but a failing open(), implement
\* the abstract store, however many they are and whatever they write: every
\* packet is kept from its last word on, a load answers with the sums over all
\* of them, and it is refused only when the store allows it.
THEOREM ImplementsStore ==
  ASSUME Faults \subseteq {"openfail"}, ArgBytes > 0
  PROVE  Spec => StoreSpec
<1>0. "overlap" \notin Faults
  OBVIOUS
<1>1. Init => Store!Init
  BY DEF Init, Store!Init
<1>2. Init => OpenedInv
  BY DEF Init, OpenedInv
<1>3. LoadInv /\ [Next]_vars => LoadInv'
  BY <1>0, LoadNext
<1>4. LoadInv /\ LoadInv' /\ OpenedInv /\ [Next]_vars => OpenedInv'
  <2> SUFFICES ASSUME LoadInv, LoadInv', OpenedInv, [Next]_vars PROVE OpenedInv'
    OBVIOUS
  <2>1. TypeOK'
    BY DEF LoadInv, Base
  <2> QED
    BY <2>1, OpenedStep
<1>5. LoadInv /\ LoadInv' /\ OpenedInv /\ [Next]_vars => [Store!Next]_Store!vars
  BY StoreStep
<1> QED
  BY LoadInit, <1>1, <1>2, <1>3, <1>4, <1>5, PTL DEF Spec, StoreSpec, Store!Spec
=============================================================================
