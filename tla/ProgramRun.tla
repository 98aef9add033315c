---------------------------- MODULE ProgramRun -----------------------------
(***************************************************************************)
(* What edge profiling promises: the program runs as it was written, and   *)
(* each of its edges has a counter that says how often it was taken. A     *)
(* program is a record:                                                    *)
(*   funcs  the functions, each the sequence of its blocks, entry first;   *)
(*   succ   succ[b], the successors of block b, in terminator order;       *)
(*   pads   the blocks that are landing pads;                              *)
(*   main   whether there is a function main.                              *)
(* The slots are the edges one by one: <<0, e>> is the call of the         *)
(* function with entry block e, <<b, s>> is successor s of block b. Two    *)
(* slots may be the same edge, as two cases of a switch are.               *)
(***************************************************************************)
EXTENDS Integers, Sequences

CONSTANTS Programs, Uncounted

VARIABLES prog, at, counts

vars == <<prog, at, counts>>

Blocks(p) == DOMAIN p.succ
Entries(p) == {p.funcs[f][1] : f \in DOMAIN p.funcs}
Slots(p) == {<<0, e>> : e \in Entries(p)}
              \cup UNION {{<<b, s>> : s \in DOMAIN p.succ[b]} : b \in Blocks(p)}

Idle == 0

\* Counters are 32-bit words: they wrap around.
Count(slot) == counts' = [counts EXCEPT ![slot] = (@ + 1) % (Uncounted + 1)]

Init ==
  /\ prog \in Programs
  /\ at = Idle
  /\ counts = [slot \in Slots(prog) |-> 0]

Call(e) ==
  /\ at = Idle
  /\ at' = e
  /\ Count(<<0, e>>)
  /\ UNCHANGED prog

Take(s) ==
  /\ at # Idle
  /\ s \in DOMAIN prog.succ[at]
  /\ at' = prog.succ[at][s]
  /\ Count(<<at, s>>)
  /\ UNCHANGED prog

\* The function returns, or the block calls exit().
End ==
  /\ at # Idle
  /\ at' = Idle
  /\ UNCHANGED <<prog, counts>>

Next ==
  \/ \E e \in Entries(prog) : Call(e)
  \/ at # Idle /\ \E s \in DOMAIN prog.succ[at] : Take(s)
  \/ End

Spec == Init /\ [][Next]_vars
=============================================================================
