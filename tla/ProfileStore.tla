--------------------------- MODULE ProfileStore ----------------------------
(***************************************************************************)
(* What the profile file promises to the programs that write it and to the *)
(* tool that reads it, without the file: every packet handed over is kept, *)
(* and a later load returns, for each kind of counter, the sums over all   *)
(* the packets of that kind, or it is refused.                             *)
(***************************************************************************)
EXTENDS Integers, Sequences, FiniteSets, SequencesExt, FiniteSetsExt, Functions

CONSTANTS BlockKind,  \* the kinds of counter packets
          ArgsKind,   \* the packet that opens the record of one run
          Uncounted   \* the counter value "unknown", above every other

VARIABLES store,      \* the packets handed over, oldest first
          status,     \* "waiting", "answered" or "refused"
          result,     \* result[k], the counters of kind k
          executions  \* the number of runs found

vars == <<store, status, result, executions>>

IsPacket(p) == p.kind \in BlockKind \cup {ArgsKind}

OfKind(packets, k) == {n \in DOMAIN packets : packets[n].kind = k}

(***************************************************************************)
(* The values the packets have for one counter. A packet may be too short  *)
(* to have one, and Uncounted is no value.                                 *)
(***************************************************************************)
Holders(packets, k, c) ==
  {n \in OfKind(packets, k) : /\ c \in DOMAIN packets[n].data
                              /\ packets[n].data[c] # Uncounted}

Total(packets, k, c) ==
  SumFunction([n \in Holders(packets, k, c) |-> packets[n].data[c]])

Width(packets, k) ==
  Max({0} \cup {Len(packets[n].data) : n \in OfKind(packets, k)})

(***************************************************************************)
(* Counters res and run count runs are what the packets say: a counter no  *)
(* packet knows is Uncounted, and one whose sum fits is that sum.          *)
(***************************************************************************)
Faithful(packets, res, runs) ==
  /\ runs = Cardinality(OfKind(packets, ArgsKind))
  /\ \A k \in BlockKind :
       /\ Len(res[k]) = Width(packets, k)
       /\ \A c \in DOMAIN res[k] :
            IF Holders(packets, k, c) = {}
            THEN res[k][c] = Uncounted
            ELSE Total(packets, k, c) < Uncounted => res[k][c] = Total(packets, k, c)

\* A load is refused when nothing was ever stored, and when a counter packet
\* has no counters.
Unreadable(packets) ==
  \/ packets = <<>>
  \/ \E n \in DOMAIN packets : packets[n].kind \in BlockKind /\ packets[n].data = <<>>

-----------------------------------------------------------------------------
Init ==
  /\ store = <<>>
  /\ status = "waiting"
  /\ result = [k \in BlockKind |-> <<>>]
  /\ executions = 0

Deposit ==
  /\ status = "waiting"
  /\ Len(store') = Len(store) + 1
  /\ IsPacket(Last(store'))
  /\ Front(store') = store
  /\ UNCHANGED <<status, result, executions>>

Answer ==
  /\ status = "waiting"
  /\ ~Unreadable(store)
  /\ status' = "answered"
  /\ Faithful(store, result', executions')
  /\ UNCHANGED store

Refuse ==
  /\ status = "waiting"
  /\ Unreadable(store)
  /\ status' = "refused"
  /\ UNCHANGED <<store, result, executions>>

Next == Deposit \/ Answer \/ Refuse

Spec == Init /\ [][Next]_vars
=============================================================================
