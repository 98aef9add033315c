-------------------------- MODULE MCEdgeProfiling --------------------------
(***************************************************************************)
(* Small modules for edge profiling: every function of three blocks with   *)
(* at most two successors each, two modules with two functions, a switch   *)
(* with three cases, a module without main, and an invoke.                 *)
(***************************************************************************)
EXTENDS EdgeProfiling

Module(fs, sc) == [funcs |-> fs, succ |-> sc, pads |-> {}, main |-> TRUE]

Targets == {<<>>} \cup {<<a>> : a \in {2, 3}} \cup {<<a, b>> : a, b \in {2, 3}}

OneFunction == {Module(<< <<1, 2, 3>> >>, [b \in 1 .. 3 |-> f[b]]) : f \in [1 .. 3 -> Targets]}

TwoFunctions ==
  {Module(<< <<1, 2>>, <<3, 4>> >>, <<a, b, <<4, 4>>, c>>) :
     a, b \in {<<2>>, <<2, 2>>, <<>>}, c \in {<<>>, <<4>>}}

Switch == {Module(<< <<1, 2, 3>> >>, << <<2, 3, 2>>, <<3, 2>>, <<>> >>)}

NoMain == {[m EXCEPT !.main = FALSE] : m \in Switch}

\* An invoke in block 1 that unwinds to block 3.
Invoke == {[m EXCEPT !.succ = << <<2, 3>>, <<>>, <<>> >>, !.pads = {3}] : m \in Switch}

SmallModules == Invoke \cup OneFunction \cup TwoFunctions \cup Switch \cup NoMain
=============================================================================
