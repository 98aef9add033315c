-------------------------- MODULE MCProfileFile ---------------------------
(***************************************************************************)
(* Small runs for the profile file. Words go up to 15, which stands for    *)
(* ~0U; a word of characters is 14. The vectors contain unknown counters   *)
(* and values whose sum wraps around, and differ in length.                *)
(***************************************************************************)
EXTENDS ProfileFile, TLC

Perms == Permutations(Proc)

AllKinds == <<"edge", "opt", "trace">>
EdgeAndOpt == <<"edge", "opt">>

\* Two sizes of edge counters, and optimal counters with unknown entries.
MixedVectors == [edge |-> {<<1, 9>>, <<8>>}, opt |-> {<<15, 3>>, <<2, 15>>}]
=============================================================================
