----------------------------- MODULE MCPathFile -----------------------------
(***************************************************************************)
(* Small runs for the path profile: one function whose paths are counted   *)
(* in an array and one with a hash table, between which a run may execute  *)
(* none, one or several paths. A path run six times in a row comes up to   *)
(* the largest word, 7.                                                    *)
(***************************************************************************)
EXTENDS PathFile

ArrayAndHash == <<"array", "hash">>

TwoPaths == << {0, 1}, {2, 3} >>

TwoWords == <<6, 6>>
=============================================================================
