---------------------------- MODULE MCMicroBench ----------------------------
(***************************************************************************)
(* MicroBench with two hashes and three sizes, of which the largest does   *)
(* not fit the smaller pool, and fits the larger one once.                 *)
(***************************************************************************)
EXTENDS MicroBench

MCHashes == <<"xxh3-128", "river5">>

MCSizes == <<1, 2, 4>>

MCOnly == {NULL, "river5"}
=============================================================================
