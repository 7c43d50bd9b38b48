-------------------------- MODULE MCImmutableString --------------------------
(* The texts that the strings of a run are made from.                       *)
EXTENDS ImmutableString, TLC

MCLiterals == {<<"a", "b">>, <<>>}

(* Threads, variables and addresses are interchangeable, and every property *)
(* of the run is a safety property.                                         *)
MCSymmetry ==
  Permutations(Threads) \cup Permutations(Strings) \cup Permutations(Blocks)
=============================================================================
