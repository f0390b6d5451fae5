---------------------------- MODULE MCTwoWriters ----------------------------
EXTENDS TwoWriters, TLC

CONSTANTS c1, c2, s1, j1, j2

(* Three elements: the first, the header, is the same in every file.       *)
MCWitness == (j1 :> <<"header", "a1", "b1">>) @@ (j2 :> <<"header", "a2", "b2">>)
Symmetry  == Permutations({c1, c2})
=============================================================================
