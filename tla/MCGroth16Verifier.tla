------------------------- MODULE MCGroth16Verifier --------------------------
EXTENDS Groth16Verifier

MCIC == <<2, 1, 3>>

(* Every point, and words that are none: an x of no point, a y that is     *)
(* only one after reduction modulo Base.                                   *)
Pairs == {Coordinates(p) : p \in Point} \cup {<<3, 1>>, <<1, Base + 1>>, <<0, Base>>}

MCCallData == [pA : Pairs, pB : 0 .. R, pC : Pairs, pubSignals : (0 .. R) \X (0 .. R)]
=============================================================================
