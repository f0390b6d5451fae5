----------------------------- MODULE MCCalcWit -----------------------------
(***************************************************************************)
(* Three main inputs, a: 1 signal and b: an array of 2, in a table of four *)
(* slots where b's home slot is taken by a, so that it is found by         *)
(* probing. Hash 8 has the same home and is in no entry; 3 has an empty    *)
(* home slot; 0 is the hash of an empty slot.                              *)
(***************************************************************************)
EXTENDS CalcWit

MCHash == {0, 3, 4, 8, 12}

Empty == [hash |-> 0, signalid |-> 0, signalsize |-> 0]

MCInputHashMap ==
  [p \in 0 .. 3 |-> CASE p = 0 -> [hash |-> 4, signalid |-> 4, signalsize |-> 1]
                      [] p = 1 -> [hash |-> 8, signalid |-> 2, signalsize |-> 2]
                      [] OTHER -> Empty]

MCValue == 0 .. 2

(* Signal 1 is the output and 5 an intermediate signal; inputs that were   *)
(* never set count as 0.                                                   *)
MCCircuit(in, s) ==
  IF \E n \in DOMAIN in : in[n] \notin MCValue THEN 0
  ELSE IF s = 1 THEN (in[2] + (2 * in[3]) + in[4]) % 3 ELSE (in[2] * in[4]) % 3
=============================================================================
