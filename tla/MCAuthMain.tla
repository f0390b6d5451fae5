----------------------------- MODULE MCAuthMain -----------------------------
(***************************************************************************)
(* Inputs a (one signal) and b (two) in a table of four slots, with b      *)
(* found by probing; c has a hash of no entry and d collides with a. Every *)
(* input over these keys, with too few, too many and bad values.           *)
(***************************************************************************)
EXTENDS AuthMain

MCHash == {4, 8, 12}

Empty == [hash |-> 0, signalid |-> 0, signalsize |-> 0]

MCInputHashMap ==
  [p \in 0 .. 3 |-> CASE p = 0 -> [hash |-> 4, signalid |-> 4, signalsize |-> 1]
                      [] p = 1 -> [hash |-> 8, signalid |-> 2, signalsize |-> 2]
                      [] OTHER -> Empty]

MCValue == 0 .. 2

MCCircuit(in, s) ==
  IF \E n \in DOMAIN in : in[n] \notin MCValue THEN 0
  ELSE IF s = 1 THEN (in[2] + (2 * in[3]) + in[4]) % 3 ELSE (in[2] * in[4]) % 3

MCKey == {"a", "b", "c", "d"}
Mcfnv1a == [k \in MCKey |-> CASE k = "b" -> 8 [] k = "c" -> 12 [] OTHER -> 4]

(* The values a key may come with; Absent leaves the key out.              *)
Absent == <<0, 0, 0>>
MCVals ==
  [k \in MCKey |->
     CASE k = "a" -> {Absent, <<1>>, <<2>>, <<1, 2>>, << >>}
       [] k = "b" -> {Absent, <<1, 2>>, <<2, 2>>, <<1>>, <<1, BadNumber>>}
       [] k = "c" -> {Absent, <<1>>}
       [] k = "d" -> {Absent, <<2>>, <<BadNumber>>}]

(* The inputs, in the order of the keys.                                   *)
Present(it) == it.vals # Absent
MCJson ==
  {SelectSeq(<<[key |-> "a", vals |-> va], [key |-> "b", vals |-> vb],
               [key |-> "c", vals |-> vc], [key |-> "d", vals |-> vd]>>, Present) :
     va \in MCVals["a"], vb \in MCVals["b"], vc \in MCVals["c"], vd \in MCVals["d"]}

(* The outputs and inputs, then the intermediate signal, leaving out 4.    *)
MCwitness2SignalList == [k \in 0 .. 4 |-> IF k = 4 THEN 5 ELSE k]
=============================================================================
