--------------------------- MODULE MCJsCalculator ---------------------------
(***************************************************************************)
(* Key a names one signal, b two, u none. The circuit has an assert that   *)
(* fails for a = 2, after the first of the computed signals.               *)
(***************************************************************************)
EXTENDS JsCalculator

MCKey == {"a", "b", "u"}
MCSignalOfKey == [k \in MCKey |-> CASE k = "a" -> 4 [] k = "b" -> 2 [] k = "u" -> NoSignal]
MCSizeOfKey == [k \in MCKey |-> CASE k = "a" -> 1 [] k = "b" -> 2 [] k = "u" -> 0]

MCValue == 0 .. 2
MCInputSignals == 2 .. 4
MCComputedSignals == {1, 5}

MCCircuit(in, s) ==
  IF \E n \in DOMAIN in : in[n] \notin MCValue THEN 0
  ELSE IF s = 1 THEN (in[2] + (2 * in[3]) + in[4]) % 3 ELSE (in[2] * in[4]) % 3

MCEvaluated(in) == IF in[4] = 2 THEN {1} ELSE MCComputedSignals

Absent == <<0, 0, 0>>
MCVals ==
  [k \in MCKey |->
     CASE k = "a" -> {Absent, <<0>>, <<1>>, <<2>>, <<1, 1>>}
       [] k = "b" -> {Absent, <<1, 2>>, <<2, 2>>, <<1>>, <<2, BadNumber>>}
       [] k = "u" -> {Absent, << >>, <<1>>}]

Present(it) == it.vals # Absent

(* The keys in either order.                                               *)
MCJson ==
  UNION {{SelectSeq(<<[key |-> "a", vals |-> va], [key |-> "b", vals |-> vb],
                      [key |-> "u", vals |-> vu]>>, Present),
          SelectSeq(<<[key |-> "u", vals |-> vu], [key |-> "b", vals |-> vb],
                      [key |-> "a", vals |-> va]>>, Present)} :
           va \in MCVals["a"], vb \in MCVals["b"], vu \in MCVals["u"]}

(* Four inputs that are accepted, and some that are refused: by an assert  *)
(* of the circuit, for a bad value, for values of an unknown key, and for  *)
(* inputs that are missing.                                                *)
MCFewJson ==
  {j \in MCJson : Len(j) = 2 /\ j[1].key = "a" /\ j[1].vals # << 1, 1 >> /\ j[2].vals # << 1 >>}

(* With them, inputs of one key, in the other order, and of three keys.    *)
MCSomeJson ==
  MCFewJson \cup
    {j \in MCJson :
       /\ Len(j) = 2 => j[1].key = "b" /\ j[2].key = "a"
       /\ \A n \in DOMAIN j : j[n].vals = CASE j[n].key = "a" -> <<1>>
                                           [] j[n].key = "b" -> <<1, 2>>
                                           [] j[n].key = "u" -> << >>}

MCwitness2signal == <<0, 1, 2, 4, 5>>
=============================================================================
