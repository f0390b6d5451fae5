--------------------------- MODULE MCLoadCircuit ----------------------------
EXTENDS LoadCircuit

MCWord == 0 .. 2

Def(lengths) == [offset |-> 1, lengths |-> lengths, size |-> 2, busId |-> 0]
Defs == {Def(lengths) : lengths \in {<< >>, <<2>>, <<1, 2>>}}

(* A table of one entry of two words, two signals, a constant, two io map  *)
(* entries, of two definitions and of one or none, and a bus of one.       *)
MCCircuits ==
  {[sections |-> << <<1, 2>>, <<0, 1>>, <<2>>, <<t, 2>> >>, entries |-> << <<a, b>>, c, <<d>> >>] :
     t \in 0 .. 2, a \in Defs, b \in Defs, c \in {<< >>, <<Def(<<2>>)>>}, d \in {Def(<< >>), Def(<<2>>)}}

MCWhole == {Written(c) : c \in MCCircuits}

(* Whole files with up to two more words, files that are cut short, one    *)
(* with a bus that is too large, and short files that may hold anything.   *)
MCFiles ==
  {[words |-> w \o more, rest |-> r] : w \in MCWhole, more \in {<< >>, <<2>>, <<0, 1>>}, r \in {0, 1}}
    \cup {[words |-> SubSeq(w, 1, Len(w) - n), rest |-> r] :
            w \in MCWhole, n \in 1 .. 20, r \in {0, 3}}
    \cup {[words |-> << >>, rest |-> 0],
          [words |-> <<1, 2, 0, 1, 2, 0, 1, 0, 0, 2, 1, 0, 2, 0, 1, 0, 2, 0>>, rest |-> 0]}
    \cup {[words |-> <<1, 2, 0, 1, 2, 0, 1>> \o w, rest |-> 0] : w \in [1 .. 8 -> MCWord]}
=============================================================================
