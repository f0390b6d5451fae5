--------------------------- MODULE WitnessService ---------------------------
(***************************************************************************)
(* What a witness calculator promises to its callers: each call is made    *)
(* once with an input and is answered once, with the witness of that input *)
(* if it is accepted and with an error otherwise.                          *)
(***************************************************************************)
CONSTANTS
  Calls,
  Json,
  Accepted(_),
  Witness(_),
  NoAnswer,
  Thrown

VARIABLES
  asked,    (* [Calls -> Json or NoAnswer]                                 *)
  answer    (* [Calls -> a witness, Thrown or NoAnswer]                    *)

Init ==
  /\ asked = [c \in Calls |-> NoAnswer]
  /\ answer = [c \in Calls |-> NoAnswer]

Ask(c, j) ==
  /\ asked[c] = NoAnswer
  /\ asked' = [asked EXCEPT ![c] = j]
  /\ UNCHANGED answer

Answer(c) ==
  /\ asked[c] # NoAnswer /\ answer[c] = NoAnswer
  /\ answer' = [answer EXCEPT ![c] = IF Accepted(asked[c]) THEN Witness(asked[c]) ELSE Thrown]
  /\ UNCHANGED asked

Next == \E c \in Calls : Answer(c) \/ \E j \in Json : Ask(c, j)

Spec == Init /\ [][Next]_<<asked, answer>>
=============================================================================
