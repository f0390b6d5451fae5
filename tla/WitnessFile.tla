---------------------------- MODULE WitnessFile ----------------------------
(***************************************************************************)
(* What the auth program promises about the file it is told to write, over *)
(* any number of runs, kills and failures: the file is only ever emptied   *)
(* by a run whose input was accepted, and what fills it is a beginning of  *)
(* the witness of exactly that input, in one go.                           *)
(***************************************************************************)
EXTENDS Naturals, Sequences

CONSTANTS
  Json,         (* what a user may hand to the program                     *)
  NoJson,       (* not a member of Json                                    *)
  Accepted(_),  (* whether the program must accept it                      *)
  Witness(_)    (* the content of the file for an accepted input           *)

VARIABLES
  file,         (* the content of the file: a sequence                     *)
  owner         (* the input of the run that emptied it last               *)

PrefixOf(s, t) == Len(s) <= Len(t) /\ \A k \in 1 .. Len(s) : s[k] = t[k]

Init == file = << >> /\ owner = NoJson

Claim ==
  /\ file' = << >>
  /\ owner' \in Json
  /\ Accepted(owner')

Fill ==
  /\ owner # NoJson
  /\ file = << >>
  /\ PrefixOf(file', Witness(owner))
  /\ UNCHANGED owner

Next == Claim \/ Fill

Spec == Init /\ [][Next]_<<file, owner>>
=============================================================================
