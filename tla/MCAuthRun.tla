----------------------------- MODULE MCAuthRun -----------------------------
(***************************************************************************)
(* The program's own tree over a field of 103 elements, where x^5 is a     *)
(* permutation as it is in the program's field, and arbitrary constants.   *)
(* Stored hashes that match and that do not, roles that match and that do  *)
(* not.                                                                    *)
(***************************************************************************)
EXTENDS AuthRun

MCC == [k \in 0 .. 15 + RP |-> (k * k + 3 * k + 1) % q]
MCM == [e \in T \X T |-> CASE e = <<0, 0>> -> 2 [] e = <<0, 1>> -> 1 [] e = <<1, 0>> -> 3 [] OTHER -> 5]
MCP == [e \in T \X T |-> CASE e = <<0, 0>> -> 1 [] e = <<0, 1>> -> 4 [] e = <<1, 0>> -> 2 [] OTHER -> 3]
MCS == [k \in 0 .. 3 * RP - 1 |-> (2 * k * k + k + 3) % q]

MCInputs ==
  UNION {{ << h, 2, r, x >> : h \in {Poseidon(x), (Poseidon(x) + 1) % q, (Poseidon(x) + 3) % q},
                              r \in {2, 4} } : x \in {0, 1, 5, 20, 51, 102} }
=============================================================================
