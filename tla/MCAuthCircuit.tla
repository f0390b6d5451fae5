--------------------------- MODULE MCAuthCircuit ----------------------------
EXTENDS AuthCircuit

MCPoseidon == [x \in Field |-> (3 * x * x * x + 5) % Q]

Hashes(x) == {Poseidon[x], (Poseidon[x] + 1) % Q}

(* Every pair of ages with a few of the others, and the reverse.           *)
MCInputs ==
  UNION {[requiredSpecialty : {1}, requiredMinAge : Field, role : {role}, password : {4},
          secretLicense : {6}, age : Field, expertSpecialty : {1},
          storedRoleHash : {Poseidon[role]}, storedPwdHash : {Poseidon[4]},
          storedLicenseHash : {Poseidon[6]}] : role \in 1 .. 2}
  \cup
  UNION {[requiredSpecialty : 0 .. 1, requiredMinAge : {0, 2}, role : {role}, password : {4, Q - 1},
          secretLicense : {6, 7}, age : {1, Q - 1}, expertSpecialty : 0 .. 1,
          storedRoleHash : Hashes(role), storedPwdHash : Hashes(4),
          storedLicenseHash : Hashes(6)] : role \in {0, 1, 2, 3, 4, Q - 1}}
=============================================================================
