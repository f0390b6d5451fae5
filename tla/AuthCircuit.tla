----------------------------- MODULE AuthCircuit -----------------------------
(***************************************************************************)
(* The constraints of circuits/auth.circom and of the two circomlib        *)
(* templates under it, IsZero and LessThan, over the field of prime order  *)
(* Q.  Each step binds the signals of one component to any values that     *)
(* satisfy its constraints, which is all that a proof shows of them; the   *)
(* values that the witness calculators take, the right sides of <-- and    *)
(* <==, are operators of the inputs.  Poseidon is a constant function.     *)
(***************************************************************************)
EXTENDS Integers, Sequences, FiniteSets

CONSTANTS
  Q,           (* the order of the field, a prime                          *)
  N,           (* LessThan(N): 32 in the code                              *)
  Poseidon,    (* the hash of one element                                  *)
  Inputs       (* the inputs to be considered                              *)

Field == 0 .. Q - 1

(* The weights of the bits: e2 of Num2Bits.                                *)
Pow2[n \in 0 .. N + 2] == IF n = 0 THEN 1 ELSE 2 * Pow2[n - 1]

InputType == [requiredSpecialty : Field, requiredMinAge : Field, role : Field, password : Field,
              secretLicense : Field, age : Field, expertSpecialty : Field,
              storedRoleHash : Field, storedPwdHash : Field, storedLicenseHash : Field]

(* The sums of N + 1 bits do not wrap: assert(n <= 252) in LessThan.  One  *)
(* bit more lies below Q as well, as N is 32 and Q has 254 bits.           *)
ASSUME CircuitAssumption ==
  /\ N \in Nat \ {0} /\ Q \in Nat /\ Q > Pow2[N + 2]
  /\ \A d \in 2 .. Q - 1 : Q % d # 0
  /\ Poseidon \in [Field -> Field]
  /\ Inputs \subseteq InputType

ROLE_PATIENT == 1
ROLE_DOCTOR  == 2
ROLE_EXPERT  == 3

VARIABLES
  in,          (* the inputs                                               *)
  bound,       (* the signals bound so far: component -> its output        *)
  out,         (* the signals of Auth, once all components are bound       *)
  status       (* binding, refused (no witness), bound                     *)

vars == <<in, bound, out, status>>

-----------------------------------------------------------------------------
(* IsZero                                                                  *)

(* Mutant: the second constraint is left out.                              *)
IsZeroOnce(x, inv, o) == o = (1 - x * inv) % Q

(* out <== -in*inv + 1; in*out === 0                                       *)
IsZero(x, inv, o) == o = (1 - x * inv) % Q /\ (x * o) % Q = 0

(* inv <-- in != 0 ? 1/in : 0                                              *)
InvHint(x) == IF x = 0 THEN 0 ELSE CHOOSE i \in Field : (x * i) % Q = 1

(* The values that the output of a RoleEquality may have, and the one that *)
(* the calculator gives it.                                                *)
RoleEquality(a, b)     == {o \in Field : \E inv \in Field : IsZero((b - a) % Q, inv, o)}
RoleEqualityHint(a, b) == (1 - ((b - a) % Q) * InvHint((b - a) % Q)) % Q

-----------------------------------------------------------------------------
(* Num2Bits(N + 1) and LessThan(N)                                         *)

Weight(b, n) == b * Pow2[n]
BitSum(b) ==
  LET sum[n \in 0 .. N] == IF n = 0 THEN b[0] ELSE sum[n - 1] + Weight(b[n], n)
  IN  sum[N]

(* out[i] * (out[i] - 1) === 0 and lc1 === in                              *)
Num2Bits(x) ==
  {b \in [0 .. N -> {v \in Field : (v * (v - 1)) % Q = 0}] : BitSum(b) % Q = x}

LessThan(a, b) == {(1 - bits[N]) % Q : bits \in Num2Bits((a + Pow2[N] - b) % Q)}

(* Mutant: the calculator takes one bit less.                              *)
BitsHintShort(x) == [n \in 0 .. N |-> IF n = N THEN 0 ELSE (x \div Pow2[n]) % 2]

(* out[i] <-- (in >> i) & 1                                                *)
BitsHint(x) == [n \in 0 .. N |-> (x \div Pow2[n]) % 2]

(* The operands of ageCheck: requiredMinAge - 1 is taken in the field.     *)
AgeBelow == (in.requiredMinAge - 1) % Q

-----------------------------------------------------------------------------
(* Auth: what each of its equality components compares.                    *)
Equalities ==
  [checkDoctor    |-> <<in.role, ROLE_DOCTOR>>,
   checkExpert    |-> <<in.role, ROLE_EXPERT>>,
   checkPatient   |-> <<in.role, ROLE_PATIENT>>,
   checkLicense   |-> <<Poseidon[in.secretLicense], in.storedLicenseHash>>,
   checkSpecialty |-> <<in.expertSpecialty, in.requiredSpecialty>>,
   checkRoleHash  |-> <<Poseidon[in.role], in.storedRoleHash>>,
   checkPwdHash   |-> <<Poseidon[in.password], in.storedPwdHash>>]

(* The components in the order of the source.                              *)
Components == <<"checkDoctor", "checkExpert", "checkPatient", "checkLicense", "ageCheck",
                "checkSpecialty", "checkRoleHash", "checkPwdHash">>

Bind(c, v) == bound' = [d \in DOMAIN bound \cup {c} |-> IF d = c THEN v ELSE bound[d]]
NextComponent == Components[Cardinality(DOMAIN bound) + 1]

Init == in \in Inputs /\ bound = << >> /\ out = << >> /\ status = "binding"

CheckEquality ==
  /\ status = "binding" /\ Cardinality(DOMAIN bound) < Len(Components)
  /\ NextComponent # "ageCheck"
  /\ \E v \in RoleEquality(Equalities[NextComponent][1], Equalities[NextComponent][2]) :
       Bind(NextComponent, v)
  /\ UNCHANGED <<in, out, status>>

CheckAge ==
  /\ status = "binding" /\ Cardinality(DOMAIN bound) < Len(Components)
  /\ NextComponent = "ageCheck"
  /\ \E v \in LessThan(AgeBelow, in.age) : Bind("ageCheck", v)
  /\ UNCHANGED <<in, out, status>>

(* The calculator's bits do not sum to the difference: the === fails.      *)
RefuseAge ==
  /\ status = "binding" /\ Cardinality(DOMAIN bound) < Len(Components)
  /\ NextComponent = "ageCheck"
  /\ LET d == (AgeBelow + Pow2[N] - in.age) % Q IN BitSum(BitsHint(d)) % Q # d
  /\ status' = "refused"
  /\ UNCHANGED <<in, bound, out>>

(* Mutant: a doctor's license is not asked for.                            *)
OutputsUnlicensed(b) ==
  LET rolePwdValid == (b.checkRoleHash * b.checkPwdHash) % Q
  IN  [isAuthenticated  |-> rolePwdValid,
       isDoctor         |-> b.checkDoctor,
       isExpert         |-> b.checkExpert,
       canRequestExpert |-> (b.checkDoctor * b.checkSpecialty) % Q,
       isAdultPatient   |-> (b.checkPatient * b.ageCheck) % Q]

(* The <== of Auth that are no component's.                                *)
Outputs(b) ==
  LET isLicensed   == (b.checkDoctor * b.checkLicense) % Q
      rolePwdValid == (b.checkRoleHash * b.checkPwdHash) % Q
      doctorCheck  == (1 - b.checkDoctor + isLicensed) % Q
  IN  [isAuthenticated  |-> (rolePwdValid * doctorCheck) % Q,
       isDoctor         |-> b.checkDoctor,
       isExpert         |-> b.checkExpert,
       canRequestExpert |-> (isLicensed * b.checkSpecialty) % Q,
       isAdultPatient   |-> (b.checkPatient * b.ageCheck) % Q]

BindOutputs ==
  /\ status = "binding" /\ Cardinality(DOMAIN bound) = Len(Components)
  /\ out' = Outputs(bound) /\ status' = "bound"
  /\ UNCHANGED <<in, bound>>

Next == CheckEquality \/ CheckAge \/ RefuseAge \/ BindOutputs

Spec == Init /\ [][Next]_vars

-----------------------------------------------------------------------------
CircuitTypeOK ==
  /\ in \in Inputs
  /\ status \in {"binding", "refused", "bound"}
  /\ DOMAIN bound \subseteq {Components[n] : n \in DOMAIN Components}
  /\ \A c \in DOMAIN bound : bound[c] \in Field
  /\ \A o \in DOMAIN out : out[o] \in Field

(* The constraints leave no choice: whatever satisfies them is, output by  *)
(* output, what the witness calculators compute (only the inverse inside   *)
(* an IsZero of 0 is free).                                                *)
OneWitness ==
  \A c \in DOMAIN bound :
    bound[c] = IF c = "ageCheck"
               THEN (1 - BitsHint((AgeBelow + Pow2[N] - in.age) % Q)[N]) % Q
               ELSE RoleEqualityHint(Equalities[c][1], Equalities[c][2])

(* Elements above Q \div 2 stand for negative numbers.                     *)
Signed(x) == IF x > Q \div 2 THEN x - Q ELSE x

(* A calculator refuses an age only if no witness exists for it, and does  *)
(* so exactly when the ages are too far apart for N + 1 bits (the === of   *)
(* Num2Bits, on hints that <-- makes without a constraint).                *)
RefusesOnlyTheUnprovable ==
  LET close == Signed((in.age - in.requiredMinAge) % Q) \in -Pow2[N] .. Pow2[N] - 1
  IN  /\ status = "refused" => ~close /\ Num2Bits((AgeBelow + Pow2[N] - in.age) % Q) = {}
      /\ "ageCheck" \in DOMAIN bound => close

(* isAuthenticated is 1 exactly for someone who has the stored role and    *)
(* password and, if a doctor, the stored license; else it is 0.            *)
AuthenticatedMeans ==
  status = "bound" =>
    out.isAuthenticated =
      IF /\ Poseidon[in.role] = in.storedRoleHash
         /\ Poseidon[in.password] = in.storedPwdHash
         /\ in.role = ROLE_DOCTOR => Poseidon[in.secretLicense] = in.storedLicenseHash
      THEN 1 ELSE 0

(* canRequestExpert is 1 exactly for a doctor with the stored license and  *)
(* an expert of the required specialty.                                    *)
RequestMeans ==
  status = "bound" =>
    out.canRequestExpert =
      IF /\ in.role = ROLE_DOCTOR
         /\ Poseidon[in.secretLicense] = in.storedLicenseHash
         /\ in.expertSpecialty = in.requiredSpecialty
      THEN 1 ELSE 0

(* isAdultPatient is 1 exactly for a patient of at least the required age, *)
(* 0 included, although requiredMinAge - 1 is then Q - 1 (auth.circom:79). *)
(* Both ages are below 2^N or small negative numbers.                      *)
Age == -Pow2[N - 1] .. Pow2[N] - 1

AdultMeans ==
  status = "bound" /\ Signed(in.age) \in Age /\ Signed(in.requiredMinAge) \in Age =>
    out.isAdultPatient = IF in.role = ROLE_PATIENT /\ Signed(in.age) >= Signed(in.requiredMinAge)
                         THEN 1 ELSE 0

(* The three outputs that are more than a comparison mean what they say of *)
(* the inputs, which include the stored hashes: only requiredSpecialty and *)
(* requiredMinAge are public (auth.circom:103).                            *)
OutputsMean == AuthenticatedMeans /\ RequestMeans /\ AdultMeans
=============================================================================
