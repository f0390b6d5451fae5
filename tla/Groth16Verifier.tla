--------------------------- MODULE Groth16Verifier ---------------------------
(***************************************************************************)
(* verifyProof of contracts/Verifier.sol, call by call: it checks that the *)
(* public signals are in the field, sums vk_x = IC0 + s_1*IC1 + ... with   *)
(* two precompiled contracts, lays twelve pairs of coordinates out in      *)
(* memory and has a third precompiled contract check the pairing.  Any     *)
(* call may fail (out of gas, or a word that is no point).                 *)
(*                                                                         *)
(* Memory is a function from word addresses.  The curve groups are the     *)
(* integers modulo R; a point of the first has two coordinates: x is the   *)
(* same for a point and its negative, y tells the two apart.               *)
(***************************************************************************)
EXTENDS Integers, Sequences

CONSTANTS
  R,           (* the order of the scalar field and of the groups          *)
  Base,        (* the order of the base field, q in the code               *)
  WordMax,     (* the largest word                                         *)
  IC,          (* IC0, IC1, ...: the points of the verification key        *)
  Alpha, Beta, Gamma, Delta,   (* its other points                         *)
  CallData     (* the arguments: pA, pB, pC, pubSignals                    *)

NPublic == Len(IC) - 1
Point   == 0 .. R - 1
Word    == 0 .. WordMax

ASSUME VerifierAssumption ==
  /\ R \in Nat /\ R % 2 = 1 /\ R > 2 /\ Base \in Nat /\ Base % 2 = 1 /\ Base > R
  /\ WordMax \in Nat /\ WordMax >= 2 * Base
  /\ IC \in Seq(Point) /\ NPublic \in Nat \ {0}
  /\ {Alpha, Beta, Gamma, Delta} \subseteq Point
  /\ CallData \subseteq [pA : Word \X Word, pB : Word, pC : Word \X Word,
                          pubSignals : [1 .. NPublic -> Word]]

VARIABLES
  args,        (* the call data                                            *)
  mem,         (* memory from pMem on                                      *)
  pc,          (* field, multiply, add, pairing, returned                  *)
  i,           (* the public signal in work                                *)
  failed,      (* has a precompiled contract failed                        *)
  result       (* what is returned                                         *)

vars == <<args, mem, pc, i, failed, result>>

-----------------------------------------------------------------------------
(* Points and their coordinates; <<0, 0>> is the point at infinity.        *)
Coordinates(p) == CASE p = 0                   -> <<0, 0>>
                    [] p > 0 /\ p <= R \div 2  -> <<p, 1>>
                    [] p > R \div 2            -> <<R - p, Base - 1>>
OnCurve(x, y)  == \E p \in Point : Coordinates(p) = <<x, y>>
PointAt(x, y)  == CHOOSE p \in Point : Coordinates(p) = <<x, y>>

(* Word addresses: pVk, pPairing, and the scratch words behind pLastMem    *)
(* that mload(0x40) points at.                                             *)
pVk      == 0
pPairing == 4
pLastMem == 28

Store(m, at, words) == [a \in DOMAIN m |-> IF a - at + 1 \in DOMAIN words THEN words[a - at + 1] ELSE m[a]]
Load(m, at)         == <<m[at], m[at + 1]>>

Return(v) == result' = v /\ pc' = "returned"

(* Mutant: the scratch words lie over the words being prepared.            *)
MulInputAtStart(m, p, s) == Store(Store(m, pVk, Coordinates(p)), pVk + 2, <<s>>)

(* The input of the multiplication: x, y and the scalar at mIn.            *)
MulInput(m, p, s) == Store(Store(m, pLastMem, Coordinates(p)), pLastMem + 2, <<s>>)

(* mod(sub(q, y), q), where sub wraps.                                     *)
Negate(y) == ((Base - y) % (WordMax + 1)) % Base

(* The twelve pairs of words that the pairing is checked on; a point of    *)
(* the second group fills its four words with one abstract value.          *)
PairingInput ==
  LET alpha == Coordinates(Alpha)
      vk == Load(mem, pVk)
  IN  <<args.pA[1], Negate(args.pA[2]), args.pB, args.pB, args.pB, args.pB,
        alpha[1], alpha[2], Beta, Beta, Beta, Beta,
        vk[1], vk[2], Gamma, Gamma, Gamma, Gamma,
        args.pC[1], args.pC[2], Delta, Delta, Delta, Delta>>

-----------------------------------------------------------------------------
Init ==
  /\ args \in CallData
  /\ mem = [a \in 0 .. pLastMem + 3 |-> 0]
  /\ pc = "field" /\ i = 1 /\ failed = FALSE /\ result = "none"

(* checkField of one signal; after the last, IC0 is stored at pVk.         *)
CheckField ==
  /\ pc = "field"
  /\ \/ /\ args.pubSignals[i] >= R
        /\ Return("false")
        /\ UNCHANGED <<args, mem, i, failed>>
     \/ /\ args.pubSignals[i] < R
        /\ IF i < NPublic
           THEN i' = i + 1 /\ UNCHANGED <<pc, mem>>
           ELSE i' = 1 /\ pc' = "multiply" /\ mem' = Store(mem, pVk, Coordinates(IC[1]))
        /\ UNCHANGED <<args, failed, result>>

(* g1_mulAccC: staticcall 7 leaves the product where its input was, and    *)
(* the sum so far is put behind it.                                        *)
Multiply ==
  /\ pc = "multiply"
  /\ LET input == MulInput(mem, IC[i + 1], args.pubSignals[i])
         x == input[pLastMem]
         y == input[pLastMem + 1]
         product == Coordinates((input[pLastMem + 2] * PointAt(x, y)) % R)
     IN  mem' = Store(Store(input, pLastMem, product), pLastMem + 2, Load(input, pVk))
  /\ pc' = "add"
  /\ UNCHANGED <<args, i, failed, result>>

(* Staticcall 6 writes the sum to pVk.                                     *)
Add ==
  /\ pc = "add"
  /\ LET p == Load(mem, pLastMem)
         o == Load(mem, pLastMem + 2)
     IN  mem' = Store(mem, pVk, Coordinates((PointAt(p[1], p[2]) + PointAt(o[1], o[2])) % R))
  /\ IF i < NPublic THEN i' = i + 1 /\ pc' = "multiply" ELSE i' = i /\ pc' = "pairing"
  /\ UNCHANGED <<args, failed, result>>

(* A multiplication or an addition that fails ends the call.               *)
CallFails ==
  /\ pc \in {"multiply", "add"}
  /\ failed' = TRUE
  /\ Return("false")
  /\ UNCHANGED <<args, mem, i>>

(* Staticcall 8 on twenty-four words: it fails on a pair of words that is  *)
(* no point, else writes 1 or 0 over the first of them.                    *)
IsPairing(w) ==
  LET g1(k) == PointAt(w[6 * k + 1], w[6 * k + 2])
      g2(k) == w[6 * k + 3]
  IN  (g1(0) * g2(0) + g1(1) * g2(1) + g1(2) * g2(2) + g1(3) * g2(3)) % R = 0
AllPoints(w) == \A k \in 0 .. 3 : OnCurve(w[6 * k + 1], w[6 * k + 2]) /\ w[6 * k + 3] \in Point

(* Mutant: success of the call is not asked for.                           *)
IsOkUnasked(success, word) == IF word % 2 = 1 THEN "true" ELSE "false"

(* and(success, mload(_pPairing)): the lowest bit, as success is 0 or 1.   *)
IsOk(success, word) == IF success /\ word % 2 = 1 THEN "true" ELSE "false"

Pairing ==
  /\ pc = "pairing"
  /\ LET w == PairingInput
         answer == Store(mem, pPairing, [w EXCEPT ![1] = IF IsPairing(w) THEN 1 ELSE 0])
         input  == Store(mem, pPairing, w)
     IN  \/ /\ AllPoints(w)
            /\ mem' = answer
            /\ Return(IsOk(TRUE, answer[pPairing]))
            /\ UNCHANGED failed
         \/ /\ mem' = input
            /\ failed' = TRUE
            /\ Return(IsOk(FALSE, input[pPairing]))
  /\ UNCHANGED <<args, i>>

Next == CheckField \/ Multiply \/ Add \/ CallFails \/ Pairing

Spec == Init /\ [][Next]_vars

-----------------------------------------------------------------------------
VerifierTypeOK ==
  /\ args \in CallData
  /\ mem \in [0 .. pLastMem + 3 -> Word]
  /\ pc \in {"field", "multiply", "add", "pairing", "returned"}
  /\ i \in 1 .. NPublic
  /\ failed \in BOOLEAN /\ result \in {"none", "true", "false"}

(* What Groth16 asks of a proof, on points: -A*B + Alpha*Beta + VkX*Gamma  *)
(* + C*Delta = 0, where -A is the point that the negated pair gives (a y   *)
(* of q or more is reduced by the negation, and not refused before it).    *)
VkX(m) ==
  LET sum[n \in 0 .. NPublic] ==
        IF n = 0 THEN IC[1] ELSE (sum[n - 1] + args.pubSignals[n] * IC[n + 1]) % R
  IN  sum[m]
Verifies ==
  /\ \A n \in 1 .. NPublic : args.pubSignals[n] < R
  /\ OnCurve(args.pA[1], Negate(args.pA[2])) /\ OnCurve(args.pC[1], args.pC[2])
  /\ args.pB \in Point
  /\ (PointAt(args.pA[1], Negate(args.pA[2])) * args.pB + Alpha * Beta
        + VkX(NPublic) * Gamma + PointAt(args.pC[1], args.pC[2]) * Delta) % R = 0

(* A proof is accepted only if it verifies for exactly these signals, and  *)
(* one that verifies is rejected only when a precompiled contract failed:  *)
(* no word of memory is written over while it is still needed.             *)
AcceptsExactlyProofs ==
  /\ result = "true" => Verifies
  /\ result = "false" /\ Verifies => failed

(* Whenever a precompiled contract fails, early or at the pairing, the     *)
(* answer is false, and nothing is read from the memory it left behind.    *)
FailureIsFalse == failed => pc = "returned" /\ result = "false"

(* Between two signals the sum at pVk is that of the signals before.       *)
SumSoFar == pc \in {"multiply", "pairing"} =>
              Load(mem, pVk) = Coordinates(VkX(IF pc = "pairing" THEN NPublic ELSE i - 1))
=============================================================================
