--------------------------- MODULE FieldElements ---------------------------
(***************************************************************************)
(* The elements of the scalar field as auth_cpp/fr.asm computes with them. *)
(* An FrElement is one of four forms of a number modulo Q: a short integer *)
(* ("short"), a short integer with its Montgomery image beside it          *)
(* ("shortM"), a long one ("long") and the Montgomery image of a long one  *)
(* ("longM").  Each operation has a path for each pair of forms.           *)
(* The long numbers are integers here; only toInt looks at their words.    *)
(***************************************************************************)
EXTENDS Integers

CONSTANTS
  Q,          (* the modulus, an odd prime                                 *)
  WordBits,   (* the bits of a word                                        *)
  Words,      (* Fr_N64, the words of a long                               *)
  ShortBits,  (* a short holds -2^ShortBits .. 2^ShortBits - 1             *)
  NBits       (* the bits of Q                                             *)

Pow2[n \in 0 .. WordBits * Words] == IF n = 0 THEN 1 ELSE 2 * Pow2[n - 1]

Base       == Pow2[WordBits]            (* a word holds 0 .. Base - 1      *)
R          == Pow2[WordBits * Words]
ShortBound == Pow2[ShortBits]
Shorts     == -ShortBound .. ShortBound - 1
Residues   == 0 .. Q - 1

ASSUME FieldAssumption ==
  /\ WordBits \in Nat \ {0} /\ Words \in Nat \ {0}
  /\ NBits \in 2 .. WordBits * Words /\ ShortBits \in 1 .. NBits - 1 /\ ShortBits <= WordBits
  /\ Q \in Nat /\ Q % 2 = 1 /\ \A d \in 2 .. Q - 1 : Q % d # 0
  /\ Pow2[NBits - 1] < Q /\ Q < Pow2[NBits] /\ 2 * Q < R
  /\ ShortBound * ShortBound < Q
  /\ ShortBound <= Q % Base /\ 2 * NBits < Q

Element == [type : {"short", "shortM", "long", "longM"},
            shortVal : Shorts, longVal : 0 .. R - 1]

IsLong(e) == e.type \in {"long", "longM"}
IsMont(e) == e.type \in {"shortM", "longM"}

(* A long element's shortVal, and a "short" one's longVal, is not read:    *)
(* 0 stands for what the operation leaves there.                           *)
Short(v) == [type |-> "short", shortVal |-> v, longVal |-> 0]
Long(v)  == [type |-> "long",  shortVal |-> 0, longVal |-> v]
LongM(v) == [type |-> "longM", shortVal |-> 0, longVal |-> v]

(* rawCopyS2L: an integer of 64 bits as a long.                            *)
rawCopyS2L(v) == Long(IF v >= 0 THEN v ELSE Q + v)

(* A 32-bit result that overflows is computed again in 64 bits.            *)
OfInt(v) == IF v \in Shorts THEN Short(v) ELSE rawCopyS2L(v)

-----------------------------------------------------------------------------
(* Longs below Q                                                           *)

(* Their words wrap around, but not when x and y are below Q.              *)
rawAdd(x, y) == IF x + y >= Q THEN (x + y - Q) % R ELSE x + y

rawSub(x, y) == IF x < y THEN (x - y + Q) % R ELSE x - y

rawNeg(x) == IF x = 0 THEN 0 ELSE (Q - x) % R

(* rawAddLS and rawSubLS, which take the absolute value of the short.      *)
AddShort(x, s) == IF s >= 0 THEN rawAdd(x, s) ELSE rawSub(x, -s)

(* Montgomery multiplication: x * y / R, with the word-by-word reduction   *)
(* of the code taken at once.                                              *)
np == CHOOSE n \in 0 .. R - 1 : (n * Q) % R = R - 1
rawMMul(x, y) ==
  LET t == x * y
      u == (t + (((t % R) * np) % R) * Q) \div R
  IN  IF u >= Q THEN u - Q ELSE u

R2 == (R * R) % Q
R3 == (R2 * R) % Q

-----------------------------------------------------------------------------
(* Conversions                                                             *)

Fr_toMontgomery(e) ==
  CASE IsMont(e)        -> e
    [] e.type = "long"  -> LongM(rawMMul(e.longVal, R2))
    [] e.type = "short" ->
         [e EXCEPT !.type = "shortM",
                   !.longVal = IF e.shortVal >= 0 THEN rawMMul(R2, e.shortVal)
                               ELSE rawNeg(rawMMul(R2, -e.shortVal))]

Fr_toNormal(e) == IF e.type = "longM" THEN Long(rawMMul(e.longVal, 1)) ELSE e

Fr_toLongNormal(e) == IF IsLong(e) THEN Fr_toNormal(e) ELSE rawCopyS2L(e.shortVal)

(* The result's type is written first: an operand that the result          *)
(* overwrites (its number is in over) is converted as if it had that type. *)
Seen(e, i, over, type) == IF i \in over THEN [e EXCEPT !.type = type] ELSE e

-----------------------------------------------------------------------------
(* Arithmetic                                                              *)

Montgomery(e, i, over) ==
  Fr_toMontgomery(IF IsMont(e) THEN e ELSE Seen(e, i, over, "longM")).longVal

Fr_add(a, b, over) ==
  CASE ~IsLong(a) /\ ~IsLong(b)           -> OfInt(a.shortVal + b.shortVal)
    [] a.type = "long" /\ ~IsLong(b)      -> Long(AddShort(a.longVal, b.shortVal))
    [] ~IsLong(a) /\ b.type = "long"      -> Long(AddShort(b.longVal, a.shortVal))
    [] a.type = "long" /\ b.type = "long" -> Long(rawAdd(a.longVal, b.longVal))
    [] OTHER -> LongM(rawAdd(Montgomery(a, 1, over), Montgomery(b, 2, over)))

(* rawNegLS writes q - s into the result before it reads the operand.      *)
rawNegLS(x, s, overwritten) == IF overwritten THEN 0 ELSE rawSub(Q - s, x)

Fr_sub(a, b, over) ==
  CASE ~IsLong(a) /\ ~IsLong(b)           -> OfInt(a.shortVal - b.shortVal)
    [] a.type = "long" /\ ~IsLong(b)      -> Long(AddShort(a.longVal, -b.shortVal))
    [] ~IsLong(a) /\ b.type = "long"      ->
         Long(IF a.shortVal >= 0 THEN rawSub(a.shortVal, b.longVal)
              ELSE rawNegLS(b.longVal, -a.shortVal, 2 \in over))
    [] a.type = "long" /\ b.type = "long" -> Long(rawSub(a.longVal, b.longVal))
    [] OTHER -> LongM(rawSub(Montgomery(a, 1, over), Montgomery(b, 2, over)))

Fr_neg(a) == IF IsLong(a) THEN [a EXCEPT !.longVal = rawNeg(a.longVal)]
             ELSE OfInt(-a.shortVal)

(* A long by an element that is short (rawMMul1 by its absolute value) or  *)
(* long, divided by R.                                                     *)
MulBy(x, e) ==
  CASE IsLong(e)                     -> rawMMul(x, e.longVal)
    [] ~IsLong(e) /\ e.shortVal >= 0 -> rawMMul(x, e.shortVal)
    [] ~IsLong(e) /\ e.shortVal < 0  -> rawNeg(rawMMul(x, -e.shortVal))

(* Two shorts always leave through mul_manageOverflow, as a long.          *)
Fr_mul(a, b) ==
  CASE ~IsLong(a) /\ ~IsLong(b) -> rawCopyS2L(a.shortVal * b.shortVal)
    [] (IsLong(a) \/ IsLong(b)) /\ IsMont(a) /\ IsMont(b) ->
         LongM(rawMMul(a.longVal, b.longVal))
    [] (IsLong(a) \/ IsLong(b)) /\ IsMont(a) /\ ~IsMont(b) -> Long(MulBy(a.longVal, b))
    [] (IsLong(a) \/ IsLong(b)) /\ ~IsMont(a) /\ IsMont(b) -> Long(MulBy(b.longVal, a))
    [] a.type = "long" /\ ~IsMont(b) -> LongM(rawMMul(MulBy(a.longVal, b), R3))
    [] a.type = "short" /\ b.type = "long" -> LongM(rawMMul(MulBy(b.longVal, a), R3))

Fr_square(a) ==
  CASE ~IsLong(a)       -> rawCopyS2L(a.shortVal * a.shortVal)
    [] a.type = "longM" -> LongM(rawMMul(a.longVal, a.longVal))
    [] a.type = "long"  -> LongM(rawMMul(rawMMul(a.longVal, a.longVal), R3))

-----------------------------------------------------------------------------
(* Comparisons and truth.  A number above half stands for a negative one.  *)

half == (Q - 1) \div 2
(* Half itself is taken for a negative number. *)
SignedFromHalf(x) == IF x >= half THEN x - Q ELSE x

Signed(x) == IF x > half THEN x - Q ELSE x

(* What Fr_rlt and Fr_rgt compare: the integer that a short is, or the     *)
(* sign and then the words of a long.                                      *)
Fr_rlt(a, b) == IF ~IsLong(a) /\ ~IsLong(b) THEN a.shortVal < b.shortVal
                ELSE Signed(Fr_toLongNormal(a).longVal) < Signed(Fr_toLongNormal(b).longVal)
Fr_rgt(a, b) == IF ~IsLong(a) /\ ~IsLong(b) THEN a.shortVal > b.shortVal
                ELSE Signed(Fr_toLongNormal(a).longVal) > Signed(Fr_toLongNormal(b).longVal)

(* Montgomery images are compared as they are; a normal long beside a      *)
(* Montgomery one is converted.                                            *)
Fr_req(a, b) ==
  CASE ~IsLong(a) /\ ~IsLong(b) -> a.shortVal = b.shortVal
    [] a.type = "longM" \/ b.type = "longM" ->
         Fr_toMontgomery(a).longVal = Fr_toMontgomery(b).longVal
    [] OTHER -> Fr_toLongNormal(a).longVal = Fr_toLongNormal(b).longVal

Fr_isTrue(a) == IF IsLong(a) THEN a.longVal # 0 ELSE a.shortVal # 0

Truth(p) == Short(IF p THEN 1 ELSE 0)

-----------------------------------------------------------------------------
(* toInt: <<>> stands for the call of Fr_fail.                             *)

(* The least integer is refused. *)
LongToIntStrict(x) ==
  LET low == (x % Base) - (Q % Base)
  IN  CASE x < ShortBound -> <<x>>
        [] /\ x >= ShortBound
           /\ low > -ShortBound
           /\ \A i \in 1 .. Words : x % Pow2[WordBits * i] < Q % Pow2[WordBits * i]
             -> <<low>>
        [] OTHER -> <<>>

LongToInt(x) ==
  LET low == (x % Base) - (Q % Base)
  IN  CASE x < ShortBound -> <<x>>
        [] /\ x >= ShortBound
           /\ low >= -ShortBound
           /\ \A i \in 1 .. Words : x % Pow2[WordBits * i] < Q % Pow2[WordBits * i]  (* a borrow from every word *)
             -> <<low>>
        [] OTHER -> <<>>

Fr_toInt(e) == IF IsLong(e) THEN LongToInt(Fr_toNormal(e).longVal) ELSE <<e.shortVal>>
=============================================================================
