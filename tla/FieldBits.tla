----------------------------- MODULE FieldBits -----------------------------
(***************************************************************************)
(* The operations of auth_cpp/fr.asm on the bits of field elements: and,   *)
(* or, exclusive or, not, and the shifts, whose distance is itself a field *)
(* element: one that is close below Q shifts the other way.                *)
(***************************************************************************)
EXTENDS FieldElements

(* lboMask clears the bits above NBits; what is then still above Q is      *)
(* reduced by one subtraction.                                             *)
Masked(x) == LET y == x % Pow2[NBits] IN IF y >= Q THEN y - Q ELSE y

Bit(x, i) == (x \div Pow2[i]) % 2

(* The number whose bits are table[<<bit of x, bit of y>>].                *)
BitByBit(table, x, y) ==
  LET low[n \in 0 .. NBits] ==
        IF n = 0 THEN 0
        ELSE low[n - 1] + table[<<Bit(x, n - 1), Bit(y, n - 1)>>] * Pow2[n - 1]
  IN  low[NBits]

Bits == {0, 1}
And  == [p \in Bits \X Bits |-> IF p = <<1, 1>> THEN 1 ELSE 0]
Or   == [p \in Bits \X Bits |-> IF p = <<0, 0>> THEN 0 ELSE 1]
Xor  == [p \in Bits \X Bits |-> IF p[1] = p[2] THEN 0 ELSE 1]

(* A short beside a long is converted even when it is not negative. *)
BitOperandConverted(a, b, i, over) ==
  Fr_toLongNormal(Seen(IF i = 1 THEN a ELSE b, i, over, "long")).longVal

(* The operand i as the bits that are combined.  A short that is not       *)
(* negative is used as it stands beside a long; all others are converted,  *)
(* after the result's type was written.                                    *)
BitOperand(a, b, i, over) ==
  LET e == IF i = 1 THEN a ELSE b
  IN  IF (IsLong(a) \/ IsLong(b)) /\ ~IsLong(e) /\ e.shortVal >= 0 THEN e.shortVal
      ELSE Fr_toLongNormal(Seen(e, i, over, "long")).longVal

BitOp(table, a, b, over) ==
  IF ~IsLong(a) /\ ~IsLong(b) /\ a.shortVal >= 0 /\ b.shortVal >= 0
  THEN Short(BitByBit(table, a.shortVal, b.shortVal))
  ELSE Long(Masked(BitByBit(table, BitOperand(a, b, 1, over), BitOperand(a, b, 2, over))))

Fr_band(a, b, over) == BitOp(And, a, b, over)
Fr_bor(a, b, over)  == BitOp(Or, a, b, over)
Fr_bxor(a, b, over) == BitOp(Xor, a, b, over)

Fr_bnot(a, over) ==
  Long(Masked(R - 1 - Fr_toLongNormal(Seen(a, 1, over, "long")).longVal))

-----------------------------------------------------------------------------
(* Shifts                                                                  *)

rawShr(x, n) == x \div Pow2[n]
rawShl(x, n) == Masked(x * Pow2[n])

do_shl(a, n) ==
  CASE ~IsLong(a) /\ a.shortVal = 0 -> Short(0)
    [] ~IsLong(a) /\ a.shortVal > 0 /\ n < ShortBits /\ a.shortVal * Pow2[n] < ShortBound ->
         Short(a.shortVal * Pow2[n])
    [] OTHER -> Long(rawShl(Fr_toLongNormal(a).longVal, n))

do_shr(a, n) ==
  CASE ~IsLong(a) /\ a.shortVal >= 0 /\ n < ShortBits  -> Short(a.shortVal \div Pow2[n])
    [] ~IsLong(a) /\ a.shortVal >= 0 /\ n >= ShortBits -> Short(0)
    [] OTHER -> Long(rawShr(Fr_toLongNormal(a).longVal, n))

(* How far and whether to the other side the element b says to shift; <<>> *)
(* when nothing is left of the operand (setzero).                          *)
Distance(b) ==
  LET x == Fr_toNormal(b).longVal
  IN  CASE ~IsLong(b) /\ b.shortVal \in 0 .. NBits - 1    -> <<b.shortVal, FALSE>>
        [] ~IsLong(b) /\ -b.shortVal \in 1 .. NBits - 1   -> <<-b.shortVal, TRUE>>
        [] IsLong(b) /\ x < NBits                         -> <<x, FALSE>>
        [] IsLong(b) /\ x >= NBits /\ Q - x < NBits       -> <<Q - x, TRUE>>
        [] OTHER                                          -> <<>>

Fr_shl(a, b) ==
  LET d == Distance(b)
  IN  CASE d = <<>>            -> Short(0)
        [] d # <<>> /\ ~d[2]   -> do_shl(a, d[1])
        [] d # <<>> /\ d[2]    -> do_shr(a, d[1])

Fr_shr(a, b) ==
  LET d == Distance(b)
  IN  CASE d = <<>>            -> Short(0)
        [] d # <<>> /\ ~d[2]   -> do_shr(a, d[1])
        [] d # <<>> /\ d[2]    -> do_shl(a, d[1])
=============================================================================
