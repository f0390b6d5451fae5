---------------------------- MODULE FieldCalls -----------------------------
(***************************************************************************)
(* A program that computes with field elements: the operations of fr.asm   *)
(* and of fr.cpp applied to two cells x and y, which a result is then      *)
(* copied to.  The generated auth.cpp gives every call a result cell of    *)
(* its own (over = {}); the functions also accept one of the operands'     *)
(* cells (its number is in over).                                          *)
(***************************************************************************)
EXTENDS FieldBits

CONSTANT Leftovers  (* what a cell's longVal may hold when the cell is given a short *)

ASSUME LeftoversAssumption == Leftovers \subseteq 0 .. R - 1 /\ Leftovers # {}

VARIABLES x, y,     (* the operands                                        *)
          r,        (* the result of the last operation                    *)
          call,     (* <<operation, over>>, <<>> between operations        *)
          answer    (* the C integer or the number printed, if any         *)

vars == <<x, y, r, call, answer>>

(* The number that an element stands for.                                  *)
RInverse == CHOOSE n \in Residues : (n * R) % Q = 1
Number(e) ==
  CASE ~IsLong(e)       -> e.shortVal % Q
    [] e.type = "long"  -> e.longVal
    [] e.type = "longM" -> (e.longVal * RInverse) % Q

-----------------------------------------------------------------------------
(* fr.cpp goes through GMP's integers.                                     *)

Fr_toMpz(e) ==
  LET t == Fr_toNormal(e)
  IN  IF IsLong(t) THEN t.longVal
      ELSE IF t.shortVal < 0 THEN t.shortVal + Q ELSE t.shortVal

Fr_fromMpz(v) == IF v \in Shorts THEN Short(v) ELSE Long(v)

Fr_str2element(v) == Fr_fromMpz(v % Q)

Fr_element2str(e) ==
  IF ~IsLong(e) THEN IF e.shortVal >= 0 THEN e.shortVal ELSE e.shortVal + Q
  ELSE Fr_toNormal(e).longVal

(* mpz_powm                                                                *)
PowMod(u, v) ==
  LET power[n \in 0 .. v] == IF n = 0 THEN 1 ELSE (power[n - 1] * u) % Q
  IN  power[v]

(* mpz_invert, which leaves its result undefined when there is no inverse. *)
Inverses(u) == IF u = 0 THEN Residues ELSE {n \in Residues : (n * u) % Q = 1}

Fr_idiv(a, b) == Fr_fromMpz(Fr_toMpz(a) \div Fr_toMpz(b))
Fr_mod(a, b)  == Fr_fromMpz(Fr_toMpz(a) % Fr_toMpz(b))
Fr_pow(a, b)  == Fr_fromMpz(PowMod(Fr_toMpz(a), Fr_toMpz(b)))
Fr_inv(a)     == {Fr_fromMpz(n) : n \in Inverses(Fr_toMpz(a))}
Fr_div(a, b)  == {Fr_mul(a, i) : i \in Fr_inv(b)}

-----------------------------------------------------------------------------
(* The results that an operation may leave                                 *)

Arithmetic  == {"add", "sub", "mul", "idiv", "mod", "pow", "div"}
BitWise     == {"band", "bor", "bxor", "shl", "shr"}
Comparisons == {"eq", "neq", "lt", "gt", "leq", "geq", "land", "lor"}
OneOperand  == {"copy", "neg", "square", "inv", "bnot", "lnot",
                "toNormal", "toLongNormal", "toMontgomery"}

(* The operations that write a part of the result while they still read.   *)
EarlyWriters == {"add", "sub", "band", "bor", "bxor", "bnot"}

(* fr.asm's comparisons store the raw answer, 1 or 0, as a short.          *)
Compared(op, a, b) ==
  CASE op = "eq"   -> Fr_req(a, b)
    [] op = "neq"  -> ~Fr_req(a, b)
    [] op = "lt"   -> Fr_rlt(a, b)
    [] op = "gt"   -> Fr_rgt(a, b)
    [] op = "leq"  -> ~Fr_rgt(a, b)
    [] op = "geq"  -> ~Fr_rlt(a, b)
    [] op = "land" -> Fr_isTrue(a) /\ Fr_isTrue(b)
    [] op = "lor"  -> Fr_isTrue(a) \/ Fr_isTrue(b)

Results(op, a, b, over) ==
  CASE op = "add"  -> {Fr_add(a, b, over)}
    [] op = "sub"  -> {Fr_sub(a, b, over)}
    [] op = "mul"  -> {Fr_mul(a, b)}
    [] op = "idiv" -> {Fr_idiv(a, b)}
    [] op = "mod"  -> {Fr_mod(a, b)}
    [] op = "pow"  -> {Fr_pow(a, b)}
    [] op = "div"  -> Fr_div(a, b)
    [] op = "band" -> {Fr_band(a, b, over)}
    [] op = "bor"  -> {Fr_bor(a, b, over)}
    [] op = "bxor" -> {Fr_bxor(a, b, over)}
    [] op = "shl"  -> {Fr_shl(a, b)}
    [] op = "shr"  -> {Fr_shr(a, b)}
    [] op \in Comparisons    -> {Truth(Compared(op, a, b))}
    [] op = "copy"           -> {a}
    [] op = "neg"            -> {Fr_neg(a)}
    [] op = "square"         -> {Fr_square(a)}
    [] op = "inv"            -> Fr_inv(a)
    [] op = "bnot"           -> {Fr_bnot(a, over)}
    [] op = "lnot"           -> {Truth(~Fr_isTrue(a))}
    [] op = "toNormal"       -> {Fr_toNormal(a)}
    [] op = "toLongNormal"   -> {Fr_toLongNormal(a)}
    [] op = "toMontgomery"   -> {Fr_toMontgomery(a)}

(* A short leaves the words of its cell as they were.                      *)
Stored(e) == IF e.type = "short" THEN {[e EXCEPT !.longVal = w] : w \in Leftovers} ELSE {e}

-----------------------------------------------------------------------------
Init ==
  /\ x \in UNION {Stored(Fr_str2element(v)) : v \in Residues}
  /\ y \in UNION {Stored(Fr_str2element(v)) : v \in Residues}
  /\ r = Short(0)
  /\ call = <<>>
  /\ answer = <<>>

Compute(op, over) ==
  /\ call = <<>>
  /\ over # {} => op \in EarlyWriters
  /\ op \in {"idiv", "mod"} => Fr_toMpz(y) # 0
  /\ \E e \in Results(op, x, y, over) : r' \in Stored(e)
  /\ call' = <<op, over>>
  /\ UNCHANGED <<x, y, answer>>

ComputeOne(op, over) == op \in OneOperand /\ 2 \notin over /\ Compute(op, over)
ComputeTwo(op, over) == op \notin OneOperand /\ Compute(op, over)

(* GMP ends the process with SIGFPE.                                       *)
DivideByZero ==
  /\ call = <<>>
  /\ Fr_toMpz(y) = 0
  /\ call' = <<"SIGFPE", {}>>
  /\ UNCHANGED <<x, y, r, answer>>

(* When there is no answer, Fr_fail has ended the process.                 *)
ToInt ==
  /\ call = <<>>
  /\ call' = <<"toInt", {}>>
  /\ answer' = Fr_toInt(x)
  /\ UNCHANGED <<x, y, r>>

PrintElement ==
  /\ call = <<>>
  /\ call' = <<"element2str", {}>>
  /\ answer' = <<Fr_element2str(x)>>
  /\ UNCHANGED <<x, y, r>>

(* The program goes on with the result in one of the cells, as auth.cpp    *)
(* does: its results have cells of their own until they are copied.        *)
Keep ==
  /\ call # <<>>
  /\ call[2] = {}
  /\ call[1] \in Arithmetic \cup BitWise \cup Comparisons \cup OneOperand
  /\ \/ x' = r /\ y' = y
     \/ x' = x /\ y' = r
  /\ r' = Short(0)
  /\ call' = <<>>
  /\ UNCHANGED answer

Next ==
  \/ \E op \in OneOperand, over \in {{}, {1}} : ComputeOne(op, over)
  \/ \E op \in Arithmetic \cup BitWise \cup Comparisons, over \in {{}, {1}, {2}} :
       ComputeTwo(op, over)
  \/ DivideByZero
  \/ ToInt
  \/ PrintElement
  \/ Keep

Spec == Init /\ [][Next]_vars

-----------------------------------------------------------------------------
(* What the operations compute, said of the numbers alone                  *)

SignedNumber(u) == IF 2 * u > Q THEN u - Q ELSE u

ShiftedLeft(u, n)  == ((u * Pow2[n]) % Pow2[NBits]) % Q
Shifted(u, left, right) ==
  CASE left < NBits                     -> ShiftedLeft(u, left)
    [] left >= NBits /\ right < NBits   -> u \div Pow2[right]
    [] OTHER                            -> 0

Bool(p) == IF p THEN 1 ELSE 0

(* The numbers that op may give for u and v.                               *)
Meaning(op, u, v) ==
  CASE op = "add"  -> {(u + v) % Q}
    [] op = "sub"  -> {(u - v) % Q}
    [] op = "mul"  -> {(u * v) % Q}
    [] op = "idiv" -> {u \div v}
    [] op = "mod"  -> {u % v}
    [] op = "pow"  -> {PowMod(u, v)}
    [] op = "div"  -> IF v = 0 THEN Residues ELSE {n \in Residues : (n * v) % Q = u}
    [] op = "band" -> {BitByBit(And, u, v) % Q}
    [] op = "bor"  -> {BitByBit(Or, u, v) % Q}
    [] op = "bxor" -> {BitByBit(Xor, u, v) % Q}
    [] op = "shl"  -> {Shifted(u, v, Q - v)}
    [] op = "shr"  -> {IF v < NBits THEN u \div Pow2[v] ELSE Shifted(u, Q - v, NBits)}
    [] op = "eq"   -> {Bool(u = v)}
    [] op = "neq"  -> {Bool(u # v)}
    [] op = "lt"   -> {Bool(SignedNumber(u) < SignedNumber(v))}
    [] op = "gt"   -> {Bool(SignedNumber(u) > SignedNumber(v))}
    [] op = "leq"  -> {Bool(SignedNumber(u) <= SignedNumber(v))}
    [] op = "geq"  -> {Bool(SignedNumber(u) >= SignedNumber(v))}
    [] op = "land" -> {Bool(u # 0 /\ v # 0)}
    [] op = "lor"  -> {Bool(u # 0 \/ v # 0)}
    [] op = "neg"  -> {(-u) % Q}
    [] op = "square" -> {(u * u) % Q}
    [] op = "inv"  -> IF u = 0 THEN Residues ELSE {n \in Residues : (n * u) % Q = 1}
    [] op = "bnot" -> {(Pow2[NBits] - 1 - u) % Q}
    [] op = "lnot" -> {Bool(u = 0)}
    [] op \in {"copy", "toNormal", "toLongNormal", "toMontgomery"} -> {u}

Computed == call # <<>> /\ call[1] \in Arithmetic \cup BitWise \cup Comparisons \cup OneOperand
ResultMeans == Number(r) \in Meaning(call[1], Number(x), Number(y))

(* The operand that the result overwrites is read as it stands: no         *)
(* conversion of it comes after the result's type was written.             *)
ReadAsItStands(op, i) ==
  LET e == IF i = 1 THEN x ELSE y
      o == IF i = 1 THEN y ELSE x
  IN  CASE op = "add"  -> o.type = "longM" => IsMont(e)
        [] op = "sub"  -> /\ o.type = "longM" => IsMont(e)
                          /\ ~(i = 2 /\ e.type = "long" /\ ~IsLong(o) /\ o.shortVal < 0)
        [] op = "bnot" -> e.type = "long"
        [] OTHER       -> \/ e.type = "long"
                          \/ ~IsLong(e) /\ e.shortVal >= 0 /\ (IsLong(o) \/ o.shortVal >= 0)

-----------------------------------------------------------------------------
(* Every element that is ever made is well formed: its long is below the   *)
(* modulus, and the Montgomery image of a short is that short's.           *)
WellFormed(e) ==
  /\ e \in Element
  /\ IsLong(e) => e.longVal < Q
  /\ e.type = "shortM" => (e.shortVal * R) % Q = e.longVal

(* Whatever the forms of the operands, an operation with a result cell of  *)
(* its own leaves a well formed element that is its meaning modulo Q: the  *)
(* paths of fr.asm for short, long and Montgomery operands, their          *)
(* overflows and borrows agree.                                            *)
ResultIsRight == (Computed /\ call[2] = {}) => WellFormed(r) /\ ResultMeans

(* Writing over an operand is right too, if no conversion of that operand  *)
(* comes after the type of the result was written over its own.            *)
InPlaceIsRight ==
  (Computed /\ call[2] # {} /\ \A i \in call[2] : ReadAsItStands(call[1], i)) => ResultMeans

(* An element whose number fits a short in absolute value gives that       *)
(* integer in every form: what a loop counter needs. And what is printed   *)
(* of any element is its number.                                           *)
AnswersAreRight ==
  /\ call = <<"toInt", {}>> /\ SignedNumber(Number(x)) \in Shorts =>
       answer = <<SignedNumber(Number(x))>>
  /\ call = <<"element2str", {}>> => answer = <<Number(x)>>
=============================================================================
