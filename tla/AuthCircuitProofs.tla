-------------------------- MODULE AuthCircuitProofs --------------------------
(***************************************************************************)
(* The constraints of Auth over every prime field, for every hash and for  *)
(* ages of any width: they determine what they are to determine, and the   *)
(* outputs mean what they say.                                             *)
(***************************************************************************)
EXTENDS AuthCircuit, CommonLemmas, FiniteSetTheorems

Bit == {0, 1}

-----------------------------------------------------------------------------
(* The field                                                               *)

LEMMA Powers ==
  /\ Pow2 \in [0 .. N + 2 -> Nat \ {0}] /\ Pow2[0] = 1
  /\ \A n \in 1 .. N + 2 : Pow2[n] = 2 * Pow2[n - 1]
<1> DEFINE step == [p \in (Nat \ {0}) \X (1 .. N + 2) |-> 2 * p[1]]
<1>1. N + 2 \in Nat /\ 1 \in Nat \ {0}
  BY CircuitAssumption
<1>2. step \in StepsOn(N + 2, Nat \ {0})
  BY DEF StepsOn
<1>3. \A x \in Nat \ {0}, n \in 1 .. N + 2 : step[<<x, n>>] = 2 * x
  OBVIOUS
<1> HIDE DEF step
<1>4. PICK f \in [0 .. N + 2 -> Nat \ {0}] : Recursive(f, N + 2, 1, step)
  BY <1>1, <1>2, RecursionExists, Zenon
<1>5. f[0] = 1 /\ \A n \in 1 .. N + 2 : f[n] = 2 * f[n - 1]
  <2>1. f[0] = 1 /\ \A n \in 1 .. N + 2 : f[n] = step[<<f[n - 1], n>>]
    BY <1>4 DEF Recursive
  <2>2. \A n \in 1 .. N + 2 : f[n - 1] \in Nat \ {0}
    BY <1>1, <1>4
  <2> QED
    BY <1>3, <2>1, <2>2
<1>6. f = [n \in 0 .. N + 2 |-> IF n = 0 THEN 1 ELSE 2 * f[n - 1]]
  BY <1>1, <1>4, <1>5
<1>7. Pow2 = [n \in 0 .. N + 2 |-> IF n = 0 THEN 1 ELSE 2 * Pow2[n - 1]]
  BY <1>6 DEF Pow2
<1>8. Pow2[0] = 1 /\ \A n \in 1 .. N + 2 : Pow2[n] = 2 * Pow2[n - 1]
  BY <1>1, <1>7
<1>9. \A n \in 0 .. N + 2 : Pow2[n] \in Nat \ {0}
  <2> DEFINE T == {n \in 0 .. N + 2 : Pow2[n] \in Nat \ {0}}
  <2>1. 0 \in T
    BY <1>1, <1>8
  <2>2. ASSUME NEW n \in 1 .. N + 2, n - 1 \in T PROVE n \in T
    BY <1>8, <2>2
  <2> HIDE DEF T
  <2>3. \A n \in 0 .. N + 2 : n \in T
    BY <1>1, <2>1, <2>2, IntervalInduction
  <2> QED
    BY <2>3 DEF T
<1> QED
  BY <1>7, <1>8, <1>9

LEMMA FieldSize ==
  /\ Q \in Nat \ {0, 1} /\ Q > 8
  /\ N \in Nat \ {0} /\ Pow2[N - 1] \in Nat \ {0} /\ Pow2[N] \in Nat \ {0}
  /\ Pow2[N] = 2 * Pow2[N - 1] /\ Pow2[N + 1] = 2 * Pow2[N] /\ Q > 4 * Pow2[N]
<1>1. N \in Nat \ {0} /\ Q \in Nat /\ Q > Pow2[N + 2]
  BY CircuitAssumption
<1>2. /\ Pow2[N - 1] \in Nat \ {0} /\ Pow2[N] \in Nat \ {0} /\ Pow2[N] = 2 * Pow2[N - 1]
      /\ Pow2[N + 1] = 2 * Pow2[N] /\ Pow2[N + 2] = 2 * Pow2[N + 1]
  BY <1>1, Powers
<1> QED
  BY <1>1, <1>2

LEMMA FieldPrime == \A d \in 2 .. Q - 1 : Q % d # 0
BY CircuitAssumption

LEMMA InField == \A x \in Int : x % Q \in Field
BY FieldSize, DivMod DEF Field

(* Two elements differ by 0 only if they are the same.                     *)
LEMMA Difference ==
  ASSUME NEW a \in Field, NEW b \in Field
  PROVE  (b - a) % Q \in Field /\ ((b - a) % Q = 0 <=> a = b)
<1>1. Q \in Nat /\ Q > 8
  BY FieldSize
<1>2. b - a \in Int /\ b - a > -Q /\ b - a < Q
  BY <1>1 DEF Field
<1>3. CASE b - a >= 0
  BY <1>1, <1>2, <1>3 DEF Field
<1>4. CASE b - a < 0
  BY <1>1, <1>2, <1>4 DEF Field
<1> QED
  BY <1>2, <1>3, <1>4

-----------------------------------------------------------------------------
(* IsZero                                                                  *)

(* The constraints leave one output: 1 for equal elements, 0 for others.   *)
LEMMA EqualityValue ==
  ASSUME NEW a \in Field, NEW b \in Field, NEW o \in RoleEquality(a, b)
  PROVE  o = IF a = b THEN 1 ELSE 0
<1> DEFINE x == (b - a) % Q
<1>1. x \in Field /\ (x = 0 <=> a = b)
  BY Difference
<1>2. PICK inv \in Field : o \in Field /\ o = (1 - x * inv) % Q /\ (x * o) % Q = 0
  BY DEF RoleEquality, IsZero
<1> HIDE DEF x
<1>3. CASE x = 0
  <2>1. 1 - x * inv = 1
    BY <1>3, FieldSize DEF Field
  <2> QED
    BY <1>1, <1>2, <1>3, <2>1, FieldSize
<1>4. CASE x # 0
  <2>1. x = 0 \/ o = 0
    BY <1>1, <1>2, FieldSize, FieldPrime, PrimeProduct DEF Field
  <2> QED
    BY <1>1, <1>4, <2>1
<1> QED
  BY <1>3, <1>4

(* The calculator finds an inverse and computes that output.               *)
LEMMA HintValue ==
  ASSUME NEW a \in Field, NEW b \in Field
  PROVE  RoleEqualityHint(a, b) = IF a = b THEN 1 ELSE 0
<1> DEFINE x == (b - a) % Q
<1>1. x \in Field /\ (x = 0 <=> a = b)
  BY Difference
<1>2. RoleEqualityHint(a, b) = (1 - x * InvHint(x)) % Q
  BY DEF RoleEqualityHint
<1> HIDE DEF x
<1>3. CASE x = 0
  <2>1. 1 - x * InvHint(x) = 1
    BY <1>3 DEF InvHint
  <2> QED
    BY <1>1, <1>2, <1>3, <2>1, FieldSize
<1>4. CASE x # 0
  <2> DEFINE k == InvHint(x)
  <2>1. x \in 1 .. Q - 1
    BY <1>1, <1>4 DEF Field
  <2>2. \E i \in 0 .. Q - 1 : (x * i) % Q = 1
    BY <2>1, FieldSize, FieldPrime, PrimeInverse
  <2>3. k \in Field /\ (x * k) % Q = 1
    BY <1>4, <2>2 DEF InvHint, Field
  <2> HIDE DEF k
  <2> DEFINE y == x * k
             c == y \div Q
  <2>4. y \in Int
    BY <2>1, <2>3, FieldSize DEF Field
  <2>5. y = Q * c + 1 /\ c \in Int
    BY <2>3, <2>4, FieldSize, DivMod
  <2> HIDE DEF c, y
  <2> DEFINE e == -c
  <2>6. 1 - y = Q * e /\ e \in Int
    BY <2>5, FieldSize
  <2> HIDE DEF e
  <2>7. (1 - y) % Q = 0
    BY <2>6, FieldSize, MultipleMod
  <2> QED
    BY <1>1, <1>2, <1>4, <2>7 DEF y, k
<1> QED
  BY <1>3, <1>4

-----------------------------------------------------------------------------
(* Num2Bits and LessThan                                                   *)

(* v * (v - 1) === 0 leaves only bits.                                     *)
LEMMA OnlyBits ==
  ASSUME NEW v \in Field, (v * (v - 1)) % Q = 0
  PROVE  v \in Bit
<1> SUFFICES ASSUME v # 0 PROVE v = 1
  BY DEF Bit
<1>1. v \in 0 .. Q - 1 /\ v - 1 \in 0 .. Q - 1
  BY FieldSize DEF Field
<1>2. v = 0 \/ v - 1 = 0
  BY <1>1, FieldSize, FieldPrime, PrimeProduct
<1> QED
  BY <1>1, <1>2

(* The sums that lc1 goes through.                                         *)
Sums(s, b) == s[0] = b[0] /\ \A n \in 1 .. N : s[n] = s[n - 1] + b[n] * Pow2[n]

LEMMA SumOfBits ==
  ASSUME NEW b \in [0 .. N -> Bit]
  PROVE  \E s \in [0 .. N -> Nat] : Sums(s, b) /\ s[N] = BitSum(b)
<1> DEFINE step == [p \in Nat \X (1 .. N) |-> p[1] + b[p[2]] * Pow2[p[2]]]
           sum == CHOOSE s : s = [n \in 0 .. N |->
                    IF n = 0 THEN b[0] ELSE s[n - 1] + Weight(b[n], n)]
<1>1. N \in Nat /\ N # 0 /\ b[0] \in Nat
  BY FieldSize DEF Bit
<1>2. \A n \in 1 .. N : b[n] * Pow2[n] \in Nat
  <2> TAKE n \in 1 .. N
  <2>1. Pow2[n] \in Nat
    <3>1. n \in 0 .. N + 2
      BY <1>1
    <3> QED
      BY <3>1, Powers
  <2>2. b[n] = 0 \/ b[n] = 1
    BY DEF Bit
  <2> QED
    BY <2>1, <2>2
<1>3. step \in StepsOn(N, Nat)
  BY <1>2 DEF StepsOn
<1>4. \A x \in Nat, n \in 1 .. N : step[<<x, n>>] = x + b[n] * Pow2[n]
  OBVIOUS
<1> HIDE DEF step
<1>5. PICK f \in [0 .. N -> Nat] : Recursive(f, N, b[0], step)
  BY <1>1, <1>3, RecursionExists, Zenon
<1>6. Sums(f, b)
  <2>1. f[0] = b[0] /\ \A n \in 1 .. N : f[n] = step[<<f[n - 1], n>>]
    BY <1>5 DEF Recursive
  <2>2. \A n \in 1 .. N : f[n - 1] \in Nat
    BY <1>1, <1>5
  <2> QED
    BY <1>4, <2>1, <2>2 DEF Sums
<1>7. f = [n \in 0 .. N |-> IF n = 0 THEN b[0] ELSE f[n - 1] + Weight(b[n], n)]
  <2>1. \A n \in 0 .. N : f[n] = IF n = 0 THEN b[0] ELSE f[n - 1] + b[n] * Pow2[n]
    BY <1>1, <1>6 DEF Sums
  <2> QED
    BY <1>5, <2>1 DEF Weight
<1>8. sum = [n \in 0 .. N |-> IF n = 0 THEN b[0] ELSE sum[n - 1] + Weight(b[n], n)]
  BY <1>7
<1>9. BitSum(b) = sum[N]
  BY DEF BitSum
<1> HIDE DEF sum
<1>10. \A n \in 0 .. N : sum[n] = f[n]
  <2> DEFINE T == {n \in 0 .. N : sum[n] = f[n]}
  <2>1. 0 \in T
    BY <1>1, <1>6, <1>8 DEF Sums
  <2>2. ASSUME NEW n \in 1 .. N, n - 1 \in T PROVE n \in T
    <3>1. n \in 0 .. N /\ n # 0
      BY <1>1
    <3>2. sum[n] = sum[n - 1] + b[n] * Pow2[n]
      BY <1>8, <3>1 DEF Weight
    <3>3. f[n] = f[n - 1] + b[n] * Pow2[n]
      BY <1>6 DEF Sums
    <3> QED
      BY <2>2, <3>1, <3>2, <3>3
  <2> HIDE DEF T
  <2>3. \A n \in 0 .. N : n \in T
    BY <1>1, <2>1, <2>2, IntervalInduction
  <2> QED
    BY <2>3 DEF T
<1>11. BitSum(b) = f[N]
  BY <1>1, <1>9, <1>10
<1> QED
  BY <1>6, <1>11

(* n + 1 bits sum to less than the next power.                             *)
LEMMA SumsSmall ==
  ASSUME NEW b \in [0 .. N -> Bit], NEW s \in [0 .. N -> Nat], Sums(s, b)
  PROVE  \A n \in 0 .. N : s[n] < Pow2[n + 1]
<1> DEFINE T == {n \in 0 .. N : s[n] < Pow2[n + 1]}
<1>1. N \in Nat
  BY FieldSize
<1>2. 0 \in T
  <2>1. Pow2[0 + 1] = 2
    BY <1>1, Powers
  <2>2. s[0] = b[0] /\ b[0] \in Bit
    BY <1>1 DEF Sums
  <2> QED
    BY <1>1, <2>1, <2>2 DEF Bit
<1>3. ASSUME NEW n \in 1 .. N, n - 1 \in T PROVE n \in T
  <2>1. n \in 1 .. N + 2 /\ n + 1 \in 1 .. N + 2 /\ (n + 1) - 1 = n /\ (n - 1) + 1 = n
    BY <1>1
  <2>2. Pow2[n + 1] = 2 * Pow2[n] /\ Pow2[n] \in Nat
    BY <2>1, Powers
  <2>3. s[n - 1] < Pow2[n]
    BY <1>3, <2>1
  <2>4. s[n] = s[n - 1] + b[n] * Pow2[n] /\ s[n - 1] \in Nat
    BY <1>1, <2>1 DEF Sums
  <2>5. b[n] = 0 \/ b[n] = 1
    BY <1>1, <2>1 DEF Bit
  <2>6. s[n] < Pow2[n + 1]
    BY <2>2, <2>3, <2>4, <2>5
  <2> QED
    BY <2>1, <2>6, <1>1
<1> HIDE DEF T
<1>4. \A n \in 0 .. N : n \in T
  BY <1>1, <1>2, <1>3, IntervalInduction
<1> QED
  BY <1>4 DEF T

(* What Num2Bits asks of the bits: they sum to the number itself, which is *)
(* below the power, and the last says which half it lies in.               *)
LEMMA BitsOf ==
  ASSUME NEW x \in Field, NEW b \in Num2Bits(x)
  PROVE  /\ x < 2 * Pow2[N]
         /\ b[N] = IF x < Pow2[N] THEN 0 ELSE 1
<1>1. b \in [0 .. N -> Bit] /\ BitSum(b) % Q = x
  BY OnlyBits DEF Num2Bits
<1>2. PICK s \in [0 .. N -> Nat] : Sums(s, b) /\ s[N] = BitSum(b)
  BY <1>1, SumOfBits
<1>3. /\ N - 1 \in 0 .. N /\ N \in 0 .. N /\ N \in 1 .. N /\ (N - 1) + 1 = N
      /\ Pow2[N] \in Nat /\ Pow2[N + 1] = 2 * Pow2[N]
  BY FieldSize
<1>4. s[N] < 2 * Pow2[N] /\ s[N - 1] < Pow2[N]
  BY <1>1, <1>2, <1>3, SumsSmall
<1>5. s[N] = s[N - 1] + b[N] * Pow2[N] /\ s[N] \in Nat /\ s[N - 1] \in Nat
  BY <1>2, <1>3 DEF Sums
<1>6. b[N] = 0 \/ b[N] = 1
  BY <1>1, <1>3 DEF Bit
<1>7. x = s[N]
  <2>1. s[N] < Q
    BY <1>3, <1>4, <1>5, FieldSize, SMTT(30)
  <2>2. s[N] % Q = s[N]
    <3>1. s[N] \in 0 .. Q - 1
      BY <1>5, <2>1, FieldSize
    <3> QED
      BY <3>1, FieldSize, SmallMod
  <2> QED
    BY <1>1, <1>2, <2>2
<1> QED
  BY <1>3, <1>4, <1>5, <1>6, <1>7

(* The bits that the calculator takes: the last, and what they sum to.     *)
LEMMA HintBits ==
  ASSUME NEW x \in Field
  PROVE  BitsHint(x) \in [0 .. N -> Bit]
<1>1. \A n \in 0 .. N : (x \div Pow2[n]) % 2 \in Bit
  <2> TAKE n \in 0 .. N
  <2>1. Pow2[n] \in Nat \ {0} /\ x \in Int
    <3>1. n \in 0 .. N + 2
      BY FieldSize
    <3> QED
      BY <3>1, Powers DEF Field
  <2>2. x \div Pow2[n] \in Int
    BY <2>1, DivMod
  <2> QED
    BY <2>2 DEF Bit
<1> QED
  BY <1>1 DEF BitsHint

LEMMA LastHintBit ==
  ASSUME NEW x \in Field, x < 2 * Pow2[N]
  PROVE  BitsHint(x)[N] = IF x < Pow2[N] THEN 0 ELSE 1
<1> DEFINE r == Pow2[N]
           q == x \div r
<1>1. r \in Nat \ {0} /\ x \in Nat /\ N \in 0 .. N
  BY FieldSize DEF Field
<1>2. BitsHint(x)[N] = q % 2
  BY <1>1 DEF BitsHint
<1> HIDE DEF r
<1>3. x = r * q + (x % r) /\ x % r \in 0 .. r - 1 /\ q \in Int
  BY <1>1, DivMod
<1>4. CASE x < r
  <2>1. x = r * 0 + x /\ x \in 0 .. r - 1
    BY <1>1, <1>4
  <2>2. q = 0
    BY <1>1, <1>3, <2>1, DivisionUnique
  <2> QED
    BY <1>2, <1>4, <2>2 DEF r
<1>5. CASE ~(x < r)
  <2>1. x = r * 1 + (x - r) /\ x - r \in 0 .. r - 1
    BY <1>1, <1>5 DEF r
  <2>2. q = 1
    BY <1>1, <1>3, <2>1, DivisionUnique
  <2> QED
    BY <1>2, <1>5, <2>2 DEF r
<1> QED
  BY <1>4, <1>5

LEMMA HintSum ==
  ASSUME NEW x \in Field, x < 2 * Pow2[N]
  PROVE  BitSum(BitsHint(x)) = x
<1> DEFINE b == BitsHint(x)
<1>1. b \in [0 .. N -> Bit]
  BY HintBits
<1>2. \A n \in 0 .. N : b[n] = (x \div Pow2[n]) % 2
  BY DEF BitsHint
<1>3. N \in Nat /\ x \in Nat
  BY FieldSize DEF Field
<1> HIDE DEF b
<1>4. PICK s \in [0 .. N -> Nat] : Sums(s, b) /\ s[N] = BitSum(b)
  BY <1>1, SumOfBits
<1> DEFINE T == {n \in 0 .. N : s[n] = x % Pow2[n + 1]}
<1>5. 0 \in T
  <2>1. Pow2[0] = 1 /\ Pow2[0 + 1] = 2
    BY <1>3, Powers
  <2>2. b[0] = x % 2
    BY <1>2, <1>3, <2>1
  <2>3. s[0] = x % Pow2[0 + 1]
    BY <1>4, <2>1, <2>2 DEF Sums
  <2> QED
    BY <1>3, <2>3
<1>6. ASSUME NEW n \in 1 .. N, n - 1 \in T PROVE n \in T
  <2> DEFINE r == Pow2[n]
             q == x \div r
             h == q \div 2
  <2>1. n \in 1 .. N + 2 /\ n + 1 \in 1 .. N + 2 /\ (n + 1) - 1 = n /\ (n - 1) + 1 = n /\ n \in 0 .. N
    BY <1>3
  <2>2. Pow2[n + 1] = 2 * r /\ r \in Nat \ {0}
    BY <2>1, Powers
  <2>3. b[n] = q % 2
    BY <1>2, <2>1
  <2>4. s[n - 1] = x % r
    BY <1>6, <2>1
  <2>5. s[n] = s[n - 1] + b[n] * r
    BY <1>4 DEF Sums
  <2> HIDE DEF r
  <2>6. x = r * q + s[n - 1] /\ s[n - 1] \in 0 .. r - 1 /\ q \in Int
    <3>1. x \in Int
      BY <1>3
    <3> QED
      BY <2>2, <2>4, <3>1, DivMod
  <2> HIDE DEF q
  <2>7. q = 2 * h + b[n] /\ b[n] \in 0 .. 1 /\ h \in Int
    BY <2>3, <2>6
  <2> HIDE DEF h
  <2>8. x = (2 * r) * h + s[n] /\ s[n] \in 0 .. (2 * r) - 1
    <3>1. CASE b[n] = 0
      BY <2>2, <2>5, <2>6, <2>7, <3>1
    <3>2. CASE b[n] = 1
      BY <2>2, <2>5, <2>6, <2>7, <3>2
    <3> QED
      BY <2>7, <3>1, <3>2
  <2> DEFINE r2 == 2 * r
             m == x % r2
             k == x \div r2
  <2>9. r2 \in Nat \ {0}
    BY <2>2
  <2> HIDE DEF r2
  <2>10. x = r2 * k + m /\ m \in 0 .. r2 - 1 /\ k \in Int
    <3>1. x \in Int
      BY <1>3
    <3> QED
      BY <2>9, <3>1, DivMod
  <2> HIDE DEF m, k
  <2>11. x = r2 * h + s[n] /\ s[n] \in 0 .. r2 - 1
    BY <2>8 DEF r2
  <2>12. s[n] = m
    BY <2>7, <2>9, <2>10, <2>11, DivisionUnique
  <2> QED
    BY <2>1, <2>2, <2>12 DEF m, r2
<1> HIDE DEF T
<1>7. N \in T
  <2>1. \A n \in 0 .. N : n \in T
    BY <1>3, <1>5, <1>6, IntervalInduction
  <2> QED
    BY <1>3, <2>1
<1>8. s[N] = x % Pow2[N + 1]
  BY <1>7 DEF T
<1>9. x % Pow2[N + 1] = x
  <2> DEFINE r == Pow2[N + 1]
  <2>1. r \in Nat \ {0} /\ x < r
    BY FieldSize, SMTT(30)
  <2> HIDE DEF r
  <2>2. x \in 0 .. r - 1
    BY <1>3, <2>1
  <2> QED
    BY <2>1, <2>2, SmallMod DEF r
<1> QED
  BY <1>4, <1>8, <1>9 DEF b

(* What Num2Bits is asked for is 2^N - 1 - e, where e is the signed        *)
(* difference of the ages, unless that is not in the range of N + 1 bits.  *)
LEMMA AgeDifference ==
  ASSUME NEW a \in Field, NEW m \in Field
  PROVE  LET e == Signed((a - m) % Q)
             d == (((m - 1) % Q) + Pow2[N] - a) % Q
         IN  /\ d \in Field /\ e \in Int
             /\ e \in -Pow2[N] .. Pow2[N] - 1 <=> d < 2 * Pow2[N]
             /\ d < 2 * Pow2[N] => d = Pow2[N] - 1 - e
             /\ e = a - m \/ e = a - m + Q \/ e = a - m - Q
<1> DEFINE P == Pow2[N]
           f == (a - m) % Q
           e == Signed(f)
           below == (m - 1) % Q
           z == below + P - a
           d == z % Q
<1>1. Q \in Nat \ {0} /\ Q > 8 /\ P \in Nat \ {0} /\ Q > 4 * P /\ a \in 0 .. Q - 1 /\ m \in 0 .. Q - 1
  BY FieldSize DEF Field
<1> HIDE DEF P
<1>2. (f = a - m \/ f = a - m + Q \/ f = a - m - Q) /\ f \in 0 .. Q - 1
  <2>1. a - m \in Int /\ -Q <= a - m /\ a - m < 2 * Q
    BY <1>1
  <2> QED
    BY <1>1, <2>1, ModCases
<1>3. (below = m - 1 \/ below = m - 1 + Q) /\ below \in 0 .. Q - 1
  <2>1. m - 1 \in Int /\ -Q <= m - 1 /\ m - 1 < 2 * Q
    BY <1>1
  <2>2. (below = m - 1 \/ below = m - 1 + Q \/ below = m - 1 - Q) /\ below \in 0 .. Q - 1
    BY <1>1, <2>1, ModCases
  <2> QED
    BY <1>1, <2>2
<1> HIDE DEF f, below
<1>4. (d = z \/ d = z + Q \/ d = z - Q) /\ d \in 0 .. Q - 1
  <2>1. z \in Int /\ -Q <= z /\ z < 2 * Q
    BY <1>1, <1>3
  <2> HIDE DEF z
  <2> QED
    BY <1>1, <2>1, ModCases
<1> HIDE DEF d
<1>5. e \in Int /\ (e = f \/ e = f - Q) /\ 2 * e >= -Q /\ 2 * e <= Q
  BY <1>1, <1>2 DEF Signed
<1> HIDE DEF e
<1>6. \/ d = P - 1 - e \/ d = P - 1 - e + Q \/ d = P - 1 - e - Q
      \/ d = P - 1 - e + 2 * Q \/ d = P - 1 - e - 2 * Q
      \/ d = P - 1 - e + 3 * Q \/ d = P - 1 - e - 3 * Q
  BY <1>1, <1>2, <1>3, <1>4, <1>5
<1>7. e \in -P .. P - 1 => d = P - 1 - e
  BY <1>1, <1>4, <1>5, <1>6
<1>8. d < 2 * P => d = P - 1 - e
  BY <1>1, <1>4, <1>5, <1>6
<1>9. e \in -P .. P - 1 <=> d < 2 * P
  BY <1>1, <1>4, <1>5, <1>7, <1>8
<1>10. e = a - m \/ e = a - m + Q \/ e = a - m - Q
  BY <1>1, <1>2, <1>5
<1> QED
  BY <1>4, <1>5, <1>8, <1>9, <1>10 DEF Field, P, d, z, below, e, f

-----------------------------------------------------------------------------
(* What the steps bind                                                     *)

First(k) == {Components[n] : n \in 1 .. k}

(* The number that ageCheck takes apart.                                   *)
AgeNumber == (AgeBelow + Pow2[N] - in.age) % Q

(* The components are bound in the order of the source, to values that     *)
(* satisfy the constraints; the outputs come last.                         *)
InOrder == \E k \in 0 .. 8 : DOMAIN bound = First(k)
Satisfied ==
  \A c \in DOMAIN bound :
    bound[c] \in IF c = "ageCheck" THEN LessThan(AgeBelow, in.age)
                 ELSE RoleEquality(Equalities[c][1], Equalities[c][2])
Ended ==
  /\ status = "bound" => DOMAIN bound = First(8) /\ out = Outputs(bound)
  /\ status = "refused" => BitSum(BitsHint(AgeNumber)) % Q # AgeNumber
  /\ status # "bound" => out = << >>

CircuitInv ==
  /\ in \in Inputs /\ status \in {"binding", "refused", "bound"}
  /\ InOrder /\ Satisfied /\ Ended

LEMMA EightComponents ==
  /\ Len(Components) = 8
  /\ \A k \in 0 .. 8 : IsFiniteSet(First(k)) /\ Cardinality(First(k)) = k
  /\ \A k \in 0 .. 7 : First(k + 1) = First(k) \cup {Components[k + 1]}
  /\ First(8) = {"checkDoctor", "checkExpert", "checkPatient", "checkLicense", "ageCheck",
                 "checkSpecialty", "checkRoleHash", "checkPwdHash"}
<1>1. Len(Components) = 8
  BY DEF Components
<1>2. \A k \in 0 .. 7 : First(k + 1) = First(k) \cup {Components[k + 1]}
  <2> TAKE k \in 0 .. 7
  <2>1. 1 .. k + 1 = (1 .. k) \cup {k + 1}
    OBVIOUS
  <2> QED
    BY <2>1 DEF First
<1>3. \A n \in 1 .. 8, m \in 1 .. 8 : Components[n] = Components[m] => n = m
  BY DEF Components
<1>4. \A k \in 0 .. 7 : Components[k + 1] \notin First(k)
  <2> SUFFICES ASSUME NEW k \in 0 .. 7, Components[k + 1] \in First(k) PROVE FALSE
    OBVIOUS
  <2>1. PICK n \in 1 .. k : Components[k + 1] = Components[n]
    BY DEF First
  <2>2. k + 1 \in 1 .. 8 /\ n \in 1 .. 8 /\ n # k + 1
    OBVIOUS
  <2> QED
    BY <1>3, <2>1, <2>2
<1> DEFINE T == {k \in 0 .. 8 : IsFiniteSet(First(k)) /\ Cardinality(First(k)) = k}
<1>5. 0 \in T
  <2>1. First(0) = {}
    BY DEF First
  <2> QED
    BY <2>1, FS_EmptySet
<1>6. ASSUME NEW n \in 1 .. 8, n - 1 \in T PROVE n \in T
  <2>1. n - 1 \in 0 .. 7 /\ (n - 1) + 1 = n
    OBVIOUS
  <2>2. First(n) = First(n - 1) \cup {Components[n]} /\ Components[n] \notin First(n - 1)
    BY <1>2, <1>4, <2>1
  <2>3. IsFiniteSet(First(n - 1)) /\ Cardinality(First(n - 1)) = n - 1
    BY <1>6
  <2>4. IsFiniteSet(First(n)) /\ Cardinality(First(n)) = (n - 1) + 1
    BY <2>2, <2>3, FS_AddElement
  <2> QED
    BY <2>1, <2>4
<1>7. \A k \in 0 .. 8 : IsFiniteSet(First(k)) /\ Cardinality(First(k)) = k
  <2> HIDE DEF T
  <2>1. 8 \in Nat
    OBVIOUS
  <2>2. \A k \in 0 .. 8 : k \in T
    BY <1>5, <1>6, <2>1, IntervalInduction
  <2> QED
    BY <2>2 DEF T
<1>8. First(8) = {"checkDoctor", "checkExpert", "checkPatient", "checkLicense", "ageCheck",
                  "checkSpecialty", "checkRoleHash", "checkPwdHash"}
  <2>1. 1 .. 8 = {1, 2, 3, 4, 5, 6, 7, 8}
    OBVIOUS
  <2>2. First(8) = {Components[1], Components[2], Components[3], Components[4],
                    Components[5], Components[6], Components[7], Components[8]}
    BY <2>1 DEF First
  <2> QED
    BY <2>2 DEF Components
<1> QED
  BY <1>1, <1>2, <1>7, <1>8

(* A component is bound when the ones before it are.                       *)
LEMMA NextInOrder ==
  ASSUME InOrder
  PROVE  /\ Cardinality(DOMAIN bound) < Len(Components) =>
              /\ \E k \in 0 .. 8 : DOMAIN bound \cup {NextComponent} = First(k)
              /\ NextComponent \in First(8)
         /\ Cardinality(DOMAIN bound) = Len(Components) => DOMAIN bound = First(8)
<1>1. PICK k \in 0 .. 8 : DOMAIN bound = First(k)
  BY DEF InOrder
<1>2. Cardinality(DOMAIN bound) = k /\ Len(Components) = 8
  BY <1>1, EightComponents
<1>3. ASSUME k < 8
      PROVE  DOMAIN bound \cup {NextComponent} = First(k + 1) /\ k + 1 \in 0 .. 8 /\ NextComponent \in First(8)
  <2>1. k \in 0 .. 7 /\ k + 1 \in 1 .. 8 /\ NextComponent = Components[k + 1]
    BY <1>2, <1>3 DEF NextComponent
  <2> QED
    BY <1>1, <2>1, EightComponents DEF First
<1> QED
  BY <1>1, <1>2, <1>3

LEMMA CircuitInit == Init => CircuitInv
<1> SUFFICES ASSUME Init PROVE CircuitInv
  OBVIOUS
<1>1. DOMAIN bound = {} /\ 0 \in 0 .. 8 /\ First(0) = {}
  BY DEF Init, First
<1> QED
  BY <1>1 DEF Init, CircuitInv, InOrder, Satisfied, Ended

LEMMA CircuitStep == CircuitInv /\ [Next]_vars => CircuitInv'
<1> SUFFICES ASSUME CircuitInv, [Next]_vars PROVE CircuitInv'
  OBVIOUS
<1> USE DEF CircuitInv
<1>1. CASE CheckEquality
  <2>1. PICK v \in RoleEquality(Equalities[NextComponent][1], Equalities[NextComponent][2]) :
          Bind(NextComponent, v)
    BY <1>1 DEF CheckEquality
  <2>2. /\ status = "binding" /\ Cardinality(DOMAIN bound) < Len(Components) /\ NextComponent # "ageCheck"
        /\ UNCHANGED <<in, out, status>>
    BY <1>1 DEF CheckEquality
  <2>3. /\ DOMAIN bound' = DOMAIN bound \cup {NextComponent}
        /\ \A c \in DOMAIN bound' : bound'[c] = IF c = NextComponent THEN v ELSE bound[c]
    BY <2>1 DEF Bind
  <2>4. InOrder'
    BY <2>2, <2>3, NextInOrder DEF InOrder
  <2>5. \A c : Equalities[c]' = Equalities[c]
    BY <2>2 DEF Equalities
  <2>6. Satisfied'
    BY <2>1, <2>2, <2>3, <2>5 DEF Satisfied, AgeBelow
  <2>7. Ended'
    BY <2>2 DEF Ended
  <2> QED
    BY <2>2, <2>4, <2>6, <2>7
<1>2. CASE CheckAge
  <2>1. PICK v \in LessThan(AgeBelow, in.age) : Bind("ageCheck", v)
    BY <1>2 DEF CheckAge
  <2>2. /\ status = "binding" /\ Cardinality(DOMAIN bound) < Len(Components) /\ NextComponent = "ageCheck"
        /\ UNCHANGED <<in, out, status>>
    BY <1>2 DEF CheckAge
  <2>3. /\ DOMAIN bound' = DOMAIN bound \cup {NextComponent}
        /\ \A c \in DOMAIN bound' : bound'[c] = IF c = "ageCheck" THEN v ELSE bound[c]
    BY <2>1, <2>2 DEF Bind
  <2>4. InOrder'
    BY <2>2, <2>3, NextInOrder DEF InOrder
  <2>5. \A c : Equalities[c]' = Equalities[c]
    BY <2>2 DEF Equalities
  <2>6. Satisfied'
    BY <2>1, <2>2, <2>3, <2>5 DEF Satisfied, AgeBelow
  <2>7. Ended'
    BY <2>2 DEF Ended
  <2> QED
    BY <2>2, <2>4, <2>6, <2>7
<1>3. CASE RefuseAge
  <2>1. UNCHANGED <<in, bound, out>> /\ status = "binding" /\ status' = "refused"
    BY <1>3 DEF RefuseAge
  <2>2. BitSum(BitsHint(AgeNumber)) % Q # AgeNumber
    BY <1>3 DEF RefuseAge, AgeNumber
  <2>3. AgeNumber' = AgeNumber
    BY <2>1 DEF AgeNumber, AgeBelow
  <2>4. Ended'
    BY <2>1, <2>2, <2>3 DEF Ended, BitSum, BitsHint
  <2>5. InOrder' /\ Satisfied'
    BY <2>1 DEF InOrder, Satisfied, AgeBelow, Equalities
  <2> QED
    BY <2>1, <2>4, <2>5
<1>4. CASE BindOutputs
  <2>1. /\ UNCHANGED <<in, bound>> /\ status = "binding" /\ status' = "bound" /\ out' = Outputs(bound)
        /\ Cardinality(DOMAIN bound) = Len(Components)
    BY <1>4 DEF BindOutputs
  <2>2. Ended'
    BY <2>1, NextInOrder DEF Ended, Outputs
  <2>3. InOrder' /\ Satisfied'
    BY <2>1 DEF InOrder, Satisfied, AgeBelow, Equalities
  <2> QED
    BY <2>1, <2>2, <2>3
<1>5. CASE UNCHANGED vars
  <2>1. UNCHANGED <<in, bound, out, status>>
    BY <1>5 DEF vars
  <2>2. AgeNumber' = AgeNumber
    BY <2>1 DEF AgeNumber, AgeBelow
  <2>3. Ended'
    BY <2>1, <2>2 DEF Ended, BitSum, BitsHint, Outputs
  <2>4. InOrder' /\ Satisfied'
    BY <2>1 DEF InOrder, Satisfied, AgeBelow, Equalities
  <2> QED
    BY <2>1, <2>3, <2>4
<1> QED
  BY <1>1, <1>2, <1>3, <1>4, <1>5 DEF Next

LEMMA CircuitInvariant == Spec => []CircuitInv
BY CircuitInit, CircuitStep, PTL DEF Spec

-----------------------------------------------------------------------------
(* What the constraints amount to                                          *)

LEMMA InputElements ==
  ASSUME in \in Inputs
  PROVE  /\ in \in InputType /\ in.age \in Field /\ in.requiredMinAge \in Field
         /\ in.role \in Field /\ AgeBelow \in Field /\ AgeNumber \in Field
         /\ {ROLE_PATIENT, ROLE_DOCTOR, ROLE_EXPERT} \subseteq Field
<1>1. in \in InputType
  BY CircuitAssumption
<1>2. in.age \in Field /\ in.requiredMinAge \in Field /\ in.role \in Field
  BY <1>1 DEF InputType
<1>3. \A x \in Field : x \in Int
  BY DEF Field
<1>4. AgeBelow \in Field
  BY <1>2, <1>3, InField DEF AgeBelow
<1>5. AgeNumber \in Field
  <2>1. AgeBelow + Pow2[N] - in.age \in Int
    BY <1>2, <1>3, <1>4, FieldSize
  <2> QED
    BY <2>1, InField DEF AgeNumber
<1>6. {ROLE_PATIENT, ROLE_DOCTOR, ROLE_EXPERT} \subseteq Field
  BY FieldSize DEF ROLE_PATIENT, ROLE_DOCTOR, ROLE_EXPERT, Field
<1> QED
  BY <1>1, <1>2, <1>4, <1>5, <1>6

LEMMA Operands ==
  ASSUME in \in Inputs, NEW c \in First(8), c # "ageCheck"
  PROVE  Equalities[c][1] \in Field /\ Equalities[c][2] \in Field
<1>1. in \in InputType
  BY CircuitAssumption
<1>2. /\ in.role \in Field /\ in.secretLicense \in Field /\ in.password \in Field
      /\ in.storedLicenseHash \in Field /\ in.storedRoleHash \in Field /\ in.storedPwdHash \in Field
      /\ in.expertSpecialty \in Field /\ in.requiredSpecialty \in Field
  BY <1>1 DEF InputType
<1>3. \A x \in Field : Poseidon[x] \in Field
  BY CircuitAssumption
<1>4. ROLE_PATIENT \in Field /\ ROLE_DOCTOR \in Field /\ ROLE_EXPERT \in Field
  BY InputElements
<1>5. c \in {"checkDoctor", "checkExpert", "checkPatient", "checkLicense",
             "checkSpecialty", "checkRoleHash", "checkPwdHash"}
  BY EightComponents
<1> QED
  BY <1>2, <1>3, <1>4, <1>5 DEF Equalities

(* The output of ageCheck is 1 if the number it takes apart is in the      *)
(* lower half of the range of N + 1 bits, and 0 in the upper half.         *)
LEMMA AgeValue ==
  ASSUME in \in Inputs, NEW v \in LessThan(AgeBelow, in.age)
  PROVE  /\ AgeNumber < 2 * Pow2[N]
         /\ v = IF AgeNumber < Pow2[N] THEN 1 ELSE 0
         /\ v = (1 - BitsHint(AgeNumber)[N]) % Q
<1>1. AgeNumber \in Field
  BY InputElements
<1>2. PICK b \in Num2Bits(AgeNumber) : v = (1 - b[N]) % Q
  BY DEF LessThan, AgeNumber
<1>3. AgeNumber < 2 * Pow2[N] /\ b[N] = IF AgeNumber < Pow2[N] THEN 0 ELSE 1
  BY <1>1, BitsOf
<1>4. BitsHint(AgeNumber)[N] = b[N]
  BY <1>1, <1>3, LastHintBit
<1>5. 1 % Q = 1 /\ 0 % Q = 0
  BY FieldSize
<1> QED
  BY <1>2, <1>3, <1>4, <1>5

LEMMA Values ==
  ASSUME CircuitInv, NEW c \in DOMAIN bound
  PROVE  /\ c \in First(8)
         /\ c = "ageCheck" => bound[c] \in LessThan(AgeBelow, in.age)
         /\ c # "ageCheck" => bound[c] = IF Equalities[c][1] = Equalities[c][2] THEN 1 ELSE 0
         /\ c # "ageCheck" => bound[c] = RoleEqualityHint(Equalities[c][1], Equalities[c][2])
<1>1. c \in First(8)
  BY DEF CircuitInv, InOrder, First
<1>2. CASE c = "ageCheck"
  BY <1>1, <1>2 DEF CircuitInv, Satisfied
<1>3. CASE c # "ageCheck"
  <2> DEFINE a == Equalities[c][1]
             b == Equalities[c][2]
  <2>1. bound[c] \in RoleEquality(a, b)
    BY <1>3 DEF CircuitInv, Satisfied
  <2>2. a \in Field /\ b \in Field
    BY <1>1, <1>3, Operands DEF CircuitInv
  <2> HIDE DEF a, b
  <2>3. bound[c] = IF a = b THEN 1 ELSE 0
    BY <2>1, <2>2, EqualityValue
  <2>4. bound[c] = RoleEqualityHint(a, b)
    BY <2>2, <2>3, HintValue
  <2> QED
    BY <1>1, <1>3, <2>3, <2>4 DEF a, b
<1> QED
  BY <1>2, <1>3

LEMMA OnlyOneWitness == CircuitInv => OneWitness
<1> SUFFICES ASSUME CircuitInv, NEW c \in DOMAIN bound
             PROVE  bound[c] = IF c = "ageCheck" THEN (1 - BitsHint(AgeNumber)[N]) % Q
                               ELSE RoleEqualityHint(Equalities[c][1], Equalities[c][2])
  BY DEF OneWitness, AgeNumber
<1>1. CASE c = "ageCheck"
  <2>1. bound[c] \in LessThan(AgeBelow, in.age) /\ in \in Inputs
    BY <1>1, Values DEF CircuitInv
  <2> QED
    BY <1>1, <2>1, AgeValue
<1>2. CASE c # "ageCheck"
  BY <1>2, Values
<1> QED
  BY <1>1, <1>2

LEMMA OnlyUnprovable == CircuitInv => RefusesOnlyTheUnprovable
<1> SUFFICES ASSUME CircuitInv PROVE RefusesOnlyTheUnprovable
  OBVIOUS
<1> DEFINE e == Signed((in.age - in.requiredMinAge) % Q)
           close == e \in -Pow2[N] .. Pow2[N] - 1
<1>1. in \in Inputs /\ AgeNumber \in Field
  BY InputElements DEF CircuitInv
<1>2. close <=> AgeNumber < 2 * Pow2[N]
  BY <1>1, InputElements, AgeDifference DEF AgeNumber, AgeBelow
<1> HIDE DEF close
<1>3. ASSUME status = "refused" PROVE ~close /\ Num2Bits(AgeNumber) = {}
  <2>1. BitSum(BitsHint(AgeNumber)) % Q # AgeNumber
    BY <1>3 DEF CircuitInv, Ended
  <2>2. ~(AgeNumber < 2 * Pow2[N])
    <3> SUFFICES ASSUME AgeNumber < 2 * Pow2[N] PROVE FALSE
      OBVIOUS
    <3>1. BitSum(BitsHint(AgeNumber)) = AgeNumber
      BY <1>1, HintSum
    <3>2. AgeNumber % Q = AgeNumber
      BY <1>1, FieldSize, SmallMod DEF Field
    <3> QED
      BY <2>1, <3>1, <3>2
  <2>3. Num2Bits(AgeNumber) = {}
    BY <1>1, <2>2, BitsOf
  <2> QED
    BY <1>2, <2>2, <2>3
<1>4. ASSUME "ageCheck" \in DOMAIN bound PROVE close
  <2>1. bound["ageCheck"] \in LessThan(AgeBelow, in.age)
    BY <1>4, Values
  <2> QED
    BY <1>1, <1>2, <2>1, AgeValue
<1> QED
  BY <1>3, <1>4 DEF RefusesOnlyTheUnprovable, AgeNumber, close

-----------------------------------------------------------------------------
(* The outputs                                                             *)

LEMMA BitProduct ==
  ASSUME NEW a \in Bit, NEW b \in Bit
  PROVE  /\ (a * b) % Q = IF a = 1 /\ b = 1 THEN 1 ELSE 0
         /\ (a * b) % Q \in Bit
         /\ (1 - a + ((a * b) % Q)) % Q = IF a = 1 /\ b = 0 THEN 0 ELSE 1
         /\ (1 - a + ((a * b) % Q)) % Q \in Bit
<1>1. 1 % Q = 1 /\ 0 % Q = 0
  BY FieldSize
<1>2. (a * b) % Q = IF a = 1 /\ b = 1 THEN 1 ELSE 0
  <2>1. CASE a = 0
    BY <1>1, <2>1 DEF Bit
  <2>2. CASE a = 1
    BY <1>1, <2>2 DEF Bit
  <2> QED
    BY <2>1, <2>2 DEF Bit
<1>3. (1 - a + ((a * b) % Q)) % Q = IF a = 1 /\ b = 0 THEN 0 ELSE 1
  <2> DEFINE l == (a * b) % Q
  <2>1. l = IF a = 1 /\ b = 1 THEN 1 ELSE 0
    BY <1>2
  <2> HIDE DEF l
  <2>2. 1 - a + l = IF a = 1 /\ b = 0 THEN 0 ELSE 1
    BY <2>1 DEF Bit
  <2>3. (1 - a + l) % Q = IF a = 1 /\ b = 0 THEN 0 ELSE 1
    BY <1>1, <2>2
  <2> QED
    BY <2>3 DEF l
<1> QED
  BY <1>2, <1>3 DEF Bit

(* What each component found, once all are bound.                          *)
LEMMA Found ==
  ASSUME CircuitInv, status = "bound"
  PROVE  /\ bound.checkDoctor = IF in.role = ROLE_DOCTOR THEN 1 ELSE 0
         /\ bound.checkPatient = IF in.role = ROLE_PATIENT THEN 1 ELSE 0
         /\ bound.checkLicense = IF Poseidon[in.secretLicense] = in.storedLicenseHash THEN 1 ELSE 0
         /\ bound.checkSpecialty = IF in.expertSpecialty = in.requiredSpecialty THEN 1 ELSE 0
         /\ bound.checkRoleHash = IF Poseidon[in.role] = in.storedRoleHash THEN 1 ELSE 0
         /\ bound.checkPwdHash = IF Poseidon[in.password] = in.storedPwdHash THEN 1 ELSE 0
         /\ AgeNumber < 2 * Pow2[N]
         /\ bound.ageCheck = IF AgeNumber < Pow2[N] THEN 1 ELSE 0
         /\ out = Outputs(bound)
<1>1. DOMAIN bound = First(8) /\ out = Outputs(bound) /\ in \in Inputs
  BY DEF CircuitInv, Ended
<1>2. \A c \in {"checkDoctor", "checkPatient", "checkLicense", "checkSpecialty", "checkRoleHash", "checkPwdHash"} :
        bound[c] = IF Equalities[c][1] = Equalities[c][2] THEN 1 ELSE 0
  BY <1>1, EightComponents, Values
<1>3. bound["ageCheck"] \in LessThan(AgeBelow, in.age)
  BY <1>1, EightComponents, Values
<1>4. AgeNumber < 2 * Pow2[N] /\ bound["ageCheck"] = IF AgeNumber < Pow2[N] THEN 1 ELSE 0
  BY <1>1, <1>3, AgeValue
<1> QED
  BY <1>1, <1>2, <1>4 DEF Equalities

LEMMA OutputsAreMeant == CircuitInv => OutputsMean
<1> SUFFICES ASSUME CircuitInv, status = "bound" PROVE OutputsMean
  BY DEF OutputsMean, AuthenticatedMeans, RequestMeans, AdultMeans
<1> DEFINE doctor == bound.checkDoctor
           patient == bound.checkPatient
           license == bound.checkLicense
           specialty == bound.checkSpecialty
           role == bound.checkRoleHash
           pwd == bound.checkPwdHash
           age == bound.ageCheck
           isLicensed == (doctor * license) % Q
           rolePwdValid == (role * pwd) % Q
           doctorCheck == (1 - doctor + isLicensed) % Q
<1>1. /\ doctor \in Bit /\ patient \in Bit /\ license \in Bit /\ specialty \in Bit
      /\ role \in Bit /\ pwd \in Bit /\ age \in Bit
  BY Found DEF Bit
<1>2. /\ out.isAuthenticated = (rolePwdValid * doctorCheck) % Q
      /\ out.canRequestExpert = (isLicensed * specialty) % Q
      /\ out.isAdultPatient = (patient * age) % Q
  BY Found DEF Outputs
<1> HIDE DEF doctor, patient, license, specialty, role, pwd, age
<1>3. /\ isLicensed \in Bit /\ (isLicensed = 1 <=> doctor = 1 /\ license = 1)
      /\ doctorCheck \in Bit /\ (doctorCheck = 1 <=> ~(doctor = 1 /\ license = 0))
      /\ rolePwdValid \in Bit /\ (rolePwdValid = 1 <=> role = 1 /\ pwd = 1)
  BY <1>1, BitProduct DEF Bit
<1> HIDE DEF isLicensed, rolePwdValid, doctorCheck
<1>4. AuthenticatedMeans
  <2>1. out.isAuthenticated = IF rolePwdValid = 1 /\ doctorCheck = 1 THEN 1 ELSE 0
    BY <1>2, <1>3, BitProduct
  <2> QED
    BY <1>3, <2>1, Found DEF AuthenticatedMeans, doctor, license, role, pwd
<1>5. RequestMeans
  <2>1. out.canRequestExpert = IF isLicensed = 1 /\ specialty = 1 THEN 1 ELSE 0
    BY <1>1, <1>2, <1>3, BitProduct
  <2> QED
    BY <1>3, <2>1, Found DEF RequestMeans, doctor, license, specialty
<1>6. AdultMeans
  <2> SUFFICES ASSUME Signed(in.age) \in Age, Signed(in.requiredMinAge) \in Age
               PROVE  patient = 1 /\ age = 1 <=>
                        in.role = ROLE_PATIENT /\ Signed(in.age) >= Signed(in.requiredMinAge)
    <3>1. out.isAdultPatient = IF patient = 1 /\ age = 1 THEN 1 ELSE 0
      BY <1>1, <1>2, BitProduct
    <3> QED
      BY <3>1 DEF AdultMeans
  <2> DEFINE e == Signed((in.age - in.requiredMinAge) % Q)
             P == Pow2[N]
             H == Pow2[N - 1]
             a == in.age
             m == in.requiredMinAge
             sa == Signed(a)
             sm == Signed(m)
  <2>1. /\ in \in Inputs /\ a \in Field /\ m \in Field
    BY InputElements DEF CircuitInv
  <2>2. AgeNumber < 2 * P /\ (age = 1 <=> AgeNumber < P) /\ (patient = 1 <=> in.role = ROLE_PATIENT)
    BY Found DEF age, patient
  <2>3. /\ e \in Int /\ AgeNumber = P - 1 - e /\ e \in -P .. P - 1
        /\ e = a - m \/ e = a - m + Q \/ e = a - m - Q
    BY <2>1, <2>2, AgeDifference DEF AgeNumber, AgeBelow
  <2>4. /\ P \in Nat \ {0} /\ P = 2 * H /\ H \in Nat \ {0} /\ Q \in Nat /\ Q > 4 * P
        /\ a \in Int /\ m \in Int
    BY <2>1, FieldSize DEF Field
  <2>5. (sa = a \/ sa = a - Q) /\ (sm = m \/ sm = m - Q) /\ sa \in -H .. P - 1 /\ sm \in -H .. P - 1
    BY DEF Signed, Age
  <2> HIDE DEF e, P, H, a, m, sa, sm
  <2>6. age = 1 <=> e >= 0
    BY <2>2, <2>3, <2>4
  <2>7. sa - sm = e
    BY <2>3, <2>4, <2>5
  <2>8. e >= 0 <=> sa >= sm
    BY <2>3, <2>4, <2>5, <2>7
  <2> QED
    BY <2>2, <2>6, <2>8 DEF sa, sm, a, m
<1> QED
  BY <1>4, <1>5, <1>6 DEF OutputsMean

-----------------------------------------------------------------------------
(* Whatever satisfies the constraints of auth.circom is what the witness   *)
(* calculators compute, for every prime field and every width of ages.     *)
THEOREM Determined == Spec => []OneWitness
BY CircuitInvariant, OnlyOneWitness, PTL

(* A calculator that stops at the === of Num2Bits stops because there is   *)
(* no witness: exactly when the ages are too far apart.                    *)
THEOREM Refused == Spec => []RefusesOnlyTheUnprovable
BY CircuitInvariant, OnlyUnprovable, PTL

(* isAuthenticated, canRequestExpert and isAdultPatient are 1 exactly for  *)
(* inputs that are what their names say, and 0 for all others.             *)
THEOREM Meant == Spec => []OutputsMean
BY CircuitInvariant, OutputsAreMeant, PTL
=============================================================================
