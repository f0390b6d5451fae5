-------------------------- MODULE FieldCallsProofs ---------------------------
(***************************************************************************)
(* Field arithmetic over every odd prime, for any number and width of      *)
(* words: in every form of the operands, an operation is its meaning       *)
(* modulo Q.                                                               *)
(***************************************************************************)
EXTENDS FieldCalls, CommonLemmas

Top == WordBits * Words

-----------------------------------------------------------------------------
(* Powers of two, and the sizes of the field.                              *)

LEMMA Powers ==
  /\ Top \in Nat /\ Pow2 \in [0 .. Top -> Nat \ {0}] /\ Pow2[0] = 1
  /\ \A n \in 1 .. Top : Pow2[n] = 2 * Pow2[n - 1]
<1> DEFINE step == [p \in (Nat \ {0}) \X (1 .. Top) |-> 2 * p[1]]
<1>1. Top \in Nat /\ 1 \in Nat \ {0}
  BY FieldAssumption DEF Top
<1>2. step \in StepsOn(Top, Nat \ {0})
  BY DEF StepsOn
<1>3. \A u \in Nat \ {0}, n \in 1 .. Top : step[<<u, n>>] = 2 * u
  OBVIOUS
<1> HIDE DEF step
<1>4. PICK f \in [0 .. Top -> Nat \ {0}] : Recursive(f, Top, 1, step)
  BY <1>1, <1>2, RecursionExists, Zenon
<1>5. f[0] = 1 /\ \A n \in 1 .. Top : f[n] = 2 * f[n - 1]
  <2>1. f[0] = 1 /\ \A n \in 1 .. Top : f[n] = step[<<f[n - 1], n>>]
    BY <1>4 DEF Recursive
  <2>2. \A n \in 1 .. Top : f[n - 1] \in Nat \ {0}
    BY <1>1, <1>4
  <2> QED
    BY <1>3, <2>1, <2>2
<1>6. f = [n \in 0 .. Top |-> IF n = 0 THEN 1 ELSE 2 * f[n - 1]]
  BY <1>1, <1>4, <1>5
<1>7. Pow2 = [n \in 0 .. Top |-> IF n = 0 THEN 1 ELSE 2 * Pow2[n - 1]]
  BY <1>6 DEF Pow2, Top
<1>8. Pow2[0] = 1 /\ \A n \in 1 .. Top : Pow2[n] = 2 * Pow2[n - 1]
  BY <1>1, <1>7
<1>9. \A n \in 0 .. Top : Pow2[n] \in Nat \ {0}
  <2> DEFINE T == {n \in 0 .. Top : Pow2[n] \in Nat \ {0}}
  <2>1. 0 \in T
    BY <1>1, <1>8
  <2>2. ASSUME NEW n \in 1 .. Top, n - 1 \in T PROVE n \in T
    BY <1>8, <2>2
  <2> HIDE DEF T
  <2>3. \A n \in 0 .. Top : n \in T
    BY <1>1, <2>1, <2>2, IntervalInduction
  <2> QED
    BY <2>3 DEF T
<1> QED
  BY <1>1, <1>7, <1>8, <1>9

(* A power is a product of two, and grows with its exponent.               *)
LEMMA PowerSum ==
  ASSUME NEW m \in 0 .. Top
  PROVE  \A n \in 0 .. Top - m : Pow2[m + n] = Pow2[m] * Pow2[n]
<1> DEFINE T == {n \in 0 .. Top - m : Pow2[m + n] = Pow2[m] * Pow2[n]}
<1>1. Top \in Nat /\ Top - m \in Nat
  BY Powers
<1>2. 0 \in T
  <2>1. Pow2[m] \in Nat /\ m + 0 = m /\ Pow2[0] = 1
    BY Powers
  <2>2. Pow2[m] * 1 = Pow2[m]
    BY <2>1
  <2> QED
    BY <1>1, <2>1, <2>2
<1>3. ASSUME NEW n \in 1 .. Top - m, n - 1 \in T PROVE n \in T
  <2> DEFINE a == Pow2[m]
             b == Pow2[n - 1]
  <2>1. /\ a \in Nat /\ b \in Nat /\ Pow2[m + (n - 1)] = a * b
        /\ Pow2[n] = 2 * b
    BY <1>1, <1>3, Powers
  <2>2. m + n \in 1 .. Top /\ (m + n) - 1 = m + (n - 1)
    BY <1>1
  <2>3. Pow2[m + n] = 2 * Pow2[m + (n - 1)]
    BY <2>2, Powers
  <2> HIDE DEF a, b
  <2>4. Pow2[m + n] = 2 * (a * b) /\ Pow2[m] * Pow2[n] = a * (2 * b)
    BY <2>1, <2>3 DEF a
  <2>5. 2 * (a * b) = a * (2 * b)
    BY <2>1
  <2> QED
    BY <2>4, <2>5
<1> HIDE DEF T
<1>4. \A n \in 0 .. Top - m : n \in T
  BY <1>1, <1>2, <1>3, IntervalInduction
<1> QED
  BY <1>4 DEF T

LEMMA PowerGrows ==
  ASSUME NEW m \in 0 .. Top, NEW n \in m .. Top
  PROVE  Pow2[m] <= Pow2[n] /\ Pow2[n] = Pow2[m] * Pow2[n - m]
<1> DEFINE a == Pow2[m]
           b == Pow2[n - m]
<1>1. Top \in Nat /\ n - m \in 0 .. Top - m /\ m + (n - m) = n /\ n - m \in 0 .. Top
  BY Powers
<1>2. Pow2[n] = a * b /\ a \in Nat \ {0} /\ b \in Nat \ {0}
  BY <1>1, PowerSum, Powers
<1> HIDE DEF a, b
<1>3. a <= a * b
  BY <1>2
<1> QED
  BY <1>2, <1>3 DEF a, b

LEMMA Sizes ==
  /\ Q \in Nat \ {0, 1} /\ Q \in Nat \ {0} /\ Q \in Int /\ Q > 4
  /\ R \in Nat \ {0} /\ R \in Int /\ 2 * Q < R
  /\ NBits \in Nat /\ NBits > 1 /\ 2 * NBits < Q /\ ShortBits \in Nat /\ ShortBits < NBits
  /\ Pow2[NBits] \in Nat /\ Q < Pow2[NBits] /\ Pow2[NBits] < 2 * Q
  /\ ShortBound \in Nat /\ ShortBound > 1 /\ 2 * ShortBound < Q /\ ShortBound * ShortBound < Q
  /\ Residues = 0 .. Q - 1 /\ Shorts = -ShortBound .. ShortBound - 1
<1>1. /\ NBits \in 2 .. Top /\ ShortBits \in 1 .. NBits - 1 /\ Top \in Nat /\ Q \in Nat
      /\ Pow2[NBits - 1] < Q /\ Q < Pow2[NBits] /\ 2 * Q < R /\ ShortBound * ShortBound < Q
      /\ 2 * NBits < Q
  BY FieldAssumption, Powers DEF Top
<1>2. /\ Pow2[NBits] = 2 * Pow2[NBits - 1] /\ Pow2[NBits - 1] \in Nat \ {0} /\ Pow2[NBits] \in Nat
      /\ R \in Nat \ {0}
  <2>1. R = Pow2[Top] /\ Top \in 0 .. Top
    BY <1>1 DEF R, Top
  <2>2. NBits \in 1 .. Top /\ NBits - 1 \in 0 .. Top
    BY <1>1
  <2> QED
    BY <2>1, <2>2, Powers
<1>3. ShortBound = 2 * Pow2[ShortBits - 1] /\ Pow2[ShortBits - 1] \in Nat \ {0}
  <2>1. ShortBits \in 1 .. Top /\ ShortBits - 1 \in 0 .. Top
    BY <1>1
  <2> QED
    BY <2>1, Powers DEF ShortBound
<1>4. ShortBound \in Nat /\ ShortBound > 1
  BY <1>3
<1> DEFINE s == ShortBound
<1>5. s * s >= 2 * s
  <2> HIDE DEF s
  <2>1. s \in Nat /\ s > 1
    BY <1>4 DEF s
  <2> QED
    BY <2>1
<1> QED
  BY <1>1, <1>2, <1>4, <1>5 DEF Residues, Shorts

LEMMA FieldPrime == \A d \in 2 .. Q - 1 : Q % d # 0
BY FieldAssumption

-----------------------------------------------------------------------------
(* Congruence modulo Q.                                                    *)
Cong(a, b) == \E k \in Int : a = b + Q * k

LEMMA CongSelf ==
  ASSUME NEW a \in Int
  PROVE  /\ Cong(a, a) /\ Cong(a % Q, a) /\ Cong(a, a % Q)
         /\ a % Q \in Residues /\ a % Q \in Int
<1>1. a = a + Q * 0
  BY Sizes
<1>2. a = Q * (a \div Q) + (a % Q) /\ a % Q \in 0 .. Q - 1 /\ a \div Q \in Int
  BY DivMod, Sizes
<1> DEFINE d == a \div Q
           m == a % Q
<1>3. a = m + Q * d /\ d \in Int /\ m \in Int
  BY <1>2, Sizes
<1> HIDE DEF d, m
<1>4. m = a + Q * (-d) /\ -d \in Int
  BY <1>3, Sizes
<1>5. Cong(a, a) /\ Cong(m, a) /\ Cong(a, m)
  BY <1>1, <1>3, <1>4 DEF Cong
<1> QED
  BY <1>2, <1>5, Sizes DEF m

LEMMA CongSym ==
  ASSUME NEW a \in Int, NEW b \in Int, Cong(a, b)
  PROVE  Cong(b, a)
<1>1. PICK k \in Int : a = b + Q * k
  BY DEF Cong
<1>2. b = a + Q * (-k) /\ -k \in Int
  BY <1>1, Sizes
<1> QED
  BY <1>2 DEF Cong

LEMMA CongTrans ==
  ASSUME NEW a \in Int, NEW b \in Int, NEW c \in Int, Cong(a, b), Cong(b, c)
  PROVE  Cong(a, c)
<1>1. PICK k \in Int : a = b + Q * k
  BY DEF Cong
<1>2. PICK l \in Int : b = c + Q * l
  BY DEF Cong
<1>3. a = c + Q * (k + l) /\ k + l \in Int
  BY <1>1, <1>2, Sizes
<1> QED
  BY <1>3 DEF Cong

LEMMA CongAdd ==
  ASSUME NEW a \in Int, NEW b \in Int, NEW c \in Int, NEW d \in Int, Cong(a, b), Cong(c, d)
  PROVE  Cong(a + c, b + d) /\ Cong(a - c, b - d)
<1>1. PICK k \in Int : a = b + Q * k
  BY DEF Cong
<1>2. PICK l \in Int : c = d + Q * l
  BY DEF Cong
<1>3. /\ a + c = (b + d) + Q * (k + l) /\ k + l \in Int
      /\ a - c = (b - d) + Q * (k - l) /\ k - l \in Int
  BY <1>1, <1>2, Sizes
<1> QED
  BY <1>3 DEF Cong

LEMMA CongMul ==
  ASSUME NEW a \in Int, NEW b \in Int, NEW c \in Int, NEW d \in Int, Cong(a, b), Cong(c, d)
  PROVE  Cong(a * c, b * d)
<1>1. PICK k \in Int : a = b + Q * k
  BY DEF Cong
<1>2. PICK l \in Int : c = d + Q * l
  BY DEF Cong
<1> DEFINE t == (k * d) + (b * l) + (Q * (k * l))
<1>3. t \in Int /\ a * c = (b * d) + (Q * t)
  BY <1>1, <1>2, Sizes
<1> HIDE DEF t
<1> QED
  BY <1>3 DEF Cong

LEMMA CongUnique ==
  ASSUME NEW a \in Residues, NEW b \in Residues, Cong(a, b)
  PROVE  a = b
<1>1. PICK k \in Int : a = b + Q * k
  BY DEF Cong
<1>2. Q * 0 + a = Q * k + b /\ 0 \in Int /\ a \in 0 .. Q - 1 /\ b \in 0 .. Q - 1
  BY <1>1, Sizes
<1> QED
  BY <1>2, DivisionUnique, Sizes

(* The residue of a number is the only one congruent to it.                *)
LEMMA CongMod ==
  ASSUME NEW a \in Int, NEW b \in Residues, Cong(b, a)
  PROVE  b = a % Q
<1>1. a % Q \in Residues /\ Cong(a, a % Q) /\ a % Q \in Int /\ b \in Int
  BY CongSelf, Sizes
<1>2. Cong(b, a % Q)
  BY <1>1, CongTrans
<1> QED
  BY <1>1, <1>2, CongUnique

(* A multiple of Q more or less changes nothing.                           *)
LEMMA CongQ ==
  ASSUME NEW a \in Int
  PROVE  Cong(a + Q, a) /\ Cong(a - Q, a)
<1>1. a + Q = a + Q * 1 /\ a - Q = a + Q * (-1)
  BY Sizes
<1> QED
  BY <1>1 DEF Cong

-----------------------------------------------------------------------------
(* Montgomery multiplication.                                              *)

(* Q divides no power of two.                                              *)
LEMMA PowersPrime == \A n \in 0 .. Top : Pow2[n] % Q # 0
<1> DEFINE T == {n \in 0 .. Top : Pow2[n] % Q # 0}
<1>1. Top \in Nat /\ Q \in Nat \ {0, 1} /\ Q > 4
  BY Powers, Sizes
<1>2. 0 \in T
  BY <1>1, Powers, SmallMod
<1>3. ASSUME NEW n \in 1 .. Top, n - 1 \in T PROVE n \in T
  <2> DEFINE p == Pow2[n - 1]
             m == p % Q
  <2>1. p \in Int /\ Pow2[n] = 2 * p /\ m # 0
    BY <1>3, Powers
  <2> HIDE DEF p
  <2>2. m \in 0 .. Q - 1 /\ 2 \in 0 .. Q - 1
    BY <1>1, <2>1, DivMod
  <2>3. (m * 2) % Q = (p * 2) % Q
    <3>1. 2 \in Int /\ p \in Int
      BY <2>1
    <3> QED
      BY <1>1, <3>1, ModMul
  <2> HIDE DEF m
  <2>4. m * 2 = 2 * m /\ p * 2 = 2 * p
    BY <2>1, <2>2
  <2>5. (2 * m) % Q # 0
    <3> DEFINE two == 2
    <3>1. two \in 0 .. Q - 1 /\ two # 0
      BY <1>1
    <3> HIDE DEF two
    <3>2. (two * m) % Q # 0
      BY <1>1, <2>1, <2>2, <3>1, PrimeProduct, FieldPrime
    <3> QED
      BY <3>2 DEF two
  <2> QED
    BY <2>1, <2>3, <2>4, <2>5
<1> HIDE DEF T
<1>4. \A n \in 0 .. Top : n \in T
  BY <1>1, <1>2, <1>3, IntervalInduction
<1> QED
  BY <1>4 DEF T

LEMMA RInverseIs == RInverse \in Residues /\ Cong(RInverse * R, 1)
<1> DEFINE m == R % Q
<1>1. R \in Int /\ m \in 1 .. Q - 1 /\ Q \in Nat \ {0, 1} /\ Q > 4
  <2>1. R = Pow2[Top] /\ Top \in 0 .. Top
    BY Powers DEF R, Top
  <2>2. R % Q # 0
    BY <2>1, PowersPrime
  <2>3. R % Q \in 0 .. Q - 1
    <3>1. R \in Int
      BY Sizes
    <3> QED
      BY <3>1, CongSelf, Sizes
  <2> QED
    BY <2>2, <2>3, Sizes
<1>2. PICK k \in 0 .. Q - 1 : (m * k) % Q = 1
  BY <1>1, PrimeInverse, FieldPrime
<1>3. Cong(m, R) /\ m \in Int /\ k \in Int /\ Cong(k, k)
  <2>1. Cong(m, R) /\ m \in Int
    BY <1>1, CongSelf
  <2>2. k \in Int
    BY <1>2
  <2> QED
    BY <2>1, <2>2, CongSelf
<1> HIDE DEF m
<1>4. Cong(m * k, R * k) /\ m * k \in Int /\ R * k \in Int /\ R * k = k * R
  BY <1>1, <1>3, CongMul
<1>5. Cong(1, m * k)
  BY <1>2, <1>4, CongSelf
<1>6. Cong(1, k * R) /\ 1 \in Residues
  BY <1>1, <1>4, <1>5, CongTrans, Sizes
<1>7. 1 = (k * R) % Q
  BY <1>4, <1>6, CongMod
<1>8. RInverse \in Residues /\ (RInverse * R) % Q = 1
  BY <1>2, <1>7, Sizes DEF RInverse
<1> DEFINE c == RInverse * R
<1>9. c \in Int /\ c % Q = 1
  BY <1>1, <1>8, Sizes
<1> HIDE DEF c
<1>10. Cong(c, 1)
  BY <1>9, CongSelf
<1> QED
  BY <1>8, <1>10 DEF c

(* R can be cancelled.                                                     *)
LEMMA CongCancel ==
  ASSUME NEW a \in Int, NEW b \in Int, Cong(a * R, b * R)
  PROVE  Cong(a, b)
<1> DEFINE i == RInverse
<1>1. i \in Int /\ R \in Int /\ Cong(i * R, 1)
  BY RInverseIs, Sizes
<1> HIDE DEF i
<1>2. ASSUME NEW c \in Int PROVE Cong(c, (c * R) * i)
  <2>1. Cong(c, c) /\ i * R \in Int /\ c * (i * R) \in Int /\ c * 1 = c
    BY <1>1, CongSelf
  <2>2. Cong(c * (i * R), c * 1)
    BY <1>1, <2>1, CongMul
  <2>3. c * (i * R) = (c * R) * i
    BY <1>1
  <2> QED
    BY <2>1, <2>2, <2>3, CongSym
<1>3. a * R \in Int /\ b * R \in Int /\ Cong(i, i)
  BY <1>1, CongSelf
<1> DEFINE p == a * R
           q == b * R
<1>4. Cong(p, q) /\ p \in Int /\ q \in Int
  BY <1>3
<1>5. Cong(a, p * i) /\ Cong(b, q * i)
  BY <1>2
<1> HIDE DEF p, q
<1>6. Cong(p * i, q * i) /\ p * i \in Int /\ q * i \in Int
  BY <1>1, <1>3, <1>4, CongMul
<1>7. Cong(a, q * i)
  BY <1>5, <1>6, CongTrans
<1>8. Cong(q * i, b)
  BY <1>5, <1>6, CongSym
<1> QED
  BY <1>6, <1>7, <1>8, CongTrans

LEMMA npIs == np \in 0 .. R - 1 /\ (np * Q) % R = R - 1
<1> DEFINE i == RInverse
<1>1. i \in Int /\ R \in Nat \ {0} /\ Q \in Int /\ Cong(i * R, 1)
  BY RInverseIs, Sizes
<1> HIDE DEF i
<1>2. PICK k \in Int : i * R = 1 + Q * k
  BY <1>1 DEF Cong
<1> DEFINE n == k % R
           m == R - 1
<1>3. n \in 0 .. R - 1 /\ n \in Int
  BY <1>1, DivMod
<1>4. (n * Q) % R = (k * Q) % R
  BY <1>1, ModMul
<1>5. k * Q = m + R * (i - 1) /\ i - 1 \in Int /\ m \in Int /\ m \in 0 .. R - 1
  BY <1>1, <1>2
<1> DEFINE j == i - 1
<1>6. k * Q = m + R * j /\ j \in Int /\ m % R = m
  BY <1>1, <1>5, SmallMod
<1> HIDE DEF j, m
<1>7. (m + R * j) % R = m % R
  BY <1>1, <1>5, <1>6, AddMultiple
<1>8. (n * Q) % R = R - 1
  BY <1>4, <1>6, <1>7 DEF m
<1> HIDE DEF n
<1> QED
  BY <1>3, <1>8 DEF np

(* It divides by R: the sum that it shifts is a multiple of R, below 2QR.  *)
LEMMA MMul ==
  ASSUME NEW u \in Residues, NEW v \in Residues
  PROVE  rawMMul(u, v) \in Residues /\ Cong(rawMMul(u, v) * R, u * v)
<1> DEFINE t == u * v
           a == t % R
           b == a * np
           m == b % R
           z == t + m * Q
           w == z \div R
<1>1. /\ Q \in Nat \ {0} /\ R \in Nat \ {0} /\ 2 * Q < R /\ u \in 0 .. Q - 1 /\ v \in 0 .. Q - 1
      /\ np \in Nat /\ (np * Q) % R = R - 1
  BY Sizes, npIs
<1>2. rawMMul(u, v) = IF w >= Q THEN w - Q ELSE w
  BY DEF rawMMul
<1>3. t \in Nat /\ t < Q * Q
  <2>1. u * v \in Nat /\ u * v <= u * Q /\ u * Q < Q * Q
    BY <1>1
  <2> QED
    BY <1>1, <2>1
<1> HIDE DEF t
<1> DEFINE d == t \div R
<1>4. t = R * d + a /\ a \in Nat /\ d \in Int
  <2>1. t = R * d + a /\ a \in 0 .. R - 1 /\ d \in Int
    <3>1. t \in Int
      BY <1>3
    <3> QED
      BY <1>1, <3>1, DivMod
  <2> HIDE DEF a, d
  <2> QED
    BY <1>1, <2>1
<1> HIDE DEF a, d
<1>5. b \in Int
  BY <1>1, <1>4
<1> HIDE DEF b
<1> DEFINE g == b \div R
<1>6. b = R * g + m /\ m \in 0 .. R - 1 /\ g \in Int
  BY <1>1, <1>5, DivMod
<1> HIDE DEF m, g
<1> DEFINE e == np * Q
           c == e \div R
<1>7. e = R * c + (R - 1) /\ c \in Int /\ e \in Int
  BY <1>1, DivMod
<1> HIDE DEF e, c
<1> DEFINE f == (a * c) + a - (g * Q)
<1>8. m * Q = (R * f) - a /\ f \in Int
  <2>1. m * Q = (b * Q) - (R * (g * Q))
    BY <1>1, <1>5, <1>6
  <2>2. b * Q = a * e
    BY <1>1, <1>4 DEF b, e
  <2>3. a * e = (R * (a * c)) + (R * a) - a
    BY <1>1, <1>4, <1>7
  <2>4. R * f = (R * (a * c)) + (R * a) - (R * (g * Q))
    BY <1>1, <1>4, <1>6, <1>7
  <2>5. f \in Int /\ R * (a * c) \in Int /\ R * a \in Int /\ R * (g * Q) \in Int
    BY <1>1, <1>4, <1>6, <1>7
  <2> HIDE DEF f
  <2> QED
    BY <1>4, <2>1, <2>2, <2>3, <2>4, <2>5
<1> HIDE DEF f
<1>9. z = R * (d + f) + 0 /\ d + f \in Int /\ z \in Int
  BY <1>1, <1>3, <1>4, <1>6, <1>8
<1>10. z = R * w + (z % R) /\ z % R \in 0 .. R - 1 /\ w \in Int
  BY <1>1, <1>9, DivMod
<1> DEFINE o == z % R
<1>11. z = R * w + o /\ o \in 0 .. R - 1
  BY <1>10
<1>12. z >= 0 /\ z < R * (2 * Q) /\ z = t + m * Q
  <2>1. m * Q \in Nat /\ m * Q <= R * Q /\ Q * Q <= R * Q /\ Q * Q \in Nat
    BY <1>1, <1>6
  <2> DEFINE mq == m * Q
             qq == Q * Q
             rq == R * Q
  <2>2. R * (2 * Q) = (R * Q) + (R * Q) /\ R * Q \in Nat
    BY <1>1
  <2>3. z = t + mq /\ mq <= rq /\ qq <= rq /\ t < qq /\ mq \in Nat /\ qq \in Nat /\ rq \in Nat
    BY <1>3, <2>1, <2>2
  <2>4. R * (2 * Q) = rq + rq
    BY <2>2
  <2> HIDE DEF mq, qq, rq
  <2> QED
    BY <1>3, <2>3, <2>4 DEF mq
<1> HIDE DEF z, w, o
<1>13. w = d + f /\ o = 0
  <2> DEFINE df == d + f
             none == 0
  <2>1. none \in 0 .. R - 1 /\ df \in Int /\ z = R * df + none
    BY <1>1, <1>9
  <2> HIDE DEF df, none
  <2>2. R * w + o = R * df + none /\ w \in Int /\ o \in 0 .. R - 1
    BY <1>10, <1>11, <2>1
  <2>3. w = df /\ o = none
    BY <1>1, <2>1, <2>2, DivisionUnique
  <2> QED
    BY <2>3 DEF df, none
<1>14. z = w * R
  BY <1>1, <1>10, <1>11, <1>13
<1>15. w >= 0 /\ w < 2 * Q
  <2>1. R * (2 * Q) = (2 * Q) * R
    BY <1>1
  <2>2. CASE w < 0
    BY <1>1, <1>10, <1>12, <1>14, <2>2
  <2>3. CASE w >= 2 * Q
    <3>1. w * R >= (2 * Q) * R
      BY <1>1, <1>10, <2>3
    <3> QED
      BY <1>1, <1>10, <1>12, <1>14, <2>1, <3>1
  <2> QED
    BY <1>1, <1>10, <2>2, <2>3
<1>16. Cong(w * R, t)
  <2>1. w * R = t + Q * m /\ m \in Int
    BY <1>1, <1>6, <1>12, <1>14
  <2> QED
    BY <2>1 DEF Cong
<1> DEFINE y0 == rawMMul(u, v)
<1>17. y0 \in Residues /\ y0 \in Int /\ Cong(y0, w)
  <2>1. Cong(w, w) /\ Cong(w - Q, w)
    BY <1>10, CongSelf, CongQ
  <2>2. y0 = w \/ y0 = w - Q
    BY <1>2
  <2>3. y0 \in Residues
    BY <1>1, <1>2, <1>10, <1>15, Sizes
  <2> QED
    BY <1>1, <2>1, <2>2, <2>3, Sizes
<1> HIDE DEF y0
<1>18. Cong(R, R) /\ R \in Int /\ y0 * R \in Int /\ w * R \in Int /\ t \in Int
  BY <1>1, <1>3, <1>10, <1>17, CongSelf
<1>19. Cong(y0 * R, w * R)
  BY <1>10, <1>17, <1>18, CongMul
<1>20. Cong(y0 * R, t)
  BY <1>16, <1>18, <1>19, CongTrans
<1> QED
  BY <1>17, <1>20 DEF t, y0
-----------------------------------------------------------------------------
(* The forms of an element: what its parts say of its number.              *)

LEMMA Shapes ==
  ASSUME NEW e, WellFormed(e)
  PROVE  /\ e.type \in {"short", "shortM", "long", "longM"}
         /\ e.shortVal \in Shorts /\ e.shortVal \in Int /\ e.longVal \in Int
         /\ IsLong(e) => e.longVal \in Residues
BY Sizes DEF WellFormed, Element, IsLong

(* Element and number in one: e is well formed and stands for c modulo Q.  *)
Right(e, c) == WellFormed(e) /\ Number(e) = c % Q

LEMMA ShortNumber ==
  ASSUME NEW e, WellFormed(e), ~IsLong(e)
  PROVE  /\ Number(e) \in Residues /\ Cong(Number(e), e.shortVal) /\ Right(e, e.shortVal)
         /\ e.shortVal >= 0 => Number(e) = e.shortVal
         /\ e.shortVal < 0 => Number(e) = Q + e.shortVal
<1> DEFINE s == e.shortVal
<1>1. s \in Int /\ Number(e) = s % Q /\ s >= -ShortBound /\ s < ShortBound
  <2>1. Number(e) = s % Q
    BY Shapes, Sizes DEF Number, IsLong
  <2>2. s \in Shorts /\ s \in Int
    BY Shapes
  <2> HIDE DEF s
  <2> QED
    BY <2>1, <2>2, Sizes
<1>2. WellFormed(e)
  OBVIOUS
<1> HIDE DEF s
<1>3. s >= 0 => s % Q = s
  <2> HAVE s >= 0
  <2>1. s \in 0 .. Q - 1
    BY <1>1, Sizes
  <2> QED
    BY <2>1, Sizes, SmallMod
<1>4. s < 0 => s % Q = Q + s
  <2> HAVE s < 0
  <2>1. Q + s \in Residues /\ Q + s = s + Q
    BY <1>1, Sizes
  <2>2. Cong(Q + s, s)
    BY <1>1, <2>1, CongQ
  <2> QED
    BY <1>1, <2>1, <2>2, CongMod
<1>5. s % Q \in Residues /\ Cong(s % Q, s)
  BY <1>1, CongSelf
<1>6. Number(e) = s % Q /\ Right(e, s)
  BY <1>1, <1>2 DEF Right
<1> QED
  BY <1>3, <1>4, <1>5, <1>6 DEF s

LEMMA LongNumber ==
  ASSUME NEW e, WellFormed(e), e.type = "long"
  PROVE  e.longVal \in Residues /\ Number(e) = e.longVal /\ IsLong(e) /\ ~IsMont(e)
BY Shapes DEF Number, IsLong, IsMont

(* The Montgomery image of a number.                                       *)
LEMMA MontNumber ==
  ASSUME NEW e, WellFormed(e), IsMont(e)
  PROVE  e.longVal \in Residues /\ Number(e) \in Residues /\ Cong(Number(e) * R, e.longVal)
<1> DEFINE s == e.shortVal
           v == e.longVal
<1>1. s \in Int /\ v \in Int /\ R \in Int /\ Cong(R, R)
  BY Shapes, Sizes, CongSelf
<1>2. CASE e.type = "shortM"
  <2>1. ~IsLong(e)
    BY <1>2 DEF IsLong
  <2>2. Number(e) \in Residues /\ Cong(Number(e), s) /\ Number(e) \in Int
    BY <2>1, ShortNumber, Sizes
  <2>3. (s * R) % Q = v
    BY <1>2 DEF WellFormed
  <2> HIDE DEF s, v
  <2> DEFINE n == Number(e)
  <2>4. n \in Int /\ Cong(n, s)
    BY <2>2
  <2> HIDE DEF n
  <2>5. s * R \in Int /\ n * R \in Int /\ Cong(n * R, s * R)
    BY <1>1, <2>4, CongMul
  <2>6. s * R \in Int /\ Number(e) * R \in Int /\ Cong(Number(e) * R, s * R)
    BY <2>5 DEF n
  <2>7. Cong(s * R, v) /\ v \in Residues
    BY <2>3, <2>6, CongSelf
  <2>8. Cong(Number(e) * R, v)
    BY <1>1, <2>6, <2>7, CongTrans
  <2> QED
    BY <2>2, <2>7, <2>8 DEF v
<1>3. CASE e.type = "longM"
  <2> DEFINE i == RInverse
  <2>1. Number(e) = (v * i) % Q /\ v \in Residues
    BY <1>3, Shapes DEF Number, IsLong
  <2>2. i \in Int /\ Cong(i * R, 1)
    BY RInverseIs, Sizes
  <2> HIDE DEF v, i
  <2> DEFINE w == v * i
             n == Number(e)
  <2>3. w \in Int /\ n = w % Q
    BY <1>1, <2>1, <2>2
  <2> HIDE DEF w, n
  <2>4. n \in Residues /\ Cong(n, w) /\ n \in Int
    <3>1. w % Q \in Residues /\ Cong(w % Q, w)
      BY <2>3, CongSelf
    <3> QED
      BY <2>3, <3>1, Sizes
  <2>5. Number(e) \in Residues /\ Cong(Number(e), v * i) /\ Number(e) \in Int /\ v * i \in Int
    BY <2>3, <2>4 DEF w, n
  <2>6. Cong(n, w) /\ n \in Int /\ w \in Int
    BY <2>3, <2>4
  <2> HIDE DEF w, n
  <2>7. Cong(n * R, w * R) /\ n * R \in Int /\ w * R \in Int
    BY <1>1, <2>6, CongMul
  <2>8. w * R = v * (i * R) /\ i * R \in Int /\ v * 1 = v
    BY <1>1, <2>2 DEF w
  <2>9. Cong(v, v)
    BY <1>1, CongSelf
  <2>10. Cong(v * (i * R), v * 1)
    BY <1>1, <2>2, <2>8, <2>9, CongMul
  <2>11. Cong(n * R, v)
    BY <1>1, <2>7, <2>8, <2>10, CongTrans
  <2> QED
    BY <2>1, <2>5, <2>11 DEF n, v
<1> QED
  BY <1>2, <1>3 DEF IsMont

LEMMA NumberType ==
  ASSUME NEW e, WellFormed(e)
  PROVE  Number(e) \in Residues /\ Number(e) \in Nat /\ Right(e, Number(e))
<1>1. Number(e) \in Residues
  <2>1. CASE ~IsLong(e)
    BY <2>1, ShortNumber
  <2>2. CASE e.type = "long"
    BY <2>2, LongNumber
  <2>3. CASE IsMont(e)
    BY <2>3, MontNumber
  <2> QED
    BY <2>1, <2>2, <2>3 DEF IsLong, IsMont
<1>2. Number(e) % Q = Number(e)
  BY <1>1, Sizes, SmallMod
<1> QED
  BY <1>1, <1>2, Sizes DEF Right

(* The elements that the operations make.                                  *)
LEMMA MakeShort ==
  ASSUME NEW v \in Shorts
  PROVE  Right(Short(v), v) /\ ~IsLong(Short(v)) /\ Short(v).shortVal = v
<1>1. WellFormed(Short(v)) /\ ~IsLong(Short(v)) /\ Short(v).shortVal = v
  BY Sizes DEF WellFormed, Element, Short, IsLong
<1> QED
  BY <1>1, ShortNumber

LEMMA MakeLong ==
  ASSUME NEW v \in Residues
  PROVE  /\ Right(Long(v), v) /\ Number(Long(v)) = v
         /\ Long(v).longVal = v /\ Long(v).type = "long"
<1>1. WellFormed(Long(v)) /\ Long(v).type = "long" /\ Long(v).longVal = v
  BY Sizes DEF WellFormed, Element, Long, IsLong
<1>2. v % Q = v
  BY Sizes, SmallMod
<1> QED
  BY <1>1, <1>2, LongNumber DEF Right

(* A long for any number that it is congruent to.                          *)
LEMMA MakeLongOf ==
  ASSUME NEW v \in Residues, NEW c \in Int, Cong(v, c)
  PROVE  Right(Long(v), c)
<1>1. v = c % Q
  BY CongMod
<1> QED
  BY <1>1, MakeLong DEF Right

LEMMA MakeLongM ==
  ASSUME NEW v \in Residues, NEW c \in Int, Cong(c * R, v)
  PROVE  Right(LongM(v), c) /\ LongM(v).longVal = v
<1> DEFINE e == LongM(v)
<1>1. WellFormed(e) /\ e.type = "longM" /\ e.longVal = v
  BY Sizes DEF WellFormed, Element, LongM, IsLong
<1> HIDE DEF e
<1>2. Number(e) \in Residues /\ Cong(Number(e) * R, v)
  BY <1>1, MontNumber DEF IsMont
<1>3. v \in Int /\ c * R \in Int /\ Number(e) \in Int /\ Number(e) * R \in Int
  BY <1>2, Sizes
<1>4. Cong(v, c * R)
  BY <1>3, CongSym
<1>5. Cong(Number(e) * R, c * R)
  BY <1>2, <1>3, <1>4, CongTrans
<1>6. Number(e) = c % Q
  BY <1>2, <1>3, <1>5, CongCancel, CongMod
<1> QED
  BY <1>1, <1>6 DEF Right, e

LEMMA RightCong ==
  ASSUME NEW e, NEW c \in Int, Right(e, c)
  PROVE  WellFormed(e) /\ Number(e) \in Residues /\ Cong(Number(e), c)
BY CongSelf DEF Right

-----------------------------------------------------------------------------
(* Longs below Q stay below Q.                                             *)
LEMMA RawAdd ==
  ASSUME NEW u \in Residues, NEW v \in Residues
  PROVE  rawAdd(u, v) \in Residues /\ Cong(rawAdd(u, v), u + v)
<1>1. u + v \in Int /\ Cong(u + v, u + v) /\ Cong(u + v - Q, u + v)
  <2> DEFINE d == u + v
  <2>1. d \in Int
    BY Sizes
  <2> HIDE DEF d
  <2>2. Cong(d, d) /\ Cong(d - Q, d)
    <3>1. Cong(d, d)
      BY <2>1, CongSelf
    <3>2. Cong(d - Q, d)
      BY <2>1, CongQ, Zenon
    <3> QED
      BY <3>1, <3>2
  <2>3. u + v - Q = (u + v) - Q /\ u + v \in Int
    BY Sizes
  <2> QED
    BY <2>2, <2>3 DEF d
<1>2. CASE u + v >= Q
  <2>1. u + v - Q \in 0 .. R - 1 /\ u + v - Q \in Residues
    BY <1>2, Sizes
  <2>2. (u + v - Q) % R = u + v - Q
    BY <2>1, Sizes, SmallMod
  <2> QED
    BY <1>1, <1>2, <2>1, <2>2 DEF rawAdd
<1>3. CASE u + v < Q
  BY <1>1, <1>3, Sizes DEF rawAdd
<1> QED
  BY <1>2, <1>3, Sizes

LEMMA RawSub ==
  ASSUME NEW u \in Residues, NEW v \in Residues
  PROVE  rawSub(u, v) \in Residues /\ Cong(rawSub(u, v), u - v)
<1>1. u - v \in Int /\ Cong(u - v, u - v) /\ Cong(u - v + Q, u - v)
  <2> DEFINE d == u - v
  <2>1. d \in Int
    BY Sizes
  <2> HIDE DEF d
  <2>2. Cong(d, d) /\ Cong(d + Q, d)
    <3>1. Cong(d, d)
      BY <2>1, CongSelf
    <3>2. Cong(d + Q, d)
      BY <2>1, CongQ, Zenon
    <3> QED
      BY <3>1, <3>2
  <2> QED
    BY <2>1, <2>2 DEF d
<1>2. CASE u < v
  <2>1. u - v + Q \in 0 .. R - 1 /\ u - v + Q \in Residues
    BY <1>2, Sizes
  <2>2. (u - v + Q) % R = u - v + Q
    BY <2>1, Sizes, SmallMod
  <2> QED
    BY <1>1, <1>2, <2>1, <2>2 DEF rawSub
<1>3. CASE u >= v
  BY <1>1, <1>3, Sizes DEF rawSub
<1> QED
  BY <1>2, <1>3, Sizes

LEMMA RawNeg ==
  ASSUME NEW u \in Residues
  PROVE  rawNeg(u) \in Residues /\ Cong(rawNeg(u), -u)
<1>1. -u \in Int /\ Cong(-u, -u) /\ Cong(-u + Q, -u)
  <2>1. -u \in Int
    BY Sizes
  <2> QED
    BY <2>1, CongSelf, CongQ
<1>2. CASE u = 0
  BY <1>1, <1>2, Sizes DEF rawNeg
<1>3. CASE u # 0
  <2>1. Q - u \in 0 .. R - 1 /\ Q - u \in Residues /\ -u + Q = Q - u
    BY <1>3, Sizes
  <2>2. (Q - u) % R = Q - u
    BY <2>1, Sizes, SmallMod
  <2> QED
    BY <1>1, <1>3, <2>1, <2>2 DEF rawNeg
<1> QED
  BY <1>2, <1>3

(* An integer below Q in absolute value as a long or, if it fits, a short. *)
LEMMA CopyS2L ==
  ASSUME NEW v \in Int, -Q < v, v < Q
  PROVE  Right(rawCopyS2L(v), v) /\ rawCopyS2L(v).type = "long"
<1>1. Cong(v, v) /\ Cong(v + Q, v) /\ Q + v = v + Q
  <2>1. Cong(v, v) /\ Cong(v + Q, v)
    BY CongSelf, CongQ
  <2> QED
    BY <2>1, Sizes
<1>2. CASE v >= 0
  BY <1>1, <1>2, MakeLongOf, MakeLong, Sizes DEF rawCopyS2L
<1>3. CASE v < 0
  <2>1. Q + v \in Residues
    BY <1>3, Sizes
  <2>2. rawCopyS2L(v) = Long(Q + v)
    BY <1>3 DEF rawCopyS2L
  <2> QED
    BY <1>1, <2>1, <2>2, MakeLongOf, MakeLong
<1> QED
  BY <1>2, <1>3

LEMMA IntIs ==
  ASSUME NEW v \in Int, -Q < v, v < Q
  PROVE  Right(OfInt(v), v)
BY CopyS2L, MakeShort DEF OfInt
-----------------------------------------------------------------------------
(* Conversions                                                             *)

(* A factor is replaced by a congruent one.                                *)
LEMMA CongTimes ==
  ASSUME NEW a \in Int, NEW b \in Int, NEW c \in Int, Cong(a, b)
  PROVE  Cong(c * a, c * b) /\ Cong(a * c, b * c)
<1>1. Cong(c, c)
  BY CongSelf
<1> QED
  BY <1>1, CongMul

LEMMA TimesR2 ==
  ASSUME NEW u \in Residues
  PROVE  /\ R2 \in Residues
         /\ rawMMul(u, R2) \in Residues /\ Cong(rawMMul(u, R2), u * R)
         /\ rawMMul(R2, u) \in Residues /\ Cong(rawMMul(R2, u), u * R)
<1> DEFINE rr == R * R
           f == R2
           w == rawMMul(u, f)
           z == rawMMul(f, u)
<1>1. rr \in Int /\ R \in Int /\ u \in Int
  BY Sizes
<1>2. f \in Residues /\ Cong(f, rr)
  <2>1. f = rr % Q
    BY DEF R2
  <2> HIDE DEF rr, f
  <2> QED
    BY <1>1, <2>1, CongSelf
<1> HIDE DEF f
<1>3. f \in Int
  BY <1>2, Sizes
<1>4. w \in Residues /\ Cong(w * R, u * f) /\ z \in Residues /\ Cong(z * R, f * u)
  BY <1>2, MMul
<1> HIDE DEF w, z
<1>5. w \in Int /\ z \in Int /\ w * R \in Int /\ z * R \in Int
  BY <1>1, <1>4, Sizes
<1> DEFINE ur == u * R
<1>6. u * rr = ur * R /\ ur \in Int
  BY <1>1
<1>7. u * f \in Int /\ f * u = u * f /\ ur * R \in Int
  BY <1>1, <1>3, <1>6
<1> HIDE DEF rr, ur
<1>8. Cong(u * f, ur * R)
  BY <1>1, <1>2, <1>3, <1>6, CongTimes
<1>9. Cong(w * R, ur * R) /\ Cong(z * R, ur * R)
  BY <1>4, <1>5, <1>7, <1>8, CongTrans
<1>10. Cong(w, ur) /\ Cong(z, ur)
  BY <1>5, <1>6, <1>9, CongCancel
<1> QED
  BY <1>2, <1>4, <1>10 DEF f, w, z, ur

LEMMA TimesR3 ==
  ASSUME NEW u \in Residues
  PROVE  rawMMul(u, R3) \in Residues /\ Cong(rawMMul(u, R3), (u * R) * R)
<1> DEFINE rr == R * R
           f == R2
           g == R3
           fr == f * R
<1>1. rr \in Int /\ R \in Int /\ u \in Int
  BY Sizes
<1>2. f \in Residues /\ Cong(f, rr) /\ f \in Int
  <2>1. f = rr % Q
    BY DEF R2
  <2> HIDE DEF rr, f
  <2> QED
    BY <1>1, <2>1, CongSelf
<1>3. g = fr % Q
  BY DEF R3
<1> HIDE DEF f, g
<1>4. fr \in Int
  BY <1>1, <1>2
<1> HIDE DEF fr
<1>5. g \in Residues /\ Cong(g, fr) /\ g \in Int
  BY <1>3, <1>4, CongSelf
<1> HIDE DEF rr
<1>6. Cong(fr, rr * R) /\ rr * R \in Int
  <2>1. Cong(f * R, rr * R)
    BY <1>1, <1>2, CongTimes
  <2> QED
    BY <1>1, <2>1 DEF fr
<1>7. Cong(g, rr * R)
  BY <1>4, <1>5, <1>6, CongTrans
<1> DEFINE w == rawMMul(u, g)
           ur == u * R
           urr == ur * R
<1>8. w \in Residues /\ Cong(w * R, u * g)
  BY <1>5, MMul
<1> HIDE DEF w
<1>9. w \in Int /\ w * R \in Int /\ u * g \in Int /\ urr \in Int
  BY <1>1, <1>5, <1>8, Sizes
<1>10. u * (rr * R) = urr * R /\ u * (rr * R) \in Int
  <2>1. u * (rr * R) = (u * rr) * R
    BY <1>1
  <2>2. u * rr = urr
    BY <1>1 DEF rr
  <2> QED
    BY <1>1, <2>1, <2>2
<1> HIDE DEF ur, urr
<1>11. Cong(u * g, u * (rr * R))
  BY <1>1, <1>5, <1>6, <1>7, CongTimes
<1>12. Cong(w * R, urr * R)
  BY <1>8, <1>9, <1>10, <1>11, CongTrans
<1>13. Cong(w, urr)
  BY <1>9, <1>12, CongCancel
<1> QED
  BY <1>8, <1>13 DEF w, g, urr, ur

LEMMA ToMontgomery ==
  ASSUME NEW e, WellFormed(e)
  PROVE  /\ Right(Fr_toMontgomery(e), Number(e)) /\ IsMont(Fr_toMontgomery(e))
         /\ Fr_toMontgomery(e).longVal \in Residues
         /\ Cong(Number(e) * R, Fr_toMontgomery(e).longVal)
<1> DEFINE n == Number(e)
<1>1. n \in Residues /\ n \in Int /\ R \in Int /\ Right(e, n)
  BY NumberType, Sizes
<1>2. CASE IsMont(e)
  <2>1. Fr_toMontgomery(e) = e
    BY <1>2 DEF Fr_toMontgomery, IsMont
  <2> QED
    BY <1>1, <1>2, <2>1, MontNumber
<1>3. CASE e.type = "long"
  <2> DEFINE w == rawMMul(e.longVal, R2)
  <2>1. e.longVal = n /\ Fr_toMontgomery(e) = LongM(w)
    BY <1>3, LongNumber DEF Fr_toMontgomery, IsMont
  <2>2. w \in Residues /\ Cong(w, n * R)
    BY <1>1, <2>1, TimesR2
  <2> HIDE DEF w, n
  <2>3. w \in Int /\ n * R \in Int
    BY <1>1, <2>2, Sizes
  <2>4. Cong(n * R, w)
    BY <2>2, <2>3, CongSym
  <2>5. IsMont(LongM(w))
    BY DEF IsMont, LongM
  <2> QED
    BY <1>1, <2>1, <2>2, <2>4, <2>5, MakeLongM DEF n
<1>4. CASE e.type = "short"
  <2> DEFINE s == e.shortVal
             w == IF s >= 0 THEN rawMMul(R2, s) ELSE rawNeg(rawMMul(R2, -s))
             m == Fr_toMontgomery(e)
  <2>1. m = [e EXCEPT !.type = "shortM", !.longVal = w]
    BY <1>4 DEF Fr_toMontgomery, IsMont
  <2>2. /\ s \in Int /\ s \in Shorts /\ Cong(n, s) /\ s >= -ShortBound /\ s < ShortBound
        /\ e \in Element /\ n = s % Q
    BY <1>4, ShortNumber, Shapes, Sizes DEF IsLong, WellFormed, Right
  <2>3. w \in Residues /\ Cong(w, s * R)
    <3> HIDE DEF n, m, s
    <3>1. CASE s >= 0
      <4>1. s \in Residues
        BY <2>2, <3>1, Sizes
      <4> QED
        BY <3>1, <4>1, TimesR2
    <3>2. CASE s < 0
      <4> DEFINE k == -s
                 z == rawMMul(R2, k)
      <4>1. k \in Residues /\ k \in Int
        BY <2>2, <3>2, Sizes
      <4> HIDE DEF k
      <4>2. z \in Residues /\ Cong(z, k * R)
        BY <4>1, TimesR2
      <4>3. w = rawNeg(z)
        BY <2>2, <3>2 DEF k
      <4> HIDE DEF z, w
      <4>4. w \in Residues /\ Cong(w, -z) /\ z \in Int /\ w \in Int
        BY <4>2, <4>3, RawNeg, Sizes
      <4>5. 0 \in Int /\ k * R \in Int
        BY <1>1, <4>1
      <4> DEFINE kr == k * R
                 zero == 0
      <4>6. Cong(z, kr) /\ kr \in Int /\ zero \in Int /\ Cong(zero, zero)
        BY <4>2, <4>5, CongSelf
      <4>7. zero - z = -z /\ zero - kr = s * R
        BY <1>1, <2>2, <4>1, <4>4 DEF k
      <4> HIDE DEF kr, zero
      <4>8. Cong(zero - z, zero - kr) /\ zero - z \in Int /\ zero - kr \in Int
        BY <4>4, <4>6, CongAdd
      <4> QED
        BY <4>4, <4>7, <4>8, CongTrans
    <3> QED
      BY <2>2, <3>1, <3>2
  <2>4. /\ m.type = "shortM" /\ m.shortVal = s /\ m.longVal = w
        /\ m \in [type : {"short", "shortM", "long", "longM"}, shortVal : Shorts, longVal : Int]
    <3> HIDE DEF w, m
    <3>1. w \in Int
      BY <2>3, Sizes
    <3> QED
      BY <2>1, <2>2, <3>1 DEF Element
  <2>5. m \in Element
    <3> HIDE DEF w, m
    <3>1. w \in 0 .. R - 1
      BY <2>3, Sizes
    <3> QED
      BY <2>4, <3>1 DEF Element
  <2> HIDE DEF m, w, s, n
  <2>6. s * R \in Int /\ w \in Int
    BY <1>1, <2>2, <2>3, Sizes
  <2>7. (s * R) % Q = w
    BY <2>3, <2>6, CongMod
  <2>8. WellFormed(m) /\ ~IsLong(m) /\ IsMont(m)
    BY <2>4, <2>5, <2>7 DEF WellFormed, IsLong, IsMont
  <2>9. Right(m, s)
    BY <2>4, <2>8, ShortNumber
  <2>10. n % Q = n
    BY <1>1, Sizes, SmallMod
  <2>11. Right(m, n)
    BY <2>2, <2>9, <2>10 DEF Right
  <2>12. n * R \in Int /\ Cong(n * R, s * R)
    <3>1. n * R \in Int
      BY <1>1
    <3>2. Cong(n * R, s * R)
      BY <1>1, <2>2, CongTimes
    <3> QED
      BY <3>1, <3>2
  <2>13. Cong(s * R, w)
    BY <2>3, <2>6, CongSym
  <2>14. Cong(n * R, w)
    BY <2>6, <2>12, <2>13, CongTrans
  <2> QED
    BY <2>3, <2>4, <2>8, <2>11, <2>14 DEF m, n
<1> QED
  BY <1>2, <1>3, <1>4, Shapes DEF IsMont

LEMMA ToNormal ==
  ASSUME NEW e, WellFormed(e)
  PROVE  /\ Right(Fr_toNormal(e), Number(e))
         /\ IsLong(e) => Fr_toNormal(e).longVal = Number(e)
         /\ IsLong(e) <=> IsLong(Fr_toNormal(e))
         /\ ~IsLong(e) => Fr_toNormal(e) = e
<1> DEFINE n == Number(e)
<1>1. n \in Residues /\ n \in Int /\ R \in Int /\ Right(e, n)
  BY NumberType, Sizes
<1>2. CASE e.type # "longM"
  BY <1>1, <1>2, LongNumber DEF Fr_toNormal, IsLong
<1>3. CASE e.type = "longM"
  <2> DEFINE w == rawMMul(e.longVal, 1)
             v == e.longVal
  <2>1. Fr_toNormal(e) = Long(w) /\ IsLong(e)
    BY <1>3 DEF Fr_toNormal, IsLong
  <2>2. v \in Residues /\ Cong(n * R, v) /\ v \in Int
    BY <1>3, MontNumber, Sizes DEF IsMont
  <2> HIDE DEF n
  <2>3. w \in Residues /\ Cong(w * R, v * 1) /\ v * 1 = v
    <3>1. 1 \in Residues
      BY Sizes
    <3> HIDE DEF v
    <3> QED
      BY <2>2, <3>1, MMul DEF v
  <2> HIDE DEF v, w
  <2>4. w \in Int /\ w * R \in Int /\ n * R \in Int
    BY <1>1, <2>3, Sizes
  <2>5. Cong(v, n * R)
    BY <2>2, <2>4, CongSym
  <2>6. Cong(w * R, n * R)
    BY <2>2, <2>3, <2>4, <2>5, CongTrans
  <2>7. w = n
    BY <1>1, <2>3, <2>4, <2>6, CongCancel, CongUnique
  <2> QED
    BY <1>1, <2>1, <2>7, MakeLong DEF n, IsLong
<1> QED
  BY <1>2, <1>3

LEMMA ToLongNormal ==
  ASSUME NEW e, WellFormed(e)
  PROVE  Right(Fr_toLongNormal(e), Number(e)) /\ Fr_toLongNormal(e).longVal = Number(e)
<1>1. CASE IsLong(e)
  BY <1>1, ToNormal DEF Fr_toLongNormal
<1>2. CASE ~IsLong(e)
  <2> DEFINE s == e.shortVal
             l == Fr_toLongNormal(e)
  <2>1. s \in Int /\ -Q < s /\ s < Q /\ Number(e) = s % Q /\ l = rawCopyS2L(s)
    BY <1>2, Shapes, Sizes, ShortNumber DEF Right, Fr_toLongNormal
  <2> HIDE DEF s, l
  <2>2. Right(l, s) /\ l.type = "long"
    BY <2>1, CopyS2L
  <2>3. WellFormed(l) /\ Number(l) = Number(e)
    BY <2>1, <2>2 DEF Right
  <2> QED
    BY <2>2, <2>3, LongNumber, NumberType DEF l
<1> QED
  BY <1>1, <1>2

-----------------------------------------------------------------------------
(* Sums and differences                                                    *)

LEMMA RightSame ==
  ASSUME NEW e, NEW c \in Int, NEW d \in Int, Right(e, c), Cong(c, d)
  PROVE  Right(e, d)
<1>1. WellFormed(e) /\ Number(e) \in Residues /\ Cong(Number(e), c) /\ Number(e) \in Int
  BY RightCong, Sizes
<1>2. Cong(Number(e), d)
  BY <1>1, CongTrans
<1> QED
  BY <1>1, <1>2, CongMod DEF Right

LEMMA LongSum ==
  ASSUME NEW u \in Residues, NEW v \in Residues, NEW c \in Int, NEW d \in Int,
         Cong(u, c), Cong(v, d)
  PROVE  Right(Long(rawAdd(u, v)), c + d) /\ Right(Long(rawSub(u, v)), c - d)
<1> DEFINE s == rawAdd(u, v)
           t == rawSub(u, v)
<1>1. s \in Residues /\ Cong(s, u + v) /\ t \in Residues /\ Cong(t, u - v)
  BY RawAdd, RawSub
<1> HIDE DEF s, t
<1>2. u \in Int /\ v \in Int /\ s \in Int /\ t \in Int
  BY <1>1, Sizes
<1>3. u + v \in Int /\ u - v \in Int /\ c + d \in Int /\ c - d \in Int
  BY <1>2
<1>4. Cong(u + v, c + d) /\ Cong(u - v, c - d)
  BY <1>2, CongAdd
<1>5. Cong(s, c + d) /\ Cong(t, c - d)
  BY <1>1, <1>2, <1>3, <1>4, CongTrans
<1> QED
  BY <1>1, <1>3, <1>5, MakeLongOf DEF s, t

LEMMA LongMSum ==
  ASSUME NEW u \in Residues, NEW v \in Residues, NEW c \in Int, NEW d \in Int,
         Cong(c * R, u), Cong(d * R, v)
  PROVE  Right(LongM(rawAdd(u, v)), c + d) /\ Right(LongM(rawSub(u, v)), c - d)
<1> DEFINE s == rawAdd(u, v)
           t == rawSub(u, v)
           cr == c * R
           dr == d * R
<1>1. s \in Residues /\ Cong(s, u + v) /\ t \in Residues /\ Cong(t, u - v)
  BY RawAdd, RawSub
<1>2. /\ u \in Int /\ v \in Int /\ cr \in Int /\ dr \in Int
      /\ (c + d) * R = cr + dr /\ (c - d) * R = cr - dr
  BY Sizes
<1>3. Cong(cr, u) /\ Cong(dr, v)
  OBVIOUS
<1> HIDE DEF s, t, cr, dr
<1>4. Cong(cr + dr, u + v) /\ Cong(cr - dr, u - v)
  BY <1>2, <1>3, CongAdd
<1>5. /\ u + v \in Int /\ u - v \in Int /\ cr + dr \in Int /\ cr - dr \in Int
      /\ s \in Int /\ t \in Int /\ c + d \in Int /\ c - d \in Int
  BY <1>1, <1>2, Sizes
<1>6. Cong(u + v, s) /\ Cong(u - v, t)
  BY <1>1, <1>5, CongSym
<1>7. Cong(cr + dr, s) /\ Cong(cr - dr, t)
  BY <1>4, <1>5, <1>6, CongTrans
<1>8. Cong((c + d) * R, s) /\ Cong((c - d) * R, t)
  BY <1>2, <1>7
<1> QED
  BY <1>1, <1>5, <1>8, MakeLongM DEF s, t

LEMMA ShortAdded ==
  ASSUME NEW u \in Residues, NEW c \in Int, Cong(u, c), NEW s \in Int, -Q < s, s < Q
  PROVE  Right(Long(AddShort(u, s)), c + s)
<1>1. CASE s >= 0
  <2>1. s \in Residues /\ Cong(s, s) /\ AddShort(u, s) = rawAdd(u, s)
    BY <1>1, CongSelf, Sizes DEF AddShort
  <2> QED
    BY <2>1, LongSum
<1>2. CASE s < 0
  <2> DEFINE k == -s
  <2>1. k \in Residues /\ k \in Int /\ c - k = c + s
    BY <1>2, Sizes
  <2>2. AddShort(u, s) = rawSub(u, k)
    BY <1>2 DEF AddShort
  <2> HIDE DEF k
  <2>3. Cong(k, k)
    BY <2>1, CongSelf
  <2>4. Right(Long(rawSub(u, k)), c - k)
    BY <2>1, <2>3, LongSum
  <2> QED
    BY <2>1, <2>2, <2>4
<1> QED
  BY <1>1, <1>2

(* What the operations read of an element that is not a Montgomery image.  *)
LEMMA Plain ==
  ASSUME NEW e, WellFormed(e)
  PROVE  /\ Number(e) \in Residues /\ Number(e) \in Int
         /\ e.type = "long" => e.longVal = Number(e) /\ IsLong(e)
         /\ ~IsLong(e) => /\ e.shortVal \in Int /\ Cong(e.shortVal, Number(e))
                          /\ -ShortBound <= e.shortVal /\ e.shortVal < ShortBound
                          /\ -Q < e.shortVal /\ e.shortVal < Q
<1>1. Number(e) \in Residues /\ Number(e) \in Int
  BY NumberType, Sizes
<1>2. e.type = "long" => e.longVal = Number(e) /\ IsLong(e)
  BY LongNumber
<1>3. ASSUME ~IsLong(e)
      PROVE  /\ e.shortVal \in Int /\ Cong(e.shortVal, Number(e))
             /\ -ShortBound <= e.shortVal /\ e.shortVal < ShortBound
             /\ -Q < e.shortVal /\ e.shortVal < Q
  <2>1. e.shortVal \in Int /\ e.shortVal \in Shorts /\ Cong(Number(e), e.shortVal)
    BY <1>3, Shapes, ShortNumber
  <2>2. Cong(e.shortVal, Number(e))
    BY <1>1, <2>1, CongSym
  <2> QED
    BY <2>1, <2>2, Sizes
<1> QED
  BY <1>1, <1>2, <1>3

LEMMA Images ==
  ASSUME NEW e, WellFormed(e), NEW n
  PROVE  /\ Montgomery(e, n, {}) \in Residues
         /\ Cong(Number(e) * R, Montgomery(e, n, {}))
BY ToMontgomery DEF Montgomery, Seen

LEMMA Adds ==
  ASSUME NEW a, NEW b, WellFormed(a), WellFormed(b)
  PROVE  Right(Fr_add(a, b, {}), Number(a) + Number(b))
<1> DEFINE u == Number(a)
           v == Number(b)
           s == a.shortVal
           t == b.shortVal
           z == Fr_add(a, b, {})
<1>1. /\ u \in Residues /\ v \in Residues /\ u \in Int /\ v \in Int /\ u + v \in Int
      /\ Cong(u, u) /\ Cong(v, v) /\ u + v = v + u
  <2>1. u \in Residues /\ v \in Residues /\ u \in Int /\ v \in Int
    BY Plain
  <2> HIDE DEF u, v
  <2> QED
    BY <2>1, CongSelf
<1>2. CASE ~IsLong(a) /\ ~IsLong(b)
  <2>1. /\ s \in Int /\ t \in Int /\ Cong(s, u) /\ Cong(t, v)
        /\ -ShortBound <= s /\ s < ShortBound /\ -ShortBound <= t /\ t < ShortBound
    BY <1>2, Plain
  <2>2. z = OfInt(s + t)
    BY <1>2 DEF Fr_add, IsLong
  <2> HIDE DEF u, v, s, t, z
  <2>3. s + t \in Int /\ -Q < s + t /\ s + t < Q
    BY <2>1, Sizes
  <2>4. Cong(s + t, u + v)
    BY <1>1, <2>1, CongAdd
  <2>5. Right(z, s + t)
    BY <2>2, <2>3, IntIs
  <2>6. Right(z, u + v)
    BY <1>1, <2>3, <2>4, <2>5, RightSame
  <2> QED
    BY <2>6 DEF z, u, v
<1>3. CASE a.type = "long" /\ ~IsLong(b)
  <2>1. /\ z = Long(AddShort(u, t)) /\ t \in Int /\ -Q < t /\ t < Q /\ Cong(t, v)
    BY <1>3, Plain DEF Fr_add, IsLong
  <2> HIDE DEF u, v, s, t, z
  <2>2. Right(z, u + t) /\ u + t \in Int /\ Cong(u + t, u + v)
    BY <1>1, <2>1, ShortAdded, CongAdd
  <2> QED
    BY <1>1, <2>2, RightSame DEF z, u, v
<1>4. CASE ~IsLong(a) /\ b.type = "long"
  <2>1. /\ z = Long(AddShort(v, s)) /\ s \in Int /\ -Q < s /\ s < Q /\ Cong(s, u)
    BY <1>4, Plain DEF Fr_add, IsLong
  <2> HIDE DEF u, v, s, t, z
  <2>2. Right(z, v + s) /\ v + s \in Int /\ Cong(v + s, v + u) /\ v + u \in Int
    BY <1>1, <2>1, ShortAdded, CongAdd
  <2>3. Right(z, v + u)
    BY <2>2, RightSame
  <2> QED
    BY <1>1, <2>3 DEF z, u, v
<1>5. CASE a.type = "long" /\ b.type = "long"
  <2>1. z = Long(rawAdd(u, v))
    BY <1>5, Plain DEF Fr_add, IsLong
  <2> HIDE DEF u, v, z
  <2>2. Right(z, u + v)
    BY <1>1, <2>1, LongSum
  <2> QED
    BY <2>2 DEF z, u, v
<1>6. CASE a.type = "longM" \/ b.type = "longM"
  <2> DEFINE f == Montgomery(a, 1, {})
             g == Montgomery(b, 2, {})
  <2>1. z = LongM(rawAdd(f, g))
    BY <1>6 DEF Fr_add, IsLong
  <2>2. f \in Residues /\ g \in Residues /\ Cong(u * R, f) /\ Cong(v * R, g)
    BY Images
  <2> HIDE DEF f, g, u, v, z
  <2>3. Right(z, u + v)
    BY <1>1, <2>1, <2>2, LongMSum
  <2> QED
    BY <2>3 DEF z, u, v
<1> QED
  BY <1>2, <1>3, <1>4, <1>5, <1>6, Shapes DEF IsLong

LEMMA Subtracts ==
  ASSUME NEW a, NEW b, WellFormed(a), WellFormed(b)
  PROVE  Right(Fr_sub(a, b, {}), Number(a) - Number(b))
<1> DEFINE u == Number(a)
           v == Number(b)
           s == a.shortVal
           t == b.shortVal
           z == Fr_sub(a, b, {})
<1>1. /\ u \in Residues /\ v \in Residues /\ u \in Int /\ v \in Int /\ u - v \in Int
      /\ Cong(u, u) /\ Cong(v, v)
  <2>1. u \in Residues /\ v \in Residues /\ u \in Int /\ v \in Int
    BY Plain
  <2> HIDE DEF u, v
  <2> QED
    BY <2>1, CongSelf
<1>2. CASE ~IsLong(a) /\ ~IsLong(b)
  <2>1. /\ s \in Int /\ t \in Int /\ Cong(s, u) /\ Cong(t, v)
        /\ -ShortBound <= s /\ s < ShortBound /\ -ShortBound <= t /\ t < ShortBound
    BY <1>2, Plain
  <2>2. z = OfInt(s - t)
    BY <1>2 DEF Fr_sub, IsLong
  <2> HIDE DEF u, v, s, t, z
  <2>3. s - t \in Int /\ -Q < s - t /\ s - t < Q
    BY <2>1, Sizes
  <2>4. Cong(s - t, u - v)
    BY <1>1, <2>1, CongAdd
  <2>5. Right(z, s - t)
    BY <2>2, <2>3, IntIs
  <2>6. Right(z, u - v)
    BY <1>1, <2>3, <2>4, <2>5, RightSame
  <2> QED
    BY <2>6 DEF z, u, v
<1>3. CASE a.type = "long" /\ ~IsLong(b)
  <2> DEFINE k == -t
  <2>1. /\ z = Long(AddShort(u, k)) /\ t \in Int /\ -Q < t /\ t < Q /\ Cong(t, v)
    BY <1>3, Plain DEF Fr_sub, IsLong
  <2> HIDE DEF u, v, s, t, z
  <2>2. k \in Int /\ -Q < k /\ k < Q /\ u + k = u - t /\ u - t \in Int
    BY <1>1, <2>1, Sizes
  <2> HIDE DEF k
  <2>3. Right(z, u + k) /\ Cong(u - t, u - v)
    BY <1>1, <2>1, <2>2, ShortAdded, CongAdd
  <2>4. Right(z, u - t)
    BY <2>2, <2>3
  <2> QED
    BY <1>1, <2>2, <2>3, <2>4, RightSame DEF z, u, v
<1>4. CASE ~IsLong(a) /\ b.type = "long"
  <2>1. /\ z = Long(IF s >= 0 THEN rawSub(s, v) ELSE rawSub(Q - (-s), v))
        /\ s \in Int /\ -Q < s /\ s < Q /\ Cong(s, u)
    BY <1>4, Plain DEF Fr_sub, IsLong, rawNegLS
  <2> HIDE DEF u, v, s, t, z
  <2>2. CASE s >= 0
    <3>1. s \in Residues /\ z = Long(rawSub(s, v))
      BY <2>1, <2>2, Sizes
    <3> QED
      BY <1>1, <2>1, <3>1, LongSum DEF z, u, v
  <2>3. CASE s < 0
    <3> DEFINE k == Q - (-s)
    <3>1. k \in Residues /\ k \in Int /\ k = s + Q /\ z = Long(rawSub(k, v))
      BY <2>1, <2>3, Sizes
    <3>2. Cong(s + Q, s)
      BY <2>1, CongQ
    <3> HIDE DEF k
    <3>3. Cong(k, u)
      BY <1>1, <2>1, <3>1, <3>2, CongTrans
    <3> QED
      BY <1>1, <3>1, <3>3, LongSum DEF z, u, v
  <2> QED
    BY <2>1, <2>2, <2>3
<1>5. CASE a.type = "long" /\ b.type = "long"
  <2>1. z = Long(rawSub(u, v))
    BY <1>5, Plain DEF Fr_sub, IsLong
  <2> HIDE DEF u, v, z
  <2>2. Right(z, u - v)
    BY <1>1, <2>1, LongSum
  <2> QED
    BY <2>2 DEF z, u, v
<1>6. CASE a.type = "longM" \/ b.type = "longM"
  <2> DEFINE f == Montgomery(a, 1, {})
             g == Montgomery(b, 2, {})
  <2>1. z = LongM(rawSub(f, g))
    BY <1>6 DEF Fr_sub, IsLong
  <2>2. f \in Residues /\ g \in Residues /\ Cong(u * R, f) /\ Cong(v * R, g)
    BY Images
  <2> HIDE DEF f, g, u, v, z
  <2>3. Right(z, u - v)
    BY <1>1, <2>1, <2>2, LongMSum
  <2> QED
    BY <2>3 DEF z, u, v
<1> QED
  BY <1>2, <1>3, <1>4, <1>5, <1>6, Shapes DEF IsLong

-----------------------------------------------------------------------------
(* Products                                                                *)

LEMMA ImageOf ==
  ASSUME NEW e, WellFormed(e), IsMont(e), NEW c \in Int, Cong(c * R, e.longVal)
  PROVE  Right(e, c)
<1> DEFINE n == Number(e)
           v == e.longVal
<1>1. n \in Residues /\ v \in Residues /\ Cong(n * R, v) /\ Cong(c * R, v)
  BY MontNumber
<1>2. WellFormed(e)
  OBVIOUS
<1> HIDE DEF n, v
<1>3. n \in Int /\ v \in Int /\ n * R \in Int /\ c * R \in Int
  BY <1>1, Sizes
<1>4. Cong(v, c * R)
  BY <1>1, <1>3, CongSym
<1>5. Cong(n * R, c * R)
  BY <1>1, <1>3, <1>4, CongTrans
<1>6. n = c % Q
  BY <1>1, <1>3, <1>5, CongCancel, CongMod
<1> QED
  BY <1>2, <1>6 DEF n, Right

LEMMA Negates ==
  ASSUME NEW a, WellFormed(a)
  PROVE  Right(Fr_neg(a), -Number(a))
<1> DEFINE u == Number(a)
           v == a.longVal
           z == Fr_neg(a)
           w == rawNeg(v)
           s == a.shortVal
           zero == 0
<1>1. u \in Residues /\ u \in Int /\ -u \in Int /\ zero \in Int /\ zero - u = -u
  BY Plain
<1>2. Cong(zero, zero)
  BY <1>1, CongSelf
<1>3. CASE ~IsLong(a)
  <2>1. /\ s \in Int /\ Cong(s, u) /\ -ShortBound <= s /\ s < ShortBound
        /\ z = OfInt(-s)
    BY <1>3, Plain DEF Fr_neg
  <2> HIDE DEF u, s, z, zero
  <2>2. -s \in Int /\ -Q < -s /\ -s < Q /\ zero - s = -s
    BY <2>1, Sizes DEF zero
  <2>3. Cong(zero - s, zero - u)
    BY <1>1, <1>2, <2>1, CongAdd
  <2>4. Right(z, -s)
    BY <2>1, <2>2, IntIs
  <2>5. Cong(-s, -u)
    BY <1>1, <2>2, <2>3
  <2> QED
    BY <1>1, <2>2, <2>4, <2>5, RightSame DEF z, u
<1>4. CASE IsLong(a)
  <2>1. v \in Residues /\ a \in Element /\ a.type \in {"long", "longM"} /\ v \in Int
    BY <1>4, Shapes DEF IsLong, WellFormed
  <2>2. z = [a EXCEPT !.longVal = w]
    BY <1>4 DEF Fr_neg
  <2>3. w \in Residues /\ Cong(w, -v)
    BY <2>1, RawNeg
  <2>4. w \in Int /\ w \in 0 .. R - 1 /\ w < Q
    <3> HIDE DEF w
    <3> QED
      BY <2>3, Sizes
  <2>5. /\ z \in Element /\ z.type = a.type /\ z.longVal = w
    <3> HIDE DEF w, z
    <3> QED
      BY <2>1, <2>2, <2>4 DEF Element
  <2>6. WellFormed(z)
    <3> HIDE DEF w, z
    <3> QED
      BY <2>1, <2>4, <2>5 DEF WellFormed
  <2>7. CASE a.type = "long"
    <3>1. v = u /\ Number(z) = w
      BY <2>5, <2>6, <2>7, LongNumber
    <3> HIDE DEF u, v, w, z
    <3>2. w = (-u) % Q
      BY <1>1, <2>3, <3>1, CongMod
    <3> QED
      BY <2>6, <3>1, <3>2 DEF Right, z, u
  <2>8. CASE a.type = "longM"
    <3>1. Cong(u * R, v) /\ IsMont(z)
      BY <2>5, <2>8, MontNumber DEF IsMont
    <3> DEFINE ur == u * R
    <3>2. Cong(ur, v) /\ ur \in Int /\ zero - ur = (-u) * R /\ zero - v = -v
      BY <1>1, <2>1, <3>1, Sizes
    <3> HIDE DEF u, v, w, z, ur, zero
    <3>3. Cong(zero - ur, zero - v)
      BY <1>2, <1>1, <2>1, <3>2, CongAdd
    <3>4. Cong(-v, w) /\ -v \in Int
      BY <2>1, <2>3, <2>4, CongSym
    <3>5. Cong(zero - ur, w) /\ zero - ur \in Int
      BY <1>1, <2>4, <3>2, <3>3, <3>4, CongTrans
    <3>6. Cong((-u) * R, z.longVal)
      BY <2>5, <3>2, <3>5
    <3> QED
      BY <1>1, <2>6, <3>1, <3>6, ImageOf DEF z, u
  <2> QED
    BY <2>1, <2>7, <2>8
<1> QED
  BY <1>3, <1>4

(* The quotient of a product of a long and an element by R.                *)
LEMMA MultiplyBy ==
  ASSUME NEW v \in Residues, NEW e, WellFormed(e), ~IsMont(e)
  PROVE  MulBy(v, e) \in Residues /\ Cong(MulBy(v, e) * R, v * Number(e))
<1> DEFINE n == Number(e)
           s == e.shortVal
           w == MulBy(v, e)
<1>1. n \in Residues /\ n \in Int /\ v \in Int /\ R \in Int
  BY Plain, Sizes
<1>2. CASE e.type = "long"
  <2>1. w = rawMMul(v, n)
    BY <1>2, Plain DEF MulBy, IsLong
  <2> HIDE DEF n, w
  <2>2. w \in Residues /\ Cong(w * R, v * n)
    BY <1>1, <2>1, MMul
  <2> QED
    BY <2>2 DEF w, n
<1>3. CASE e.type = "short"
  <2>1. /\ s \in Int /\ Cong(s, n) /\ -Q < s /\ s < Q
        /\ w = IF s >= 0 THEN rawMMul(v, s) ELSE rawNeg(rawMMul(v, -s))
    BY <1>3, Plain DEF MulBy, IsLong
  <2> HIDE DEF n, s, w
  <2>2. Cong(v * s, v * n) /\ v * s \in Int /\ v * n \in Int
    <3>1. Cong(v * s, v * n)
      BY <1>1, <2>1, CongTimes
    <3> QED
      BY <1>1, <2>1, <3>1
  <2>3. CASE s >= 0
    <3>1. s \in Residues /\ w = rawMMul(v, s)
      BY <2>1, <2>3, Sizes
    <3>2. w \in Residues /\ Cong(w * R, v * s)
      BY <3>1, MMul
    <3>3. w * R \in Int
      BY <1>1, <3>2, Sizes
    <3> QED
      BY <2>2, <3>2, <3>3, CongTrans DEF w, n
  <2>4. CASE s < 0
    <3> DEFINE k == -s
               z == rawMMul(v, k)
    <3>1. k \in Residues /\ w = rawNeg(z) /\ k \in Int
      BY <2>1, <2>4, Sizes
    <3> HIDE DEF k
    <3>2. z \in Residues /\ Cong(z * R, v * k)
      BY <3>1, MMul
    <3> HIDE DEF z
    <3>3. w \in Residues /\ Cong(w, -z) /\ z \in Int /\ w \in Int
      BY <3>1, <3>2, RawNeg, Sizes
    <3> DEFINE zr == z * R
               vk == v * k
               zero == 0
    <3>4. /\ zr \in Int /\ vk \in Int /\ zero \in Int /\ Cong(zr, vk)
          /\ zero - zr = (-z) * R /\ zero - vk = v * s /\ -z \in Int
          /\ (-z) * R \in Int /\ w * R \in Int
      BY <1>1, <2>1, <3>1, <3>2, <3>3 DEF k
    <3>5. Cong(zero, zero)
      BY <3>4, CongSelf
    <3> HIDE DEF zr, vk, zero
    <3>6. Cong(zero - zr, zero - vk)
      BY <3>4, <3>5, CongAdd
    <3>7. Cong(w * R, (-z) * R)
      BY <1>1, <3>3, <3>4, CongTimes
    <3>8. Cong((-z) * R, v * s)
      BY <3>4, <3>6
    <3>9. Cong(w * R, v * s)
      BY <2>2, <3>4, <3>7, <3>8, CongTrans
    <3>10. Cong(w * R, v * n)
      BY <2>2, <3>4, <3>9, CongTrans
    <3> QED
      BY <3>3, <3>10 DEF w, n
  <2> QED
    BY <2>1, <2>3, <2>4
<1> QED
  BY <1>2, <1>3, Shapes DEF IsMont

(* Two images: one division by R is left over, as it must be.              *)
LEMMA ImageTimesImage ==
  ASSUME NEW f \in Residues, NEW g \in Residues, NEW c \in Int, NEW d \in Int,
         Cong(c * R, f), Cong(d * R, g)
  PROVE  Right(LongM(rawMMul(f, g)), c * d)
<1> DEFINE w == rawMMul(f, g)
           cr == c * R
           dr == d * R
           fg == f * g
           cd == c * d
<1>1. /\ f \in Int /\ g \in Int /\ cr \in Int /\ dr \in Int /\ fg \in Int /\ cd \in Int /\ R \in Int
      /\ cr * dr = (cd * R) * R /\ cr * dr \in Int /\ cd * R \in Int
  <2>1. f \in Int /\ g \in Int /\ R \in Int
    BY Sizes
  <2> QED
    BY <2>1
<1>2. w \in Residues /\ Cong(w * R, fg)
  BY MMul
<1>3. Cong(cr, f) /\ Cong(dr, g)
  OBVIOUS
<1> HIDE DEF w, cr, dr
<1>4. Cong(cr * dr, fg)
  BY <1>1, <1>3, CongMul
<1> HIDE DEF fg, cd
<1>5. w \in Int /\ w * R \in Int
  BY <1>1, <1>2, Sizes
<1>6. Cong(fg, w * R)
  BY <1>1, <1>2, <1>5, CongSym
<1>7. Cong((cd * R) * R, w * R) /\ (cd * R) * R \in Int
  BY <1>1, <1>4, <1>5, <1>6, CongTrans
<1>8. Cong(cd * R, w)
  BY <1>1, <1>5, <1>7, CongCancel
<1>9. Right(LongM(w), cd)
  BY <1>1, <1>2, <1>8, MakeLongM
<1> QED
  BY <1>9 DEF w, cd

(* An image and a number: what is left is the product itself.              *)
LEMMA ImageTimesNumber ==
  ASSUME NEW f \in Residues, NEW c \in Int, Cong(c * R, f), NEW e, WellFormed(e), ~IsMont(e)
  PROVE  Right(Long(MulBy(f, e)), c * Number(e))
<1> DEFINE w == MulBy(f, e)
           n == Number(e)
           cr == c * R
           cn == c * n
<1>1. w \in Residues /\ Cong(w * R, f * n)
  BY MultiplyBy
<1>2. n \in Int /\ f \in Int /\ R \in Int
  BY Plain, Sizes
<1>3. Cong(cr, f)
  OBVIOUS
<1> HIDE DEF w, n
<1>4. cr \in Int /\ cn \in Int /\ cr * n = cn * R /\ cn * R \in Int /\ f * n \in Int
  BY <1>2
<1> HIDE DEF cr
<1>5. Cong(cr * n, f * n)
  BY <1>2, <1>3, <1>4, CongTimes
<1> HIDE DEF cn
<1>6. w \in Int /\ w * R \in Int
  BY <1>1, <1>2, Sizes
<1>7. Cong(f * n, cn * R)
  BY <1>4, <1>5, CongSym
<1>8. Cong(w * R, cn * R)
  BY <1>1, <1>4, <1>6, <1>7, CongTrans
<1>9. Cong(w, cn)
  BY <1>4, <1>6, <1>8, CongCancel
<1>10. Right(Long(w), cn)
  BY <1>1, <1>4, <1>9, MakeLongOf
<1> QED
  BY <1>10 DEF w, cn, n

(* What a product divided by R becomes when it is multiplied by R3.        *)
LEMMA TwoNumbers ==
  ASSUME NEW w \in Residues, NEW c \in Int, Cong(w * R, c)
  PROVE  Right(LongM(rawMMul(w, R3)), c)
<1> DEFINE z == rawMMul(w, R3)
           wr == w * R
<1>1. z \in Residues /\ Cong(z, wr * R)
  BY TimesR3
<1>2. Cong(wr, c) /\ wr \in Int /\ R \in Int
  BY Sizes
<1> HIDE DEF z, wr
<1>3. z \in Int /\ wr * R \in Int /\ c * R \in Int
  BY <1>1, <1>2, Sizes
<1>4. Cong(wr * R, c * R)
  BY <1>2, CongTimes
<1>5. Cong(z, c * R)
  BY <1>1, <1>3, <1>4, CongTrans
<1>6. Cong(c * R, z)
  BY <1>3, <1>5, CongSym
<1> QED
  BY <1>1, <1>6, MakeLongM DEF z

(* A product of two shorts is a long.                                      *)
LEMMA ShortProduct ==
  ASSUME NEW s \in Int, NEW t \in Int, NEW u \in Int, NEW v \in Int, Cong(s, u), Cong(t, v),
         -ShortBound <= s, s < ShortBound, -ShortBound <= t, t < ShortBound
  PROVE  Right(rawCopyS2L(s * t), u * v)
<1> DEFINE b == ShortBound
           p == s * t
<1>1. b \in Nat /\ b * b < Q /\ -b <= s /\ s <= b /\ -b <= t /\ t <= b
  BY Sizes
<1> HIDE DEF b
<1>2. p <= b * b /\ -(b * b) <= p /\ p \in Int /\ b * b \in Int /\ u * v \in Int
  BY <1>1
<1>3. Cong(p, u * v)
  BY CongMul
<1> HIDE DEF p
<1>4. -Q < p /\ p < Q
  BY <1>1, <1>2, Sizes
<1>5. Right(rawCopyS2L(p), p)
  BY <1>2, <1>4, CopyS2L
<1> QED
  BY <1>2, <1>3, <1>5, RightSame DEF p

LEMMA Multiplies ==
  ASSUME NEW a, NEW b, WellFormed(a), WellFormed(b)
  PROVE  Right(Fr_mul(a, b), Number(a) * Number(b))
<1> DEFINE u == Number(a)
           v == Number(b)
           z == Fr_mul(a, b)
<1>1. u \in Residues /\ v \in Residues /\ u \in Int /\ v \in Int
  BY Plain
<1>2. u * v = v * u /\ u * v \in Int
  <2> HIDE DEF u, v
  <2> QED
    BY <1>1
<1>3. CASE ~IsLong(a) /\ ~IsLong(b)
  <2>1. z = rawCopyS2L(a.shortVal * b.shortVal)
    BY <1>3 DEF Fr_mul, IsLong, IsMont
  <2> QED
    BY <1>1, <1>3, <2>1, Plain, ShortProduct
<1>4. CASE (IsLong(a) \/ IsLong(b)) /\ IsMont(a) /\ IsMont(b)
  <2>1. z = LongM(rawMMul(a.longVal, b.longVal))
    BY <1>4 DEF Fr_mul, IsLong, IsMont
  <2>2. /\ a.longVal \in Residues /\ Cong(u * R, a.longVal)
        /\ b.longVal \in Residues /\ Cong(v * R, b.longVal)
    BY <1>4, MontNumber
  <2> HIDE DEF u, v, z
  <2>3. Right(z, u * v)
    BY <1>1, <2>1, <2>2, ImageTimesImage
  <2> QED
    BY <2>3 DEF z, u, v
<1>5. CASE (IsLong(a) \/ IsLong(b)) /\ IsMont(a) /\ ~IsMont(b)
  <2>1. z = Long(MulBy(a.longVal, b))
    BY <1>5 DEF Fr_mul, IsLong, IsMont
  <2>2. a.longVal \in Residues /\ Cong(u * R, a.longVal)
    BY <1>5, MontNumber
  <2> HIDE DEF u, z
  <2>3. Right(z, u * v)
    BY <1>1, <1>5, <2>1, <2>2, ImageTimesNumber
  <2> QED
    BY <2>3 DEF z, u
<1>6. CASE (IsLong(a) \/ IsLong(b)) /\ ~IsMont(a) /\ IsMont(b)
  <2>1. z = Long(MulBy(b.longVal, a))
    BY <1>6 DEF Fr_mul, IsLong, IsMont
  <2>2. b.longVal \in Residues /\ Cong(v * R, b.longVal)
    BY <1>6, MontNumber
  <2> HIDE DEF v, z
  <2>3. Right(z, v * u)
    BY <1>1, <1>6, <2>1, <2>2, ImageTimesNumber
  <2> HIDE DEF u
  <2>4. Right(z, u * v)
    BY <1>2, <2>3
  <2> QED
    BY <2>4 DEF z, u, v
<1>7. CASE a.type = "long" /\ ~IsMont(b)
  <2> DEFINE w == MulBy(u, b)
  <2>1. z = LongM(rawMMul(w, R3))
    BY <1>7, Plain DEF Fr_mul, IsLong, IsMont
  <2>2. w \in Residues /\ Cong(w * R, u * v)
    BY <1>1, <1>7, MultiplyBy
  <2> HIDE DEF u, v, w, z
  <2>3. Right(z, u * v)
    BY <1>2, <2>1, <2>2, TwoNumbers
  <2> QED
    BY <2>3 DEF z, u, v
<1>8. CASE a.type = "short" /\ b.type = "long"
  <2> DEFINE w == MulBy(v, a)
  <2>1. z = LongM(rawMMul(w, R3)) /\ ~IsMont(a)
    BY <1>8, Plain DEF Fr_mul, IsLong, IsMont
  <2>2. w \in Residues /\ Cong(w * R, v * u)
    BY <1>1, <2>1, MultiplyBy
  <2> HIDE DEF u, v, w, z
  <2>3. Right(z, u * v)
    BY <1>2, <2>1, <2>2, TwoNumbers
  <2> QED
    BY <2>3 DEF z, u, v
<1> QED
  BY <1>3, <1>4, <1>5, <1>6, <1>7, <1>8, Shapes DEF IsLong, IsMont

LEMMA Squares ==
  ASSUME NEW a, WellFormed(a)
  PROVE  Right(Fr_square(a), Number(a) * Number(a))
<1> DEFINE u == Number(a)
           z == Fr_square(a)
<1>1. u \in Residues /\ u \in Int
  BY Plain
<1>2. CASE ~IsLong(a)
  <2>1. z = rawCopyS2L(a.shortVal * a.shortVal)
    BY <1>2 DEF Fr_square, IsLong
  <2> QED
    BY <1>1, <1>2, <2>1, Plain, ShortProduct
<1>3. CASE a.type = "longM"
  <2>1. z = LongM(rawMMul(a.longVal, a.longVal))
    BY <1>3 DEF Fr_square, IsLong
  <2>2. a.longVal \in Residues /\ Cong(u * R, a.longVal)
    BY <1>3, MontNumber DEF IsMont
  <2> HIDE DEF u, z
  <2>3. Right(z, u * u)
    BY <1>1, <2>1, <2>2, ImageTimesImage
  <2> QED
    BY <2>3 DEF z, u
<1>4. CASE a.type = "long"
  <2> DEFINE w == rawMMul(u, u)
  <2>1. z = LongM(rawMMul(w, R3))
    BY <1>4, Plain DEF Fr_square, IsLong
  <2>2. w \in Residues /\ Cong(w * R, u * u)
    BY <1>1, MMul
  <2> HIDE DEF u, w, z
  <2>3. u * u \in Int
    BY <1>1
  <2>4. Right(z, u * u)
    BY <2>1, <2>2, <2>3, TwoNumbers
  <2> QED
    BY <2>4 DEF z, u
<1> QED
  BY <1>2, <1>3, <1>4, Shapes DEF IsLong

-----------------------------------------------------------------------------
(* Comparisons and truth                                                   *)

LEMMA HalfIs == half \in Int /\ Q = 2 * half + 1
<1> DEFINE h == Q \div 2
<1>1. Q \in Nat /\ Q % 2 = 1
  BY FieldAssumption
<1>2. Q = 2 * h + 1 /\ h \in Int
  BY <1>1
<1>3. half = (Q - 1) \div 2
  BY DEF half
<1> HIDE DEF h
<1>4. Q - 1 = 2 * h
  BY <1>1, <1>2
<1>5. half = h
  BY <1>2, <1>3, <1>4
<1> QED
  BY <1>2, <1>5

LEMMA SignedIs ==
  ASSUME NEW u \in Residues
  PROVE  Signed(u) = SignedNumber(u) /\ SignedNumber(u) \in Int
BY HalfIs, Sizes DEF Signed, SignedNumber

(* Different numbers have different signed values.                         *)
LEMMA SignedEqual ==
  ASSUME NEW u \in Residues, NEW v \in Residues
  PROVE  u = v <=> SignedNumber(u) = SignedNumber(v)
BY Sizes DEF SignedNumber

LEMMA ShortSigned ==
  ASSUME NEW e, WellFormed(e), ~IsLong(e)
  PROVE  SignedNumber(Number(e)) = e.shortVal
<1> DEFINE n == Number(e)
           s == e.shortVal
<1>1. /\ n \in Int /\ s \in Int /\ -ShortBound <= s /\ s < ShortBound
      /\ s >= 0 => n = s
      /\ s < 0 => n = Q + s
  BY Plain, ShortNumber
<1> HIDE DEF n, s
<1>2. SignedNumber(n) = s
  BY <1>1, Sizes DEF SignedNumber
<1> QED
  BY <1>2 DEF n, s

LEMMA Orders ==
  ASSUME NEW a, NEW b, WellFormed(a), WellFormed(b)
  PROVE  /\ Fr_rlt(a, b) <=> SignedNumber(Number(a)) < SignedNumber(Number(b))
         /\ Fr_rgt(a, b) <=> SignedNumber(Number(a)) > SignedNumber(Number(b))
<1> DEFINE u == Number(a)
           v == Number(b)
<1>1. u \in Residues /\ v \in Residues
  BY Plain
<1>2. CASE ~IsLong(a) /\ ~IsLong(b)
  BY <1>2, ShortSigned DEF Fr_rlt, Fr_rgt
<1>3. CASE IsLong(a) \/ IsLong(b)
  <2>1. Fr_toLongNormal(a).longVal = u /\ Fr_toLongNormal(b).longVal = v
    BY ToLongNormal
  <2>2. Signed(u) = SignedNumber(u) /\ Signed(v) = SignedNumber(v)
    BY <1>1, SignedIs
  <2> QED
    BY <1>3, <2>1, <2>2 DEF Fr_rlt, Fr_rgt
<1> QED
  BY <1>2, <1>3

LEMMA Equal ==
  ASSUME NEW a, NEW b, WellFormed(a), WellFormed(b)
  PROVE  Fr_req(a, b) <=> Number(a) = Number(b)
<1> DEFINE u == Number(a)
           v == Number(b)
<1>1. u \in Residues /\ v \in Residues /\ u \in Int /\ v \in Int
  BY Plain
<1>2. CASE ~IsLong(a) /\ ~IsLong(b)
  <2>1. Fr_req(a, b) <=> a.shortVal = b.shortVal
    BY <1>2 DEF Fr_req, IsLong
  <2>2. SignedNumber(u) = a.shortVal /\ SignedNumber(v) = b.shortVal
    BY <1>2, ShortSigned
  <2> QED
    BY <1>1, <2>1, <2>2, SignedEqual
<1>3. CASE a.type = "longM" \/ b.type = "longM"
  <2> DEFINE f == Fr_toMontgomery(a).longVal
             g == Fr_toMontgomery(b).longVal
  <2>1. Fr_req(a, b) <=> f = g
    BY <1>3 DEF Fr_req, IsLong
  <2>2. f \in Residues /\ g \in Residues /\ Cong(u * R, f) /\ Cong(v * R, g)
    BY ToMontgomery
  <2> HIDE DEF u, v, f, g
  <2>3. f \in Int /\ g \in Int /\ u * R \in Int /\ v * R \in Int
    BY <1>1, <2>2, Sizes
  <2>4. ASSUME f = g PROVE u = v
    <3>1. Cong(g, v * R)
      BY <2>2, <2>3, CongSym
    <3>2. Cong(u * R, v * R)
      BY <2>2, <2>3, <2>4, <3>1, CongTrans
    <3> QED
      BY <1>1, <3>2, CongCancel, CongUnique
  <2>5. ASSUME u = v PROVE f = g
    <3>1. Cong(f, u * R)
      BY <2>2, <2>3, CongSym
    <3>2. Cong(f, g)
      BY <2>2, <2>3, <2>5, <3>1, CongTrans
    <3> QED
      BY <2>2, <3>2, CongUnique
  <2> QED
    BY <2>1, <2>4, <2>5 DEF u, v
<1>4. CASE (IsLong(a) \/ IsLong(b)) /\ a.type # "longM" /\ b.type # "longM"
  <2>1. Fr_req(a, b) <=> Fr_toLongNormal(a).longVal = Fr_toLongNormal(b).longVal
    BY <1>4 DEF Fr_req, IsLong
  <2> QED
    BY <2>1, ToLongNormal
<1> QED
  BY <1>2, <1>3, <1>4

LEMMA NotZero ==
  ASSUME NEW a, WellFormed(a)
  PROVE  Fr_isTrue(a) <=> Number(a) # 0
<1> DEFINE u == Number(a)
           w == a.longVal
<1>1. u \in Residues /\ u \in Int
  BY Plain
<1>2. CASE ~IsLong(a)
  <2>1. SignedNumber(u) = a.shortVal
    BY <1>2, ShortSigned
  <2>2. SignedNumber(u) = 0 <=> u = 0
    BY <1>1, Sizes DEF SignedNumber
  <2> QED
    BY <1>2, <2>1, <2>2 DEF Fr_isTrue
<1>3. CASE a.type = "long"
  BY <1>3, LongNumber DEF Fr_isTrue
<1>4. CASE a.type = "longM"
  <2> DEFINE zero == 0
  <2>1. w \in Residues /\ Cong(u * R, w) /\ (Fr_isTrue(a) <=> w # 0)
    BY <1>4, MontNumber DEF IsMont, IsLong, Fr_isTrue
  <2> HIDE DEF u, w
  <2>2. /\ w \in Int /\ u * R \in Int /\ zero \in Int /\ zero * R = zero /\ zero \in Residues
    BY <1>1, <2>1, Sizes
  <2> HIDE DEF zero
  <2>3. ASSUME w = zero PROVE u = zero
    <3>1. Cong(u * R, zero * R)
      BY <2>1, <2>2, <2>3
    <3> QED
      BY <1>1, <2>2, <3>1, CongCancel, CongUnique
  <2>4. ASSUME u = zero PROVE w = zero
    <3>1. Cong(zero, w)
      BY <2>1, <2>2, <2>4
    <3> QED
      BY <2>1, <2>2, <3>1, CongUnique
  <2> QED
    BY <2>1, <2>3, <2>4 DEF u, w, zero
<1> QED
  BY <1>2, <1>3, <1>4, Shapes DEF IsLong

LEMMA TruthIs ==
  ASSUME NEW p \in BOOLEAN
  PROVE  WellFormed(Truth(p)) /\ Number(Truth(p)) = Bool(p)
<1> DEFINE one == 1
           zero == 0
<1>1. one \in Shorts /\ zero \in Shorts /\ one % Q = one /\ zero % Q = zero
  <2>1. one \in 0 .. Q - 1 /\ zero \in 0 .. Q - 1 /\ one \in Shorts /\ zero \in Shorts
    BY Sizes
  <2> HIDE DEF one, zero
  <2> QED
    BY <2>1, Sizes, SmallMod
<1> HIDE DEF one, zero
<1>2. Right(Short(one), one) /\ Right(Short(zero), zero)
  BY <1>1, MakeShort
<1>3. /\ WellFormed(Short(one)) /\ Number(Short(one)) = one
      /\ WellFormed(Short(zero)) /\ Number(Short(zero)) = zero
  BY <1>1, <1>2 DEF Right
<1>4. Truth(p) = Short(IF p THEN one ELSE zero) /\ Bool(p) = IF p THEN one ELSE zero
  BY DEF Truth, Bool, one, zero
<1> QED
  BY <1>3, <1>4
-----------------------------------------------------------------------------
(* Bits                                                                    *)

(* The bits up to n of a number that a table of bits makes of two.         *)
LowBits(table, u, v, low) ==
  /\ low \in [0 .. NBits -> Nat] /\ low[0] = 0
  /\ \A n \in 1 .. NBits :
       low[n] = low[n - 1] + table[<<Bit(u, n - 1), Bit(v, n - 1)>>] * Pow2[n - 1]

LEMMA TwoPowers ==
  /\ NBits \in 0 .. Top /\ ShortBits \in 0 .. NBits /\ NBits \in Nat
  /\ \A n \in 0 .. NBits : Pow2[n] \in Nat \ {0} /\ Pow2[n] \in Int /\ n \in 0 .. Top
  /\ \A n \in 1 .. NBits : Pow2[n] = 2 * Pow2[n - 1] /\ n - 1 \in 0 .. NBits
<1>1. NBits \in 0 .. Top /\ ShortBits \in 0 .. NBits /\ NBits \in Nat /\ Top \in Nat
  BY FieldAssumption, Powers DEF Top
<1> QED
  BY <1>1, Powers

LEMMA BitIs ==
  ASSUME NEW u \in Nat, NEW n \in 0 .. NBits
  PROVE  Bit(u, n) \in Bits /\ (u < Pow2[n] => Bit(u, n) = 0)
<1> DEFINE p == Pow2[n]
           d == u \div p
<1>1. p \in Nat \ {0}
  BY TwoPowers
<1> HIDE DEF p
<1>2. d \in Int /\ u = p * d + (u % p) /\ u % p \in 0 .. p - 1
  BY <1>1, DivMod
<1>3. u < p => d = 0
  BY <1>1
<1> HIDE DEF d
<1>4. d % 2 \in {0, 1} /\ (d = 0 => d % 2 = 0)
  BY <1>2
<1>5. Bit(u, n) = d % 2
  BY DEF Bit, d, p
<1> QED
  BY <1>3, <1>4, <1>5 DEF Bits, p

LEMMA LowBitsExist ==
  ASSUME NEW table \in [Bits \X Bits -> Bits], NEW u \in Nat, NEW v \in Nat
  PROVE  \E low : LowBits(table, u, v, low) /\ BitByBit(table, u, v) = low[NBits]
<1> DEFINE part(n) == table[<<Bit(u, n - 1), Bit(v, n - 1)>>] * Pow2[n - 1]
           step == [p \in Nat \X (1 .. NBits) |-> p[1] + part(p[2])]
<1>1. \A n \in 1 .. NBits : part(n) \in Nat
  <2> TAKE n \in 1 .. NBits
  <2>1. n - 1 \in 0 .. NBits /\ Pow2[n - 1] \in Nat
    BY TwoPowers
  <2>2. Bit(u, n - 1) \in Bits /\ Bit(v, n - 1) \in Bits
    BY <2>1, BitIs
  <2>3. table[<<Bit(u, n - 1), Bit(v, n - 1)>>] \in Bits
    BY <2>2
  <2> QED
    BY <2>1, <2>3 DEF Bits
<1> HIDE DEF part
<1>2. NBits \in Nat /\ 0 \in Nat /\ step \in StepsOn(NBits, Nat)
  BY <1>1, TwoPowers DEF StepsOn
<1>3. \A m \in Nat, n \in 1 .. NBits : step[<<m, n>>] = m + part(n)
  OBVIOUS
<1> HIDE DEF step
<1>4. PICK low \in [0 .. NBits -> Nat] : Recursive(low, NBits, 0, step)
  BY <1>2, RecursionExists, Zenon
<1>5. low[0] = 0 /\ \A n \in 1 .. NBits : low[n] = low[n - 1] + part(n)
  <2>1. low[0] = 0 /\ \A n \in 1 .. NBits : low[n] = step[<<low[n - 1], n>>]
    BY <1>4 DEF Recursive
  <2>2. \A n \in 1 .. NBits : low[n - 1] \in Nat
    BY <1>2, <1>4
  <2> QED
    BY <1>3, <2>1, <2>2
<1> DEFINE F(f) == f = [n \in 0 .. NBits |-> IF n = 0 THEN 0 ELSE f[n - 1] + part(n)]
           f0 == CHOOSE f : F(f)
<1>6. F(low)
  BY <1>2, <1>4, <1>5
<1>7. F(f0)
  BY <1>6
<1>8. BitByBit(table, u, v) = f0[NBits]
  BY DEF BitByBit, part
<1> HIDE DEF f0
<1>9. f0[0] = 0 /\ \A n \in 1 .. NBits : f0[n] = f0[n - 1] + part(n)
  BY <1>2, <1>7
<1>10. \A n \in 0 .. NBits : f0[n] = low[n]
  <2> DEFINE T == {n \in 0 .. NBits : f0[n] = low[n]}
  <2>1. 0 \in T
    BY <1>2, <1>5, <1>9
  <2>2. ASSUME NEW n \in 1 .. NBits, n - 1 \in T PROVE n \in T
    BY <1>5, <1>9, <2>2
  <2> HIDE DEF T
  <2>3. \A n \in 0 .. NBits : n \in T
    BY <1>2, <2>1, <2>2, IntervalInduction
  <2> QED
    BY <2>3 DEF T
<1>11. BitByBit(table, u, v) = low[NBits]
  BY <1>2, <1>8, <1>10
<1>12. LowBits(table, u, v, low)
  BY <1>4, <1>5 DEF LowBits, part
<1> QED
  BY <1>11, <1>12

(* Bits of numbers below a power of two make a number below it, if two     *)
(* zeros make a zero.                                                      *)
LEMMA BitsBelow ==
  ASSUME NEW table \in [Bits \X Bits -> Bits], table[<<0, 0>>] = 0,
         NEW u \in Nat, NEW v \in Nat, NEW k \in 0 .. NBits, u < Pow2[k], v < Pow2[k]
  PROVE  BitByBit(table, u, v) \in 0 .. Pow2[k] - 1
<1>1. PICK low : LowBits(table, u, v, low) /\ BitByBit(table, u, v) = low[NBits]
  BY LowBitsExist
<1> DEFINE T == {n \in 0 .. NBits : low[n] < Pow2[n] /\ low[n] < Pow2[k]}
<1>2. 0 \in T
  BY <1>1, TwoPowers, Powers DEF LowBits
<1>3. ASSUME NEW n \in 1 .. NBits, n - 1 \in T PROVE n \in T
  <2> DEFINE i == n - 1
             l == low[i]
             p == Pow2[i]
             c == table[<<Bit(u, i), Bit(v, i)>>]
  <2>1. /\ i \in 0 .. NBits /\ l \in Nat /\ l < p /\ l < Pow2[k] /\ p \in Nat \ {0}
        /\ Pow2[n] = 2 * p /\ low[n] = l + c * p /\ n \in 0 .. NBits /\ Pow2[k] \in Nat
    BY <1>1, <1>3, TwoPowers, SMTT(30) DEF LowBits
  <2>2. /\ Bit(u, i) \in Bits /\ (u < p => Bit(u, i) = 0)
        /\ Bit(v, i) \in Bits /\ (v < p => Bit(v, i) = 0)
    BY <2>1, BitIs
  <2>3. c \in {0, 1}
    BY <2>2 DEF Bits
  <2>4. CASE n <= k
    <3>1. Pow2[n] <= Pow2[k]
      BY <2>1, <2>4, TwoPowers, PowerGrows
    <3> HIDE DEF i, l, p, c
    <3>2. l + c * p < 2 * p
      BY <2>1, <2>3
    <3>3. low[n] < Pow2[n] /\ low[n] < Pow2[k]
      BY <2>1, <2>3, <3>1, <3>2
    <3> QED
      BY <2>1, <3>3
  <2>5. CASE n > k
    <3>1. Pow2[k] <= p
      <4>1. i \in k .. Top /\ k \in 0 .. Top
        BY <2>1, <2>5, TwoPowers
      <4> QED
        BY <4>1, PowerGrows
    <3>2. c = 0
      <4>1. u < p /\ v < p
        BY <2>1, <3>1
      <4> QED
        BY <2>2, <4>1
    <3> HIDE DEF i, l, p, c
    <3>3. low[n] = l
      BY <2>1, <3>2
    <3> QED
      BY <2>1, <3>3
  <2> QED
    BY <2>1, <2>4, <2>5
<1> HIDE DEF T
<1>4. \A n \in 0 .. NBits : n \in T
  BY <1>2, <1>3, TwoPowers, IntervalInduction
<1>5. NBits \in T
  BY <1>4, TwoPowers
<1> QED
  BY <1>1, <1>5, TwoPowers DEF T, LowBits

LEMMA MaskedIs ==
  ASSUME NEW z \in Int
  PROVE  Masked(z) \in Residues /\ Masked(z) = (z % Pow2[NBits]) % Q
<1> DEFINE p == Pow2[NBits]
           m == z % p
<1>1. p \in Nat \ {0} /\ p < 2 * Q /\ Masked(z) = IF m >= Q THEN m - Q ELSE m
  BY Sizes, TwoPowers DEF Masked
<1> HIDE DEF p
<1>2. m \in 0 .. p - 1
  BY <1>1, DivMod
<1> HIDE DEF m
<1>3. m \in Int /\ Cong(m, m) /\ Cong(m - Q, m)
  <2>1. m \in Int
    BY <1>2
  <2> QED
    BY <2>1, CongSelf, CongQ
<1>4. Masked(z) \in Residues /\ Cong(Masked(z), m)
  BY <1>1, <1>2, <1>3, Sizes
<1>5. Masked(z) = m % Q
  BY <1>3, <1>4, CongMod
<1> QED
  BY <1>4, <1>5 DEF m, p

(* A number of NBits bits is only reduced.                                 *)
LEMMA MaskedLong ==
  ASSUME NEW z \in 0 .. Pow2[NBits] - 1
  PROVE  Right(Long(Masked(z)), z)
<1> DEFINE p == Pow2[NBits]
           w == Masked(z)
<1>1. z \in Int /\ p \in Nat \ {0} /\ z \in 0 .. p - 1
  BY TwoPowers, Sizes
<1> HIDE DEF p
<1>2. z % p = z
  BY <1>1, SmallMod
<1>3. w \in Residues /\ w = z % Q
  BY <1>1, <1>2, MaskedIs DEF p
<1> HIDE DEF w
<1>4. WellFormed(Long(w)) /\ Number(Long(w)) = w
  BY <1>3, MakeLong DEF Right
<1> QED
  BY <1>3, <1>4 DEF w, Right

LEMMA Tables ==
  \A table \in {And, Or, Xor} : table \in [Bits \X Bits -> Bits] /\ table[<<0, 0>>] = 0
BY DEF And, Or, Xor, Bits

LEMMA BitOperandIs ==
  ASSUME NEW a, NEW b, WellFormed(a), WellFormed(b)
  PROVE  BitOperand(a, b, 1, {}) = Number(a) /\ BitOperand(a, b, 2, {}) = Number(b)
<1>1. Fr_toLongNormal(a).longVal = Number(a) /\ Fr_toLongNormal(b).longVal = Number(b)
  BY ToLongNormal
<1>2. /\ ~IsLong(a) /\ a.shortVal >= 0 => a.shortVal = Number(a)
      /\ ~IsLong(b) /\ b.shortVal >= 0 => b.shortVal = Number(b)
  BY ShortNumber
<1> QED
  BY <1>1, <1>2 DEF BitOperand, Seen

LEMMA BitOpIs ==
  ASSUME NEW table \in {And, Or, Xor}, NEW a, NEW b, WellFormed(a), WellFormed(b)
  PROVE  Right(BitOp(table, a, b, {}), BitByBit(table, Number(a), Number(b)))
<1> DEFINE u == Number(a)
           v == Number(b)
           w == BitByBit(table, u, v)
           z == BitOp(table, a, b, {})
<1>1. u \in Residues /\ v \in Residues /\ u \in Nat /\ v \in Nat
  BY NumberType
<1>2. table \in [Bits \X Bits -> Bits] /\ table[<<0, 0>>] = 0
  BY Tables
<1>3. CASE ~IsLong(a) /\ ~IsLong(b) /\ a.shortVal >= 0 /\ b.shortVal >= 0
  <2>1. u = a.shortVal /\ v = b.shortVal /\ z = Short(w)
    BY <1>3, ShortNumber DEF BitOp
  <2>2. u < ShortBound /\ v < ShortBound
    BY <1>3, <2>1, Plain
  <2> HIDE DEF u, v
  <2>3. w \in 0 .. Pow2[ShortBits] - 1
    BY <1>1, <1>2, <2>2, BitsBelow, TwoPowers DEF ShortBound
  <2>4. w \in Shorts
    <3> HIDE DEF w
    <3> QED
      BY <2>3, Sizes DEF ShortBound
  <2> HIDE DEF w, z
  <2>5. Right(z, w)
    BY <2>1, <2>4, MakeShort
  <2> QED
    BY <2>5 DEF z, w, u, v
<1>4. CASE ~(~IsLong(a) /\ ~IsLong(b) /\ a.shortVal >= 0 /\ b.shortVal >= 0)
  <2>1. z = Long(Masked(w))
    BY <1>4, BitOperandIs DEF BitOp
  <2> HIDE DEF u, v
  <2>2. u < Pow2[NBits] /\ v < Pow2[NBits]
    BY <1>1, Sizes
  <2>3. w \in 0 .. Pow2[NBits] - 1
    <3> DEFINE k == NBits
    <3>1. k \in 0 .. NBits
      BY TwoPowers
    <3>2. u < Pow2[k] /\ v < Pow2[k]
      BY <2>2
    <3> HIDE DEF k
    <3>3. w \in 0 .. Pow2[k] - 1
      BY <1>1, <1>2, <3>1, <3>2, BitsBelow
    <3> QED
      BY <3>3 DEF k
  <2> HIDE DEF w, z
  <2>4. Right(z, w)
    BY <2>1, <2>3, MaskedLong
  <2> QED
    BY <2>4 DEF z, w, u, v
<1> QED
  BY <1>3, <1>4

(* The mask takes away a multiple of 2^NBits, which divides R.             *)
LEMMA BnotIs ==
  ASSUME NEW a, WellFormed(a)
  PROVE  Right(Fr_bnot(a, {}), Pow2[NBits] - 1 - Number(a))
<1> DEFINE p == Pow2[NBits]
           f == Pow2[Top - NBits]
           u == Number(a)
           y0 == R - 1 - u
           c == p - 1 - u
<1>1. u \in Residues /\ Fr_bnot(a, {}) = Long(Masked(y0))
  BY NumberType, ToLongNormal DEF Fr_bnot, Seen
<1>2. R = p * f /\ f \in Nat \ {0} /\ p \in Nat \ {0} /\ Q < p
  <2>1. NBits \in 0 .. Top /\ Top \in NBits .. Top /\ Top - NBits \in 0 .. Top /\ Top \in Nat
    BY TwoPowers, Powers
  <2>2. Pow2[Top] = Pow2[NBits] * Pow2[Top - NBits]
    BY <2>1, PowerGrows
  <2> QED
    BY <2>1, <2>2, Powers, Sizes DEF R, Top
<1> HIDE DEF p, f, u
<1>3. /\ y0 = c + p * (f - 1) /\ f - 1 \in Int /\ c \in 0 .. p - 1 /\ c \in Int /\ y0 \in Int
  BY <1>1, <1>2, Sizes
<1> DEFINE f1 == f - 1
<1>4. y0 = c + p * f1 /\ f1 \in Int
  BY <1>3
<1> HIDE DEF y0, c, f1
<1>5. (c + p * f1) % p = c % p
  BY <1>2, <1>3, <1>4, AddMultiple
<1>6. c % p = c
  BY <1>2, <1>3, SmallMod
<1>7. Masked(y0) = c % Q /\ Masked(y0) \in Residues
  BY <1>3, <1>4, <1>5, <1>6, MaskedIs DEF p
<1>8. WellFormed(Long(Masked(y0))) /\ Number(Long(Masked(y0))) = Masked(y0)
  BY <1>7, MakeLong DEF Right
<1>9. Right(Fr_bnot(a, {}), c)
  BY <1>1, <1>7, <1>8 DEF Right
<1> QED
  BY <1>9 DEF c, p, u

-----------------------------------------------------------------------------
(* Shifts                                                                  *)

(* Which way and how far to shift, said of the number alone.               *)
LEMMA DistanceIs ==
  ASSUME NEW b, WellFormed(b)
  PROVE  LET v == Number(b)
         IN  Distance(b) = IF v < NBits THEN <<v, FALSE>>
                           ELSE IF Q - v < NBits THEN <<Q - v, TRUE>> ELSE << >>
<1> DEFINE v == Number(b)
           s == b.shortVal
           w == Fr_toNormal(b).longVal
<1>1. v \in Int /\ 0 <= v /\ v < Q /\ NBits \in Nat /\ NBits > 1 /\ 2 * NBits < Q /\ Q \in Int
  BY Plain, Sizes
<1>2. CASE IsLong(b)
  <2>1. w = v
    BY <1>2, ToNormal
  <2>2. Distance(b) = IF w < NBits THEN <<w, FALSE>>
                      ELSE IF Q - w < NBits THEN <<Q - w, TRUE>> ELSE << >>
    <3>1. w \in Int
      BY <1>1, <2>1
    <3>2. /\ ~(~IsLong(b) /\ s \in 0 .. NBits - 1)
          /\ ~(~IsLong(b) /\ -s \in 1 .. NBits - 1)
      BY <1>2
    <3>3. Distance(b) = IF w < NBits THEN <<w, FALSE>>
                        ELSE IF w >= NBits /\ Q - w < NBits THEN <<Q - w, TRUE>> ELSE << >>
      BY <1>1, <1>2, <3>1, <3>2 DEF Distance
    <3> HIDE DEF w
    <3>4. w >= NBits <=> ~(w < NBits)
      BY <1>1, <3>1
    <3> QED
      BY <3>3, <3>4
  <2> QED
    BY <2>1, <2>2
<1>3. CASE ~IsLong(b)
  <2>1. /\ s \in Int /\ (s >= 0 => v = s) /\ (s < 0 => v = Q + s)
        /\ -ShortBound <= s /\ s < ShortBound /\ 2 * ShortBound < Q /\ ShortBound \in Nat
    BY <1>3, Plain, ShortNumber, Sizes
  <2>2. Distance(b) = IF s \in 0 .. NBits - 1 THEN <<s, FALSE>>
                      ELSE IF -s \in 1 .. NBits - 1 THEN <<-s, TRUE>> ELSE << >>
    BY <1>1, <1>3, <2>1 DEF Distance, IsLong
  <2> HIDE DEF v, s
  <2>3. CASE s \in 0 .. NBits - 1
    <3>1. v = s /\ v < NBits
      BY <1>1, <2>1, <2>3
    <3> QED
      BY <2>2, <2>3, <3>1 DEF v
  <2>4. CASE -s \in 1 .. NBits - 1
    <3>1. s < 0 /\ v = Q + s /\ ~(v < NBits) /\ Q - v = -s /\ Q - v < NBits
      BY <1>1, <2>1, <2>4
    <3>2. ~(s \in 0 .. NBits - 1)
      BY <2>1, <3>1
    <3> QED
      BY <2>2, <2>4, <3>1, <3>2 DEF v
  <2>5. CASE s \notin 0 .. NBits - 1 /\ -s \notin 1 .. NBits - 1
    <3>1. ~(v < NBits) /\ ~(Q - v < NBits)
      BY <1>1, <2>1, <2>5
    <3> QED
      BY <2>2, <2>5, <3>1 DEF v
  <2> QED
    BY <2>3, <2>4, <2>5
<1> QED
  BY <1>2, <1>3

LEMMA LeftIs ==
  ASSUME NEW a, WellFormed(a), NEW n \in 0 .. NBits - 1
  PROVE  WellFormed(do_shl(a, n)) /\ Number(do_shl(a, n)) = ShiftedLeft(Number(a), n)
<1> DEFINE u == Number(a)
           s == a.shortVal
           p == Pow2[n]
           m == Pow2[NBits]
           z == do_shl(a, n)
           w == u * p
<1>1. /\ u \in Residues /\ u \in Nat /\ p \in Nat \ {0} /\ m \in Nat \ {0} /\ n \in 0 .. NBits
      /\ Q < m /\ ShiftedLeft(u, n) = (w % m) % Q
  BY NumberType, TwoPowers, Sizes DEF ShiftedLeft
<1> DEFINE zero == 0
<1>2. ASSUME NEW i \in Shorts, 0 <= i, z = Short(i), w = i
      PROVE  WellFormed(z) /\ Number(z) = ShiftedLeft(u, n)
  <2>1. i \in 0 .. m - 1 /\ i \in 0 .. Q - 1
    BY <1>1, <1>2, Sizes, SMTT(30)
  <2> HIDE DEF m, z, w, u
  <2>2. i % m = i /\ i % Q = i
    BY <1>1, <2>1, Sizes, SmallMod
  <2>3. Right(z, i)
    BY <1>2, MakeShort
  <2> QED
    BY <1>1, <1>2, <2>2, <2>3 DEF Right
<1>3. CASE ~IsLong(a) /\ s = 0
  <2>1. z = Short(zero) /\ u = 0 /\ zero \in Shorts
    BY <1>3, ShortNumber, Sizes, SMTT(30) DEF do_shl
  <2>2. w = zero
    BY <1>1, <2>1
  <2>3. 0 <= zero
    OBVIOUS
  <2> HIDE DEF zero, z, u, w
  <2>4. WellFormed(z) /\ Number(z) = ShiftedLeft(u, n)
    BY <1>2, <2>1, <2>2, <2>3
  <2> QED
    BY <2>4 DEF z, u
<1>4. CASE ~IsLong(a) /\ s > 0 /\ n < ShortBits /\ s * p < ShortBound
  <2> DEFINE i == s * p
  <2>1. z = Short(i)
    BY <1>4 DEF do_shl
  <2>2. u = s
    <3>1. s \in Int
      BY <1>4, Plain
    <3> QED
      BY <1>4, <3>1, ShortNumber
  <2>3. i \in Nat /\ i < ShortBound /\ w = i
    BY <1>1, <1>4, <2>2
  <2> HIDE DEF z, u, w, i
  <2>4. i \in Shorts /\ 0 <= i
    BY <2>3, Sizes
  <2>5. WellFormed(z) /\ Number(z) = ShiftedLeft(u, n)
    BY <1>2, <2>1, <2>3, <2>4
  <2> QED
    BY <2>5 DEF z, u
<1>5. CASE ~(~IsLong(a) /\ s = 0) /\ ~(~IsLong(a) /\ s > 0 /\ n < ShortBits /\ s * p < ShortBound)
  <2>1. z = Long(Masked(w))
    BY <1>5, ToLongNormal DEF do_shl, rawShl
  <2>2. w \in Int
    BY <1>1
  <2> HIDE DEF w, z
  <2>3. Masked(w) \in Residues /\ Masked(w) = (w % m) % Q
    BY <2>2, MaskedIs
  <2>4. WellFormed(z) /\ Number(z) = Masked(w)
    BY <2>1, <2>3, MakeLong DEF Right
  <2> QED
    BY <1>1, <2>3, <2>4 DEF z
<1> QED
  BY <1>3, <1>4, <1>5

(* A quotient is not larger than the number.                               *)
LEMMA Quotient ==
  ASSUME NEW u \in Nat, NEW p \in Nat \ {0}
  PROVE  u \div p \in 0 .. u /\ (u < p => u \div p = 0)
<1> DEFINE d == u \div p
           m == u % p
<1>1. d \in Int /\ u = p * d + m /\ m \in 0 .. p - 1
  BY DivMod
<1>2. u < p => d = 0
  OBVIOUS
<1> HIDE DEF d, m
<1>3. d >= 0
  <2> SUFFICES ASSUME d <= -1 PROVE FALSE
    BY <1>1
  <2>1. p * d <= -p
    BY <1>1
  <2> QED
    BY <1>1, <2>1
<1>4. d <= p * d
  BY <1>1, <1>3
<1>5. d \in 0 .. u
  BY <1>1, <1>3, <1>4
<1> QED
  BY <1>2, <1>5 DEF d

LEMMA RightIs ==
  ASSUME NEW a, WellFormed(a), NEW n \in 0 .. NBits - 1
  PROVE  WellFormed(do_shr(a, n)) /\ Number(do_shr(a, n)) = Number(a) \div Pow2[n]
<1> DEFINE u == Number(a)
           s == a.shortVal
           p == Pow2[n]
           z == do_shr(a, n)
           w == u \div p
<1>1. u \in Residues /\ u \in Nat /\ p \in Nat \ {0} /\ n \in 0 .. NBits /\ n \in Nat
  BY NumberType, TwoPowers
<1>2. w \in 0 .. u /\ (u < p => w = 0)
  <2> HIDE DEF u, p
  <2> QED
    BY <1>1, Quotient
<1>3. w \in Residues /\ w % Q = w
  <2>1. w \in 0 .. Q - 1
    <3> HIDE DEF w, u
    <3> QED
      BY <1>1, <1>2, Sizes
  <2> HIDE DEF w
  <2> QED
    BY <2>1, Sizes, SmallMod
<1>4. CASE ~IsLong(a) /\ s >= 0
  <2>1. u = s /\ s \in Int /\ s < ShortBound
    BY <1>4, Plain, ShortNumber
  <2>2. w \in Shorts
    <3> HIDE DEF w, u
    <3> QED
      BY <1>1, <1>2, <2>1, Sizes
  <2>3. z = Short(w)
    <3>1. CASE n < ShortBits
      <4> DEFINE long == IsLong(a)
      <4>1. ~long /\ s >= 0 /\ n < ShortBits /\ z = do_shr(a, n)
        BY <1>4, <3>1
      <4>2. z = Short(s \div p)
        BY <4>1, <1>1, Sizes DEF do_shr, IsLong
      <4> QED
        BY <2>1, <4>2
    <3>2. CASE n >= ShortBits
      <4>1. ShortBound <= p
        <5>1. n \in ShortBits .. Top /\ ShortBits \in 0 .. Top
          BY <1>1, <3>2, TwoPowers
        <5> QED
          BY <5>1, PowerGrows DEF ShortBound
      <4>2. u < p
        <5> HIDE DEF u, p
        <5> QED
          BY <1>1, <2>1, <4>1, Sizes
      <4>3. z = Short(0)
        BY <1>1, <1>4, <3>2, Sizes DEF do_shr
      <4> QED
        BY <1>2, <4>2, <4>3
    <3> QED
      BY <1>1, <3>1, <3>2, Sizes
  <2> HIDE DEF w, z
  <2>4. Right(z, w)
    BY <2>2, <2>3, MakeShort
  <2> QED
    BY <1>3, <2>4 DEF Right, z, w
<1>5. CASE ~(~IsLong(a) /\ s >= 0)
  <2>1. z = Long(w)
    BY <1>5, ToLongNormal DEF do_shr, rawShr
  <2> HIDE DEF w, z
  <2>2. WellFormed(z) /\ Number(z) = w
    BY <1>3, <2>1, MakeLong DEF Right
  <2> QED
    BY <2>2 DEF z, w
<1> QED
  BY <1>4, <1>5

LEMMA ZeroIs == WellFormed(Short(0)) /\ Number(Short(0)) = 0
<1> DEFINE zero == 0
<1>1. zero \in Shorts /\ zero \in 0 .. Q - 1
  BY Sizes
<1> HIDE DEF zero
<1>2. Right(Short(zero), zero) /\ zero % Q = zero
  BY <1>1, MakeShort, Sizes, SmallMod
<1> QED
  BY <1>2 DEF Right, zero

LEMMA ShiftsLeft ==
  ASSUME NEW a, NEW b, WellFormed(a), WellFormed(b)
  PROVE  /\ WellFormed(Fr_shl(a, b))
         /\ Number(Fr_shl(a, b)) = Shifted(Number(a), Number(b), Q - Number(b))
<1> DEFINE u == Number(a)
           v == Number(b)
           z == Fr_shl(a, b)
           k == Q - v
<1>1. v \in Nat /\ v < Q /\ NBits \in Nat /\ Q \in Int /\ k \in Nat
  BY NumberType, Sizes
<1>2. Distance(b) = IF v < NBits THEN <<v, FALSE>> ELSE IF k < NBits THEN <<k, TRUE>> ELSE << >>
  BY DistanceIs
<1>3. CASE v < NBits
  <2>1. v \in 0 .. NBits - 1 /\ z = do_shl(a, v) /\ Shifted(u, v, k) = ShiftedLeft(u, v)
    BY <1>1, <1>2, <1>3 DEF Fr_shl, Shifted
  <2> QED
    BY <2>1, LeftIs
<1>4. CASE v >= NBits /\ k < NBits
  <2>1. k \in 0 .. NBits - 1 /\ z = do_shr(a, k) /\ Shifted(u, v, k) = u \div Pow2[k]
    BY <1>1, <1>2, <1>4 DEF Fr_shl, Shifted
  <2> QED
    BY <2>1, RightIs
<1>5. CASE v >= NBits /\ k >= NBits
  <2>1. z = Short(0) /\ Shifted(u, v, k) = 0
    BY <1>1, <1>2, <1>5 DEF Fr_shl, Shifted
  <2> QED
    BY <2>1, ZeroIs
<1> QED
  BY <1>1, <1>3, <1>4, <1>5

LEMMA ShiftsRight ==
  ASSUME NEW a, NEW b, WellFormed(a), WellFormed(b)
  PROVE  /\ WellFormed(Fr_shr(a, b))
         /\ Number(Fr_shr(a, b)) = IF Number(b) < NBits THEN Number(a) \div Pow2[Number(b)]
                                   ELSE Shifted(Number(a), Q - Number(b), NBits)
<1> DEFINE u == Number(a)
           v == Number(b)
           z == Fr_shr(a, b)
           k == Q - v
<1>1. v \in Nat /\ v < Q /\ NBits \in Nat /\ Q \in Int /\ k \in Nat
  BY NumberType, Sizes
<1>2. Distance(b) = IF v < NBits THEN <<v, FALSE>> ELSE IF k < NBits THEN <<k, TRUE>> ELSE << >>
  BY DistanceIs
<1>3. CASE v < NBits
  <2>1. v \in 0 .. NBits - 1 /\ z = do_shr(a, v)
    BY <1>1, <1>2, <1>3 DEF Fr_shr
  <2> QED
    BY <1>3, <2>1, RightIs
<1>4. CASE v >= NBits /\ k < NBits
  <2>1. k \in 0 .. NBits - 1 /\ z = do_shl(a, k) /\ Shifted(u, k, NBits) = ShiftedLeft(u, k)
    BY <1>1, <1>2, <1>4 DEF Fr_shr, Shifted
  <2> QED
    BY <1>1, <1>4, <2>1, LeftIs
<1>5. CASE v >= NBits /\ k >= NBits
  <2>1. z = Short(0) /\ Shifted(u, k, NBits) = 0
    BY <1>1, <1>2, <1>5 DEF Fr_shr, Shifted
  <2> QED
    BY <1>1, <1>5, <2>1, ZeroIs
<1> QED
  BY <1>1, <1>3, <1>4, <1>5

-----------------------------------------------------------------------------
(* The operations that go through GMP's integers                           *)

LEMMA ToMpz ==
  ASSUME NEW e, WellFormed(e)
  PROVE  Fr_toMpz(e) = Number(e)
<1>1. CASE IsLong(e)
  BY <1>1, ToNormal DEF Fr_toMpz
<1>2. CASE ~IsLong(e)
  <2>1. Fr_toMpz(e) = IF e.shortVal < 0 THEN e.shortVal + Q ELSE e.shortVal
    BY <1>2, ToNormal DEF Fr_toMpz
  <2>2. e.shortVal \in Int /\ Q \in Int
    BY Shapes, Sizes
  <2> QED
    BY <1>2, <2>1, <2>2, ShortNumber
<1> QED
  BY <1>1, <1>2

LEMMA FromMpz ==
  ASSUME NEW v \in Residues
  PROVE  WellFormed(Fr_fromMpz(v)) /\ Number(Fr_fromMpz(v)) = v
<1>1. v % Q = v
  BY Sizes, SmallMod
<1>2. CASE v \in Shorts
  BY <1>1, <1>2, MakeShort DEF Fr_fromMpz, Right
<1>3. CASE v \notin Shorts
  BY <1>3, MakeLong DEF Fr_fromMpz, Right
<1> QED
  BY <1>2, <1>3

LEMMA Printed ==
  ASSUME NEW e, WellFormed(e)
  PROVE  Fr_element2str(e) = Number(e)
<1>1. CASE IsLong(e)
  BY <1>1, ToNormal DEF Fr_element2str
<1>2. CASE ~IsLong(e)
  <2>1. e.shortVal \in Int /\ Q \in Int
    BY Shapes, Sizes
  <2> QED
    BY <1>2, <2>1, ShortNumber DEF Fr_element2str
<1> QED
  BY <1>1, <1>2

LEMMA PowModType ==
  ASSUME NEW u \in Residues, NEW v \in Nat
  PROVE  PowMod(u, v) \in Residues
<1> DEFINE step == [p \in Residues \X (1 .. v) |-> (p[1] * u) % Q]
           one == 1
<1>1. \A m \in Residues : (m * u) % Q \in Residues
  <2> TAKE m \in Residues
  <2>1. m * u \in Int
    BY Sizes
  <2> QED
    BY <2>1, CongSelf
<1>2. step \in StepsOn(v, Residues) /\ \A m \in Residues, n \in 1 .. v : step[<<m, n>>] = (m * u) % Q
  BY <1>1 DEF StepsOn
<1>3. one \in Residues
  BY Sizes
<1> HIDE DEF step
<1>4. PICK f \in [0 .. v -> Residues] : Recursive(f, v, one, step)
  BY <1>2, <1>3, RecursionExists, Zenon
<1>5. f[0] = 1 /\ \A n \in 1 .. v : f[n] = (f[n - 1] * u) % Q
  <2>1. f[0] = 1 /\ \A n \in 1 .. v : f[n] = step[<<f[n - 1], n>>]
    BY <1>4 DEF Recursive
  <2>2. \A n \in 1 .. v : f[n - 1] \in Residues
    BY <1>4
  <2> QED
    BY <1>2, <2>1, <2>2
<1> DEFINE F(g) == g = [n \in 0 .. v |-> IF n = 0 THEN 1 ELSE (g[n - 1] * u) % Q]
           f0 == CHOOSE g : F(g)
<1>6. F(f)
  BY <1>4, <1>5
<1>7. F(f0)
  BY <1>6
<1>8. PowMod(u, v) = f0[v]
  BY DEF PowMod
<1> HIDE DEF f0
<1>9. f0[0] = 1 /\ \A n \in 1 .. v : f0[n] = (f0[n - 1] * u) % Q
  <2>1. \A n \in 0 .. v : f0[n] = IF n = 0 THEN 1 ELSE (f0[n - 1] * u) % Q
    BY <1>7
  <2>2. 0 \in 0 .. v /\ \A n \in 1 .. v : n \in 0 .. v /\ n # 0
    OBVIOUS
  <2> QED
    BY <2>1, <2>2
<1> DEFINE T == {n \in 0 .. v : f0[n] \in Residues}
<1>10. 0 \in T
  BY <1>3, <1>9
<1>11. ASSUME NEW n \in 1 .. v, n - 1 \in T PROVE n \in T
  BY <1>1, <1>9, <1>11
<1> HIDE DEF T
<1>12. \A n \in 0 .. v : n \in T
  BY <1>10, <1>11, IntervalInduction
<1>13. v \in T
  BY <1>12
<1> QED
  BY <1>8, <1>13 DEF T

(* A quotient modulo Q: times the divisor it is the dividend.              *)
LEMMA Divides ==
  ASSUME NEW a, NEW b, WellFormed(a), WellFormed(b), NEW e \in Fr_div(a, b)
  PROVE  /\ WellFormed(e) /\ Number(e) \in Residues
         /\ Number(b) # 0 => (Number(e) * Number(b)) % Q = Number(a)
<1> DEFINE u == Number(a)
           v == Number(b)
           m == Number(e)
<1>1. PICK n \in Inverses(v) : e = Fr_mul(a, Fr_fromMpz(n))
  BY ToMpz DEF Fr_div, Fr_inv
<1>2. n \in Residues /\ (v # 0 => (n * v) % Q = 1)
  BY <1>1 DEF Inverses
<1>3. u \in Residues /\ v \in Residues /\ u \in Int /\ v \in Int /\ n \in Int
  BY <1>2, Plain, Sizes
<1>4. WellFormed(Fr_fromMpz(n)) /\ Number(Fr_fromMpz(n)) = n
  BY <1>2, FromMpz
<1>5. Right(e, u * n)
  BY <1>1, <1>4, Multiplies
<1> DEFINE un == u * n
           nv == n * v
<1>6. un \in Int /\ nv \in Int /\ un * v = u * nv
  <2> HIDE DEF u, v
  <2> QED
    BY <1>3
<1>7. WellFormed(e) /\ m \in Residues /\ Cong(m, un)
  BY <1>5, <1>6, RightCong
<1>8. m \in Int /\ (v # 0 => nv % Q = 1)
  BY <1>2, <1>7, Sizes
<1> HIDE DEF u, v, m, un, nv
<1>9. ASSUME v # 0 PROVE (m * v) % Q = u
  <2> DEFINE one == 1
  <2>1. one = nv % Q
    BY <1>8, <1>9
  <2>2. one \in Int /\ u * one = u
    BY <1>3
  <2> HIDE DEF one
  <2>3. Cong(nv, one)
    BY <1>6, <2>1, CongSelf
  <2>4. Cong(u * nv, u * one)
    BY <1>3, <1>6, <2>2, <2>3, CongTimes
  <2>5. Cong(m * v, un * v)
    BY <1>3, <1>6, <1>7, <1>8, CongTimes
  <2>6. m * v \in Int /\ un * v \in Int
    BY <1>3, <1>6, <1>8
  <2>7. Cong(un * v, u)
    BY <1>6, <2>2, <2>4
  <2>8. Cong(m * v, u)
    BY <1>3, <2>5, <2>6, <2>7, CongTrans
  <2>9. Cong(u, m * v)
    BY <1>3, <2>6, <2>8, CongSym
  <2> QED
    BY <1>3, <2>6, <2>9, CongMod
<1> QED
  BY <1>7, <1>9 DEF u, v, m

-----------------------------------------------------------------------------
(* toInt                                                                   *)

LEMMA CloseBelow ==
  ASSUME NEW p \in Nat \ {0}, NEW k \in Nat, k <= Q % p
  PROVE  (Q - k) % p = (Q % p) - k
<1> DEFINE d == Q \div p
           m == Q % p
           z == Q - k
           e == z \div p
           n == z % p
           mk == m - k
<1>1. Q = p * d + m /\ m \in 0 .. p - 1 /\ d \in Int /\ Q \in Int
  BY Sizes, DivMod
<1>2. k <= m
  OBVIOUS
<1>3. z \in Int
  BY <1>1
<1> HIDE DEF z
<1>4. z = p * e + n /\ n \in 0 .. p - 1 /\ e \in Int
  BY <1>3, DivMod
<1> HIDE DEF d, m, e, n
<1>5. z = p * d + mk /\ mk \in 0 .. p - 1
  BY <1>1, <1>2 DEF z
<1> HIDE DEF mk
<1>6. n = mk
  BY <1>1, <1>4, <1>5, DivisionUnique, Zenon
<1> QED
  BY <1>6 DEF n, z, mk, m

(* A number less than ShortBound below Q borrows from every word.          *)
LEMMA Borrows ==
  ASSUME NEW n \in 1 .. Words
  PROVE  /\ Pow2[WordBits * n] \in Nat \ {0}
         /\ ShortBound <= Q % Pow2[WordBits * n]
<1> DEFINE w == WordBits * n
           p == Pow2[w]
           b == Pow2[WordBits]
           c == Pow2[w - WordBits]
<1>1. WordBits \in Nat \ {0} /\ Words \in Nat \ {0} /\ ShortBound <= Q % b
  BY FieldAssumption DEF Base
<1>2. w \in Nat /\ WordBits <= w /\ w <= Top /\ Top \in Nat
  <2>1. WordBits * n <= WordBits * Words /\ WordBits * 1 <= WordBits * n /\ WordBits * n \in Nat
    BY <1>1
  <2> QED
    BY <1>1, <2>1, Powers DEF Top
<1> HIDE DEF w
<1>3. w \in 0 .. Top /\ WordBits \in 0 .. Top /\ w \in WordBits .. Top /\ w - WordBits \in 0 .. Top
  BY <1>1, <1>2
<1>4. p = b * c /\ p \in Nat \ {0} /\ b \in Nat \ {0} /\ c \in Nat \ {0}
  BY <1>3, PowerGrows, Powers
<1> HIDE DEF p, b, c
<1> DEFINE d == Q \div p
           m == Q % p
           cd == c * d
<1>5. Q = p * d + m /\ m \in 0 .. p - 1 /\ d \in Int
  BY <1>4, Sizes, DivMod
<1> HIDE DEF d, m
<1>6. Q = m + b * cd /\ cd \in Int /\ m \in Nat
  BY <1>4, <1>5
<1> HIDE DEF cd
<1>7. m \in Int
  BY <1>6
<1>8. (m + b * cd) % b = m % b
  BY <1>7, <1>4, <1>6, AddMultiple
<1>9. m % b <= m
  <2> DEFINE g == m \div b
             h == m % b
  <2>1. m = b * g + h /\ h \in 0 .. b - 1 /\ g \in 0 .. m
    BY <1>7, <1>4, <1>6, DivMod, Quotient
  <2> HIDE DEF g, h
  <2>2. b * g >= 0
    BY <1>4, <1>6, <2>1
  <2>3. h <= m
    BY <1>4, <1>6, <2>1, <2>2
  <2> QED
    BY <2>3 DEF h
<1>10. m % b \in Int
  BY <1>4, <1>6
<1>11. ShortBound <= m
  BY <1>1, <1>6, <1>8, <1>9, <1>10, Sizes, SMTT(30)
<1> QED
  BY <1>4, <1>11 DEF m, p, w

LEMMA LongIntIs ==
  ASSUME NEW z \in Residues, SignedNumber(z) \in Shorts
  PROVE  LongToInt(z) = <<SignedNumber(z)>>
<1> DEFINE s == SignedNumber(z)
<1>1. /\ z \in Int /\ Q \in Int /\ ShortBound \in Nat /\ 2 * ShortBound < Q /\ 0 <= z /\ z < Q
      /\ s = IF 2 * z > Q THEN z - Q ELSE z
      /\ -ShortBound <= s /\ s < ShortBound
  <2>1. s \in Shorts /\ s = IF 2 * z > Q THEN z - Q ELSE z
    BY DEF SignedNumber
  <2> HIDE DEF s
  <2> QED
    BY <2>1, Sizes
<1> HIDE DEF s
<1>2. CASE 2 * z <= Q
  <2>1. z < ShortBound /\ s = z
    BY <1>1, <1>2
  <2> QED
    BY <1>1, <2>1 DEF LongToInt, s
<1>3. CASE 2 * z > Q
  <2> DEFINE k == Q - z
             low == (z % Base) - (Q % Base)
  <2>1. k \in Nat /\ 1 <= k /\ k <= ShortBound /\ s = -k /\ z >= ShortBound /\ z = Q - k
    BY <1>1, <1>3
  <2> HIDE DEF k
  <2>2. Base \in Nat \ {0} /\ ShortBound <= Q % Base
    <3>1. WordBits \in 0 .. Top
      <4>1. WordBits \in Nat /\ WordBits * 1 <= WordBits * Words
        BY FieldAssumption
      <4> QED
        BY <4>1 DEF Top
    <3> QED
      BY <3>1, FieldAssumption, Powers DEF Base
  <2>3. low = -k
    <3> DEFINE q == Q % Base
    <3>1. q \in Int /\ k <= q
      BY <1>1, <2>1, <2>2
    <3>2. (Q - k) % Base = q - k
      BY <2>1, <2>2, <3>1, CloseBelow
    <3> HIDE DEF q
    <3>3. z % Base = q - k
      BY <2>1, <3>2
    <3> QED
      BY <2>1, <3>1, <3>3 DEF q
  <2>4. \A n \in 1 .. Words : z % Pow2[WordBits * n] < Q % Pow2[WordBits * n]
    <3> TAKE n \in 1 .. Words
    <3> DEFINE p == Pow2[WordBits * n]
               q == Q % p
    <3>1. p \in Nat \ {0} /\ ShortBound <= q
      BY Borrows
    <3> HIDE DEF p
    <3>2. q \in Int /\ k <= q
      BY <1>1, <2>1, <3>1
    <3>3. (Q - k) % p = q - k
      BY <2>1, <3>1, <3>2, CloseBelow
    <3> HIDE DEF q
    <3>4. z % p = q - k /\ q - k < q
      BY <2>1, <3>2, <3>3
    <3> QED
      BY <3>2, <3>4 DEF p, q
  <2>5. low >= -ShortBound /\ ~(z < ShortBound)
    BY <1>1, <2>1, <2>3
  <2>6. LongToInt(z) = <<low>>
    BY <2>1, <2>4, <2>5 DEF LongToInt
  <2> QED
    BY <2>1, <2>3, <2>6 DEF s
<1> QED
  BY <1>1, <1>2, <1>3

LEMMA ToIntIs ==
  ASSUME NEW e, WellFormed(e), SignedNumber(Number(e)) \in Shorts
  PROVE  Fr_toInt(e) = <<SignedNumber(Number(e))>>
<1>1. CASE IsLong(e)
  BY <1>1, ToNormal, NumberType, LongIntIs DEF Fr_toInt
<1>2. CASE ~IsLong(e)
  BY <1>2, ShortSigned DEF Fr_toInt
<1> QED
  BY <1>1, <1>2

-----------------------------------------------------------------------------
(* The results of every operation                                          *)

Operations == Arithmetic \cup BitWise \cup Comparisons \cup OneOperand

LEMMA InCell ==
  ASSUME NEW e, WellFormed(e), NEW f \in Stored(e)
  PROVE  WellFormed(f) /\ Number(f) = Number(e)
<1>1. CASE e.type = "short"
  <2>1. PICK w \in Leftovers : f = [e EXCEPT !.longVal = w]
    BY <1>1 DEF Stored
  <2>2. w \in 0 .. R - 1 /\ e \in Element
    BY LeftoversAssumption DEF WellFormed
  <2>3. f \in Element /\ f.type = "short" /\ f.shortVal = e.shortVal
    BY <1>1, <2>1, <2>2 DEF Element
  <2>4. WellFormed(f) /\ ~IsLong(f) /\ ~IsLong(e)
    BY <1>1, <2>3 DEF WellFormed, IsLong
  <2>5. Right(f, f.shortVal) /\ Right(e, e.shortVal)
    BY <2>4, ShortNumber
  <2> QED
    BY <2>3, <2>4, <2>5 DEF Right
<1>2. CASE e.type # "short"
  BY <1>2 DEF Stored
<1> QED
  BY <1>1, <1>2

LEMMA ArithmeticResults ==
  ASSUME NEW a, NEW b, WellFormed(a), WellFormed(b), NEW op \in Arithmetic,
         op \in {"idiv", "mod"} => Fr_toMpz(b) # 0, NEW e \in Results(op, a, b, {})
  PROVE  WellFormed(e) /\ Number(e) \in Meaning(op, Number(a), Number(b))
<1> DEFINE u == Number(a)
           v == Number(b)
<1>1. u \in Residues /\ v \in Residues /\ u \in Nat /\ v \in Nat
  BY NumberType
<1>2. Fr_toMpz(a) = u /\ Fr_toMpz(b) = v
  BY ToMpz
<1>3. CASE op = "add"
  <2>1. e = Fr_add(a, b, {}) /\ Meaning(op, u, v) = {(u + v) % Q}
    BY <1>3 DEF Results, Meaning, Comparisons
  <2> QED
    BY <2>1, Adds DEF Right
<1>4. CASE op = "sub"
  <2>1. e = Fr_sub(a, b, {}) /\ Meaning(op, u, v) = {(u - v) % Q}
    BY <1>4 DEF Results, Meaning, Comparisons
  <2> QED
    BY <2>1, Subtracts DEF Right
<1>5. CASE op = "mul"
  <2>1. e = Fr_mul(a, b) /\ Meaning(op, u, v) = {(u * v) % Q}
    BY <1>5 DEF Results, Meaning, Comparisons
  <2> QED
    BY <2>1, Multiplies DEF Right
<1>6. CASE op = "idiv"
  <2>1. e = Fr_idiv(a, b) /\ Meaning(op, u, v) = {u \div v}
    BY <1>6 DEF Results, Meaning, Comparisons
  <2>2. v \in Nat \ {0} /\ e = Fr_fromMpz(u \div v)
    BY <1>1, <1>2, <1>6, <2>1 DEF Fr_idiv
  <2> DEFINE d == u \div v
  <2>3. d \in 0 .. u
    <3> HIDE DEF u, v
    <3> QED
      BY <1>1, <2>2, Quotient
  <2>4. d \in Residues
    <3> HIDE DEF u, d
    <3> QED
      BY <1>1, <2>3, Sizes
  <2> QED
    BY <2>1, <2>2, <2>4, FromMpz
<1>7. CASE op = "mod"
  <2>1. e = Fr_mod(a, b) /\ Meaning(op, u, v) = {u % v}
    BY <1>7 DEF Results, Meaning, Comparisons
  <2>2. v \in Nat \ {0} /\ e = Fr_fromMpz(u % v)
    BY <1>1, <1>2, <1>7, <2>1 DEF Fr_mod
  <2> DEFINE d == u % v
  <2>3. d \in 0 .. v - 1
    <3>1. u \in Int
      BY <1>1
    <3> HIDE DEF u, v
    <3> QED
      BY <2>2, <3>1, DivMod
  <2>4. d \in Residues
    <3> HIDE DEF v, d
    <3> QED
      BY <1>1, <2>3, Sizes
  <2> QED
    BY <2>1, <2>2, <2>4, FromMpz
<1>8. CASE op = "pow"
  <2>1. e = Fr_pow(a, b) /\ Meaning(op, u, v) = {PowMod(u, v)}
    BY <1>8 DEF Results, Meaning, Comparisons
  <2>2. e = Fr_fromMpz(PowMod(u, v))
    BY <1>2, <2>1 DEF Fr_pow
  <2> QED
    BY <1>1, <2>1, <2>2, PowModType, FromMpz
<1>9. CASE op = "div"
  <2>1. e \in Fr_div(a, b)
    BY <1>9 DEF Results, Comparisons
  <2>2. Meaning(op, u, v) = IF v = 0 THEN Residues ELSE {n \in Residues : (n * v) % Q = u}
    BY <1>9 DEF Meaning
  <2> QED
    BY <2>1, <2>2, Divides
<1> QED
  BY <1>3, <1>4, <1>5, <1>6, <1>7, <1>8, <1>9 DEF Arithmetic

LEMMA BitResults ==
  ASSUME NEW a, NEW b, WellFormed(a), WellFormed(b), NEW op \in BitWise,
         NEW e \in Results(op, a, b, {})
  PROVE  WellFormed(e) /\ Number(e) \in Meaning(op, Number(a), Number(b))
<1> DEFINE u == Number(a)
           v == Number(b)
<1>1. CASE op = "band"
  <2>1. e = Fr_band(a, b, {}) /\ Meaning(op, u, v) = {BitByBit(And, u, v) % Q}
    BY <1>1 DEF Results, Meaning, Comparisons
  <2>2. And \in {And, Or, Xor} /\ e = BitOp(And, a, b, {})
    BY <2>1 DEF Fr_band
  <2>3. Right(e, BitByBit(And, u, v))
    BY <2>2, BitOpIs
  <2> QED
    BY <2>1, <2>3 DEF Right
<1>2. CASE op = "bor"
  <2>1. e = Fr_bor(a, b, {}) /\ Meaning(op, u, v) = {BitByBit(Or, u, v) % Q}
    BY <1>2 DEF Results, Meaning, Comparisons
  <2>2. Or \in {And, Or, Xor} /\ e = BitOp(Or, a, b, {})
    BY <2>1 DEF Fr_bor
  <2>3. Right(e, BitByBit(Or, u, v))
    BY <2>2, BitOpIs
  <2> QED
    BY <2>1, <2>3 DEF Right
<1>3. CASE op = "bxor"
  <2>1. e = Fr_bxor(a, b, {}) /\ Meaning(op, u, v) = {BitByBit(Xor, u, v) % Q}
    BY <1>3 DEF Results, Meaning, Comparisons
  <2>2. Xor \in {And, Or, Xor} /\ e = BitOp(Xor, a, b, {})
    BY <2>1 DEF Fr_bxor
  <2>3. Right(e, BitByBit(Xor, u, v))
    BY <2>2, BitOpIs
  <2> QED
    BY <2>1, <2>3 DEF Right
<1>4. CASE op = "shl"
  <2>1. e = Fr_shl(a, b) /\ Meaning(op, u, v) = {Shifted(u, v, Q - v)}
    BY <1>4 DEF Results, Meaning, Comparisons
  <2> QED
    BY <2>1, ShiftsLeft
<1>5. CASE op = "shr"
  <2>1. e = Fr_shr(a, b) /\ Meaning(op, u, v) = {IF v < NBits THEN u \div Pow2[v] ELSE Shifted(u, Q - v, NBits)}
    BY <1>5 DEF Results, Meaning, Comparisons
  <2> QED
    BY <2>1, ShiftsRight
<1> QED
  BY <1>1, <1>2, <1>3, <1>4, <1>5 DEF BitWise

LEMMA AnswersYesOrNo ==
  ASSUME NEW a, NEW b, WellFormed(a), WellFormed(b)
  PROVE  /\ Fr_req(a, b) \in BOOLEAN /\ Fr_rlt(a, b) \in BOOLEAN /\ Fr_rgt(a, b) \in BOOLEAN
         /\ Fr_isTrue(a) \in BOOLEAN /\ Fr_isTrue(b) \in BOOLEAN
<1>1. /\ Fr_rlt(a, b) \in BOOLEAN /\ Fr_rgt(a, b) \in BOOLEAN
      /\ Fr_isTrue(a) \in BOOLEAN /\ Fr_isTrue(b) \in BOOLEAN
  <2> DEFINE sa == a.shortVal
             sb == b.shortVal
             za == Signed(Fr_toLongNormal(a).longVal)
             zb == Signed(Fr_toLongNormal(b).longVal)
  <2>1. sa \in Int /\ sb \in Int /\ za \in Int /\ zb \in Int
    BY Shapes, ToLongNormal, Plain, SignedIs
  <2>2. /\ Fr_rlt(a, b) = IF ~IsLong(a) /\ ~IsLong(b) THEN sa < sb ELSE za < zb
        /\ Fr_rgt(a, b) = IF ~IsLong(a) /\ ~IsLong(b) THEN sa > sb ELSE za > zb
    BY DEF Fr_rlt, Fr_rgt
  <2> HIDE DEF sa, sb, za, zb
  <2>3. (sa < sb) \in BOOLEAN /\ (za < zb) \in BOOLEAN /\ (sa > sb) \in BOOLEAN /\ (za > zb) \in BOOLEAN
    BY <2>1
  <2>4. Fr_rlt(a, b) \in BOOLEAN
    BY <2>2, <2>3, Zenon
  <2>5. Fr_rgt(a, b) \in BOOLEAN
    BY <2>2, <2>3, Zenon
  <2>6. Fr_isTrue(a) \in BOOLEAN
    BY DEF Fr_isTrue
  <2>7. Fr_isTrue(b) \in BOOLEAN
    BY DEF Fr_isTrue
  <2> QED
    BY <2>4, <2>5, <2>6, <2>7
<1>2. Fr_req(a, b) \in BOOLEAN
  <2>1. CASE ~IsLong(a) /\ ~IsLong(b)
    <3>1. Fr_req(a, b) = (a.shortVal = b.shortVal)
      BY <2>1 DEF Fr_req, IsLong
    <3> QED
      BY <3>1
  <2>2. CASE a.type = "longM" \/ b.type = "longM"
    <3>1. Fr_req(a, b) = (Fr_toMontgomery(a).longVal = Fr_toMontgomery(b).longVal)
      BY <2>2 DEF Fr_req, IsLong
    <3> QED
      BY <3>1
  <2>3. CASE (IsLong(a) \/ IsLong(b)) /\ a.type # "longM" /\ b.type # "longM"
    <3>1. Fr_req(a, b) = (Fr_toLongNormal(a).longVal = Fr_toLongNormal(b).longVal)
      BY <2>3 DEF Fr_req, IsLong
    <3> QED
      BY <3>1
  <2> QED
    BY <2>1, <2>2, <2>3
<1> QED
  BY <1>1, <1>2

LEMMA ComparisonResults ==
  ASSUME NEW a, NEW b, WellFormed(a), WellFormed(b), NEW op \in Comparisons,
         NEW e \in Results(op, a, b, {})
  PROVE  WellFormed(e) /\ Number(e) \in Meaning(op, Number(a), Number(b))
<1> DEFINE u == Number(a)
           v == Number(b)
           c == Compared(op, a, b)
<1>1. e = Truth(c)
  BY DEF Results, Comparisons
<1>2. u \in Residues /\ v \in Residues /\ SignedNumber(u) \in Int /\ SignedNumber(v) \in Int
  BY Plain, SignedIs
<1> DEFINE su == SignedNumber(u)
           sv == SignedNumber(v)
<1>3. Bool(su <= sv) = Bool(~(su > sv)) /\ Bool(su >= sv) = Bool(~(su < sv))
  BY <1>2 DEF Bool
<1>4. /\ Fr_req(a, b) <=> u = v
      /\ Fr_rlt(a, b) <=> su < sv
      /\ Fr_rgt(a, b) <=> su > sv
      /\ Fr_isTrue(a) <=> u # 0
      /\ Fr_isTrue(b) <=> v # 0
  BY Equal, Orders, NotZero
<1> HIDE DEF c
<1>5. ASSUME NEW p \in BOOLEAN, c <=> p, c \in BOOLEAN, Meaning(op, u, v) = {Bool(p)}
      PROVE  WellFormed(e) /\ Number(e) \in Meaning(op, u, v)
  <2>1. c = p
    BY <1>5
  <2> QED
    BY <1>1, <1>5, <2>1, TruthIs
<1>6. CASE op = "eq"
  <2>1. c = (Fr_req(a, b)) /\ Meaning(op, u, v) = {Bool(u = v)}
    BY <1>6 DEF Compared, Meaning, c
  <2>2. c \in BOOLEAN
    BY <2>1, AnswersYesOrNo
  <2>3. c <=> (u = v)
    BY <1>2, <1>4, <2>1
  <2> QED
    BY <1>5, <2>1, <2>2, <2>3
<1>7. CASE op = "neq"
  <2>1. c = (~Fr_req(a, b)) /\ Meaning(op, u, v) = {Bool(u # v)}
    BY <1>7 DEF Compared, Meaning, c
  <2>2. c \in BOOLEAN
    BY <2>1, AnswersYesOrNo
  <2>3. c <=> (u # v)
    BY <1>2, <1>4, <2>1
  <2> QED
    BY <1>5, <2>1, <2>2, <2>3
<1>8. CASE op = "lt"
  <2>1. c = (Fr_rlt(a, b)) /\ Meaning(op, u, v) = {Bool(su < sv)}
    BY <1>8 DEF Compared, Meaning, c
  <2>2. c \in BOOLEAN
    BY <2>1, AnswersYesOrNo
  <2>3. c <=> (su < sv)
    BY <1>4, <2>1
  <2> QED
    BY <1>5, <2>1, <2>2, <2>3
<1>9. CASE op = "gt"
  <2>1. c = (Fr_rgt(a, b)) /\ Meaning(op, u, v) = {Bool(su > sv)}
    BY <1>9 DEF Compared, Meaning, c
  <2>2. c \in BOOLEAN
    BY <2>1, AnswersYesOrNo
  <2>3. c <=> (su > sv)
    BY <1>4, <2>1
  <2> QED
    BY <1>5, <2>1, <2>2, <2>3
<1>10. CASE op = "leq"
  <2>1. c = (~Fr_rgt(a, b)) /\ Meaning(op, u, v) = {Bool(su <= sv)}
    BY <1>10 DEF Compared, Meaning, c
  <2>2. c \in BOOLEAN
    BY <2>1, AnswersYesOrNo
  <2>3. c <=> (~(su > sv))
    BY <1>4, <2>1
  <2> QED
    BY <1>5, <1>3, <2>1, <2>2, <2>3
<1>11. CASE op = "geq"
  <2>1. c = (~Fr_rlt(a, b)) /\ Meaning(op, u, v) = {Bool(su >= sv)}
    BY <1>11 DEF Compared, Meaning, c
  <2>2. c \in BOOLEAN
    BY <2>1, AnswersYesOrNo
  <2>3. c <=> (~(su < sv))
    BY <1>4, <2>1
  <2> QED
    BY <1>5, <1>3, <2>1, <2>2, <2>3
<1>12. CASE op = "land"
  <2>1. c = (Fr_isTrue(a) /\ Fr_isTrue(b)) /\ Meaning(op, u, v) = {Bool(u # 0 /\ v # 0)}
    BY <1>12 DEF Compared, Meaning, c
  <2>2. c \in BOOLEAN
    BY <2>1, AnswersYesOrNo
  <2>3. c <=> (u # 0 /\ v # 0)
    BY <1>2, <1>4, <2>1
  <2> QED
    BY <1>5, <2>1, <2>2, <2>3
<1>13. CASE op = "lor"
  <2>1. c = (Fr_isTrue(a) \/ Fr_isTrue(b)) /\ Meaning(op, u, v) = {Bool(u # 0 \/ v # 0)}
    BY <1>13 DEF Compared, Meaning, c
  <2>2. c \in BOOLEAN
    BY <2>1, AnswersYesOrNo
  <2>3. c <=> (u # 0 \/ v # 0)
    BY <1>2, <1>4, <2>1
  <2> QED
    BY <1>5, <2>1, <2>2, <2>3
<1> QED
  BY <1>6, <1>7, <1>8, <1>9, <1>10, <1>11, <1>12, <1>13 DEF Comparisons

LEMMA OneOperandResults ==
  ASSUME NEW a, NEW b, WellFormed(a), WellFormed(b), NEW op \in OneOperand,
         NEW e \in Results(op, a, b, {})
  PROVE  WellFormed(e) /\ Number(e) \in Meaning(op, Number(a), Number(b))
<1> DEFINE u == Number(a)
           v == Number(b)
<1>1. u \in Residues /\ Right(a, u) /\ u % Q = u
  BY NumberType DEF Right
<1>2. CASE op = "copy"
  <2>1. e = a /\ Meaning(op, u, v) = {u}
    BY <1>2 DEF Results, Meaning, Comparisons
  <2> QED
    BY <1>1, <2>1
<1>3. CASE op = "neg"
  <2>1. e = Fr_neg(a) /\ Meaning(op, u, v) = {(-u) % Q}
    BY <1>3 DEF Results, Meaning, Comparisons
  <2> QED
    BY <2>1, Negates DEF Right
<1>4. CASE op = "square"
  <2>1. e = Fr_square(a) /\ Meaning(op, u, v) = {(u * u) % Q}
    BY <1>4 DEF Results, Meaning, Comparisons
  <2> QED
    BY <2>1, Squares DEF Right
<1>5. CASE op = "bnot"
  <2>1. e = Fr_bnot(a, {}) /\ Meaning(op, u, v) = {(Pow2[NBits] - 1 - u) % Q}
    BY <1>5 DEF Results, Meaning, Comparisons
  <2> QED
    BY <2>1, BnotIs DEF Right
<1>6. CASE op = "lnot"
  <2>1. e = Truth(~Fr_isTrue(a)) /\ Meaning(op, u, v) = {Bool(u = 0)}
    BY <1>6 DEF Results, Meaning, Comparisons
  <2>2. Fr_isTrue(a) <=> u # 0
    BY NotZero
  <2>3. Truth(~Fr_isTrue(a)) = Truth(u = 0)
    BY <2>2 DEF Truth
  <2>4. (u = 0) \in BOOLEAN
    OBVIOUS
  <2> HIDE DEF u
  <2>5. WellFormed(Truth(u = 0)) /\ Number(Truth(u = 0)) = Bool(u = 0)
    BY <2>4, TruthIs
  <2> QED
    BY <2>1, <2>3, <2>5 DEF u
<1>7. CASE op = "toNormal"
  <2>1. e = Fr_toNormal(a) /\ Meaning(op, u, v) = {u}
    BY <1>7 DEF Results, Meaning, Comparisons
  <2> QED
    BY <1>1, <2>1, ToNormal DEF Right
<1>8. CASE op = "toLongNormal"
  <2>1. e = Fr_toLongNormal(a) /\ Meaning(op, u, v) = {u}
    BY <1>8 DEF Results, Meaning, Comparisons
  <2> QED
    BY <1>1, <2>1, ToLongNormal DEF Right
<1>9. CASE op = "toMontgomery"
  <2>1. e = Fr_toMontgomery(a) /\ Meaning(op, u, v) = {u}
    BY <1>9 DEF Results, Meaning, Comparisons
  <2> QED
    BY <1>1, <2>1, ToMontgomery DEF Right
<1>10. CASE op = "inv"
  <2>1. /\ e \in Fr_inv(a)
        /\ Meaning(op, u, v) = IF u = 0 THEN Residues ELSE {n \in Residues : (n * u) % Q = 1}
    BY <1>10 DEF Results, Meaning, Comparisons
  <2>2. PICK n \in Inverses(u) : e = Fr_fromMpz(n)
    BY <2>1, ToMpz DEF Fr_inv
  <2>3. n \in Residues /\ n \in Meaning(op, u, v)
    BY <2>1, <2>2 DEF Inverses
  <2> QED
    BY <2>2, <2>3, FromMpz
<1> QED
  BY <1>2, <1>3, <1>4, <1>5, <1>6, <1>7, <1>8, <1>9, <1>10 DEF OneOperand

LEMMA ResultsAreRight ==
  ASSUME NEW a, NEW b, WellFormed(a), WellFormed(b), NEW op \in Operations,
         op \in {"idiv", "mod"} => Fr_toMpz(b) # 0, NEW e \in Results(op, a, b, {})
  PROVE  WellFormed(e) /\ Number(e) \in Meaning(op, Number(a), Number(b))
BY ArithmeticResults, BitResults, ComparisonResults, OneOperandResults DEF Operations

-----------------------------------------------------------------------------
(* In place: an operand that is read as it stands is read the same whether *)
(* or not the result is written over it.                                   *)

LEMMA SameImage ==
  ASSUME NEW e, WellFormed(e), NEW n, NEW over, IsMont(e) \/ n \notin over
  PROVE  Montgomery(e, n, over) = Montgomery(e, n, {})
BY DEF Montgomery, Seen

LEMMA SameBits ==
  ASSUME NEW e, WellFormed(e), NEW n, NEW over, e.type = "long" \/ n \notin over
  PROVE  Seen(e, n, over, "long") = e /\ Seen(e, n, {}, "long") = e
<1>1. e.type = "long" => [e EXCEPT !.type = "long"] = e
  BY DEF WellFormed, Element
<1> QED
  BY <1>1 DEF Seen

LEMMA AddInPlace ==
  ASSUME WellFormed(x), WellFormed(y), NEW over \in {{}, {1}, {2}},
         \A n \in over : ReadAsItStands("add", n)
  PROVE  Fr_add(x, y, over) = Fr_add(x, y, {})
<1>1. 1 \in over => (y.type = "longM" => IsMont(x))
  BY DEF ReadAsItStands
<1>2. 2 \in over => (x.type = "longM" => IsMont(y))
  BY DEF ReadAsItStands
<1>3. CASE x.type = "longM" \/ y.type = "longM"
  <2>1. IsMont(x) \/ 1 \notin over
    BY <1>1, <1>3 DEF IsMont
  <2>2. IsMont(y) \/ 2 \notin over
    BY <1>2, <1>3 DEF IsMont
  <2>3. /\ Montgomery(x, 1, over) = Montgomery(x, 1, {})
        /\ Montgomery(y, 2, over) = Montgomery(y, 2, {})
    BY <2>1, <2>2, SameImage
  <2>4. \A o : Fr_add(x, y, o) = LongM(rawAdd(Montgomery(x, 1, o), Montgomery(y, 2, o)))
    BY <1>3 DEF Fr_add, IsLong
  <2> QED
    BY <2>3, <2>4
<1>4. CASE x.type # "longM" /\ y.type # "longM"
  <2>1. CASE ~IsLong(x) /\ ~IsLong(y)
    BY <2>1 DEF Fr_add, IsLong
  <2>2. CASE x.type = "long" /\ ~IsLong(y)
    BY <2>2 DEF Fr_add, IsLong
  <2>3. CASE ~IsLong(x) /\ y.type = "long"
    BY <2>3 DEF Fr_add, IsLong
  <2>4. CASE x.type = "long" /\ y.type = "long"
    BY <2>4 DEF Fr_add, IsLong
  <2> QED
    BY <1>4, <2>1, <2>2, <2>3, <2>4, Shapes DEF IsLong
<1> QED
  BY <1>3, <1>4

LEMMA SubInPlace ==
  ASSUME WellFormed(x), WellFormed(y), NEW over \in {{}, {1}, {2}},
         \A n \in over : ReadAsItStands("sub", n)
  PROVE  Fr_sub(x, y, over) = Fr_sub(x, y, {})
<1>1. 1 \in over => (y.type = "longM" => IsMont(x))
  BY DEF ReadAsItStands
<1>2. 2 \in over => /\ x.type = "longM" => IsMont(y)
                    /\ ~(y.type = "long" /\ ~IsLong(x) /\ x.shortVal < 0)
  BY DEF ReadAsItStands
<1>3. CASE x.type = "longM" \/ y.type = "longM"
  <2>1. IsMont(x) \/ 1 \notin over
    BY <1>1, <1>3 DEF IsMont
  <2>2. IsMont(y) \/ 2 \notin over
    BY <1>2, <1>3 DEF IsMont
  <2>3. /\ Montgomery(x, 1, over) = Montgomery(x, 1, {})
        /\ Montgomery(y, 2, over) = Montgomery(y, 2, {})
    BY <2>1, <2>2, SameImage
  <2>4. \A o : Fr_sub(x, y, o) = LongM(rawSub(Montgomery(x, 1, o), Montgomery(y, 2, o)))
    BY <1>3 DEF Fr_sub, IsLong
  <2> QED
    BY <2>3, <2>4
<1>4. CASE x.type # "longM" /\ y.type # "longM"
  <2>1. CASE ~IsLong(x) /\ ~IsLong(y)
    BY <2>1 DEF Fr_sub, IsLong
  <2>2. CASE x.type = "long" /\ ~IsLong(y)
    BY <2>2 DEF Fr_sub, IsLong
  <2>3. CASE ~IsLong(x) /\ y.type = "long"
    <3>1. \A o : Fr_sub(x, y, o) = Long(IF x.shortVal >= 0 THEN rawSub(x.shortVal, y.longVal)
                                        ELSE rawNegLS(y.longVal, -x.shortVal, 2 \in o))
      BY <2>3 DEF Fr_sub, IsLong
    <3>2. x.shortVal \in Int
      BY Shapes
    <3>3. CASE x.shortVal >= 0
      BY <3>1, <3>3
    <3>4. CASE x.shortVal < 0
      <4>1. 2 \notin over /\ 2 \notin {} /\ ~(x.shortVal >= 0)
        BY <1>2, <2>3, <3>2, <3>4
      <4>2. \A o : 2 \notin o => Fr_sub(x, y, o) = Long(rawSub(Q - (-x.shortVal), y.longVal))
        BY <3>1, <4>1 DEF rawNegLS
      <4> QED
        BY <4>1, <4>2
    <3> QED
      BY <3>2, <3>3, <3>4
  <2>4. CASE x.type = "long" /\ y.type = "long"
    BY <2>4 DEF Fr_sub, IsLong
  <2> QED
    BY <1>4, <2>1, <2>2, <2>3, <2>4, Shapes DEF IsLong
<1> QED
  BY <1>3, <1>4

LEMMA BitsInPlace ==
  ASSUME WellFormed(x), WellFormed(y), NEW over \in {{}, {1}, {2}}, NEW op \in {"band", "bor", "bxor"},
         \A n \in over : ReadAsItStands(op, n), NEW table
  PROVE  BitOp(table, x, y, over) = BitOp(table, x, y, {})
<1>1. 1 \in over => \/ x.type = "long"
                    \/ ~IsLong(x) /\ x.shortVal >= 0 /\ (IsLong(y) \/ y.shortVal >= 0)
  BY DEF ReadAsItStands
<1>2. 2 \in over => \/ y.type = "long"
                    \/ ~IsLong(y) /\ y.shortVal >= 0 /\ (IsLong(x) \/ x.shortVal >= 0)
  BY DEF ReadAsItStands
<1>3. CASE ~IsLong(x) /\ ~IsLong(y) /\ x.shortVal >= 0 /\ y.shortVal >= 0
  BY <1>3 DEF BitOp
<1>4. CASE ~(~IsLong(x) /\ ~IsLong(y) /\ x.shortVal >= 0 /\ y.shortVal >= 0)
  <2>1. BitOperand(x, y, 1, over) = BitOperand(x, y, 1, {})
    <3>1. CASE x.type = "long" \/ 1 \notin over
      BY <3>1, SameBits DEF BitOperand
    <3>2. CASE x.type # "long" /\ 1 \in over
      BY <1>1, <1>4, <3>2 DEF BitOperand
    <3> QED
      BY <3>1, <3>2
  <2>2. BitOperand(x, y, 2, over) = BitOperand(x, y, 2, {})
    <3>1. CASE y.type = "long" \/ 2 \notin over
      BY <3>1, SameBits DEF BitOperand
    <3>2. CASE y.type # "long" /\ 2 \in over
      BY <1>2, <1>4, <3>2 DEF BitOperand
    <3> QED
      BY <3>1, <3>2
  <2> QED
    BY <1>4, <2>1, <2>2 DEF BitOp
<1> QED
  BY <1>3, <1>4

LEMMA BnotInPlace ==
  ASSUME WellFormed(x), NEW over \in {{}, {1}}, \A n \in over : ReadAsItStands("bnot", n)
  PROVE  Fr_bnot(x, over) = Fr_bnot(x, {})
<1>1. 1 \in over => x.type = "long"
  BY DEF ReadAsItStands
<1> QED
  BY <1>1, SameBits DEF Fr_bnot

LEMMA InPlaceResults ==
  ASSUME WellFormed(x), WellFormed(y), NEW over \in {{}, {1}, {2}}, NEW op \in EarlyWriters,
         op = "bnot" => 2 \notin over, \A n \in over : ReadAsItStands(op, n)
  PROVE  Results(op, x, y, over) = Results(op, x, y, {})
<1>1. CASE op = "add"
  BY <1>1, AddInPlace DEF Results, Comparisons
<1>2. CASE op = "sub"
  BY <1>2, SubInPlace DEF Results, Comparisons
<1>3. CASE op = "band"
  BY <1>3, BitsInPlace DEF Results, Comparisons, Fr_band
<1>4. CASE op = "bor"
  BY <1>4, BitsInPlace DEF Results, Comparisons, Fr_bor
<1>5. CASE op = "bxor"
  BY <1>5, BitsInPlace DEF Results, Comparisons, Fr_bxor
<1>6. CASE op = "bnot"
  <2>1. over \in {{}, {1}}
    BY <1>6
  <2> QED
    BY <1>6, <2>1, BnotInPlace DEF Results, Comparisons
<1> QED
  BY <1>1, <1>2, <1>3, <1>4, <1>5, <1>6 DEF EarlyWriters

-----------------------------------------------------------------------------
(* The invariant: operands are always well formed, since a result is kept  *)
(* only when it had a cell of its own.                                     *)
FieldInv ==
  /\ WellFormed(x) /\ WellFormed(y)
  /\ ResultIsRight /\ InPlaceIsRight /\ AnswersAreRight

LEMMA InitInv == Init => FieldInv
<1> SUFFICES ASSUME Init PROVE FieldInv
  OBVIOUS
<1>1. ASSUME NEW v \in Residues, NEW f \in Stored(Fr_str2element(v))
      PROVE  WellFormed(f)
  <2>1. v % Q = v
    BY Sizes, SmallMod
  <2>2. WellFormed(Fr_str2element(v))
    BY <2>1, FromMpz DEF Fr_str2element
  <2> QED
    BY <1>1, <2>2, InCell
<1>2. WellFormed(x) /\ WellFormed(y) /\ call = << >>
  BY <1>1 DEF Init
<1> QED
  BY <1>2 DEF FieldInv, ResultIsRight, InPlaceIsRight, AnswersAreRight, Computed

LEMMA ComputeInv ==
  ASSUME FieldInv, NEW op \in Operations, NEW over \in {{}, {1}, {2}}, Compute(op, over),
         op \in OneOperand => 2 \notin over
  PROVE  FieldInv'
<1>1. /\ WellFormed(x) /\ WellFormed(y) /\ x' = x /\ y' = y /\ call' = <<op, over>>
      /\ over # {} => op \in EarlyWriters
      /\ op \in {"idiv", "mod"} => Fr_toMpz(y) # 0
  BY DEF FieldInv, Compute
<1>2. PICK e \in Results(op, x, y, over) : r' \in Stored(e)
  BY DEF Compute
<1>3. call'[1] = op /\ call'[2] = over
  BY <1>1
<1>4. ASSUME over = {} \/ \A n \in over : ReadAsItStands(op, n)
      PROVE  WellFormed(r') /\ Number(r') \in Meaning(op, Number(x), Number(y))
  <2>1. Results(op, x, y, over) = Results(op, x, y, {})
    <3>1. CASE over = {}
      BY <3>1
    <3>2. CASE over # {}
      <4>1. op = "bnot" => 2 \notin over
        BY DEF OneOperand
      <4> QED
        BY <1>1, <1>4, <3>2, <4>1, InPlaceResults
    <3> QED
      BY <3>1, <3>2
  <2>2. e \in Results(op, x, y, {})
    BY <1>2, <2>1
  <2>3. WellFormed(e) /\ Number(e) \in Meaning(op, Number(x), Number(y))
    BY <1>1, <2>2, ResultsAreRight
  <2> QED
    BY <1>2, <2>3, InCell
<1>5. ResultIsRight'
  BY <1>1, <1>3, <1>4 DEF ResultIsRight, ResultMeans
<1>6. InPlaceIsRight'
  BY <1>1, <1>3, <1>4 DEF InPlaceIsRight, ResultMeans, ReadAsItStands
<1>7. AnswersAreRight'
  <2>1. op # "toInt" /\ op # "element2str"
    BY DEF Operations, Arithmetic, BitWise, Comparisons, OneOperand
  <2> QED
    BY <1>1, <2>1 DEF AnswersAreRight
<1> QED
  BY <1>1, <1>5, <1>6, <1>7 DEF FieldInv

LEMMA FieldInductive == FieldInv /\ [Next]_vars => FieldInv'
<1> SUFFICES ASSUME FieldInv, [Next]_vars PROVE FieldInv'
  OBVIOUS
<1> USE DEF FieldInv
<1>1. ASSUME NEW op \in OneOperand, NEW over \in {{}, {1}}, ComputeOne(op, over)
      PROVE  FieldInv'
  BY <1>1, ComputeInv DEF ComputeOne, Operations
<1>2. ASSUME NEW op \in Arithmetic \cup BitWise \cup Comparisons, NEW over \in {{}, {1}, {2}},
             ComputeTwo(op, over)
      PROVE  FieldInv'
  BY <1>2, ComputeInv DEF ComputeTwo, Operations
<1>3. ASSUME call' \in {<<"SIGFPE", {}>>, <<"toInt", {}>>, <<"element2str", {}>>},
             UNCHANGED <<x, y>>
      PROVE  ResultIsRight' /\ InPlaceIsRight'
  <2>1. ~Computed'
    BY <1>3 DEF Computed, Arithmetic, BitWise, Comparisons, OneOperand
  <2> QED
    BY <2>1 DEF ResultIsRight, InPlaceIsRight
<1>4. CASE DivideByZero
  BY <1>3, <1>4 DEF DivideByZero, AnswersAreRight
<1>5. CASE ToInt
  BY <1>3, <1>5, ToIntIs DEF ToInt, AnswersAreRight
<1>6. CASE PrintElement
  BY <1>3, <1>6, Printed DEF PrintElement, AnswersAreRight
<1>7. CASE Keep
  <2>1. Computed /\ call[2] = {} /\ call' = << >>
    BY <1>7 DEF Keep, Computed
  <2>2. WellFormed(r)
    BY <2>1 DEF ResultIsRight
  <2>3. WellFormed(x') /\ WellFormed(y')
    BY <1>7, <2>2 DEF Keep
  <2> QED
    BY <2>1, <2>3 DEF ResultIsRight, InPlaceIsRight, AnswersAreRight, Computed
<1>8. CASE UNCHANGED vars
  BY <1>8 DEF vars, ResultIsRight, InPlaceIsRight, AnswersAreRight, Computed, ResultMeans, ReadAsItStands
<1> QED
  BY <1>1, <1>2, <1>4, <1>5, <1>6, <1>7, <1>8 DEF Next

LEMMA FieldInvariant == Spec => []FieldInv
BY InitInv, FieldInductive, PTL DEF Spec

(* Whatever the forms of the operands, an operation whose result has a     *)
(* cell of its own leaves a well formed element that is its meaning modulo *)
(* Q, through any sequence of operations: fr.asm's and fr.cpp's paths.     *)
THEOREM ResultsRight == Spec => []ResultIsRight
<1>1. FieldInv => ResultIsRight
  BY DEF FieldInv
<1> QED
  BY <1>1, FieldInvariant, PTL

(* Writing over an operand that is read as it stands is right.             *)
THEOREM InPlaceRight == Spec => []InPlaceIsRight
<1>1. FieldInv => InPlaceIsRight
  BY DEF FieldInv
<1> QED
  BY <1>1, FieldInvariant, PTL

(* toInt answers the integer of every element that fits a short, in every  *)
(* form, and what is printed of an element is its number.                  *)
THEOREM AnswersRight == Spec => []AnswersAreRight
<1>1. FieldInv => AnswersAreRight
  BY DEF FieldInv
<1> QED
  BY <1>1, FieldInvariant, PTL
=============================================================================
