----------------------------- MODULE CommonLemmas ----------------------------
(***************************************************************************)
(* Induction over the naturals, said of sets instead of operators;         *)
(* functions that are defined by recursion on 0 .. N; division with        *)
(* remainder by any number; sequences of sequences that are written one    *)
(* behind the other.                                                       *)
(***************************************************************************)
EXTENDS Integers, SequencesExt, SequenceTheorems, WellFoundedInduction, TLAPS

Less == {p \in Nat \X Nat : p[1] < p[2]}

LEMMA LessWellFounded == IsWellFoundedOn(Less, Nat)
BY NatLessThanWellFounded, Zenon DEF OpToRel, Less

(* A set of naturals that is not empty has a least element.                *)
LEMMA LeastNatural ==
  ASSUME NEW T, T \subseteq Nat, T # {}
  PROVE  \E n \in T : \A m \in T : n <= m
<1>1. PICK n \in T : \A m \in T : ~ <<m, n>> \in Less
  BY WFMin, LessWellFounded
<1>2. \A m \in T : m < n => <<m, n>> \in Less
  BY DEF Less
<1>3. \A m \in T : m \in Nat /\ ~(m < n)
  BY <1>1, <1>2
<1> QED
  BY <1>3

(* A set with 0 and with the successor of each of its naturals has them    *)
(* all.                                                                    *)
LEMMA SetInduction ==
  ASSUME NEW T, 0 \in T, \A n \in Nat : n \in T => n + 1 \in T
  PROVE  \A n \in Nat : n \in T
<1> SUFFICES ASSUME Nat \ T # {} PROVE FALSE
  OBVIOUS
<1>1. PICK n \in Nat \ T : \A m \in Nat \ T : n <= m
  BY LeastNatural
<1>2. n - 1 \in Nat /\ ~(n <= n - 1) /\ (n - 1) + 1 = n
  BY <1>1
<1>3. n - 1 \in T
  BY <1>1, <1>2
<1> QED
  BY <1>1, <1>2, <1>3

(* The same up to N.                                                       *)
LEMMA IntervalInduction ==
  ASSUME NEW N \in Nat, NEW T, 0 \in T, \A n \in 1 .. N : n - 1 \in T => n \in T
  PROVE  \A n \in 0 .. N : n \in T
<1> DEFINE U == {n \in Nat : n <= N => n \in T}
<1>1. 0 \in U
  OBVIOUS
<1>2. ASSUME NEW n \in Nat, n \in U PROVE n + 1 \in U
  <2>1. CASE n + 1 <= N
    <3>1. n + 1 \in 1 .. N /\ (n + 1) - 1 = n /\ n \in T
      BY <1>2, <2>1
    <3>2. n + 1 \in T
      BY <3>1
    <3> QED
      BY <3>2
  <2> QED
    BY <2>1
<1> HIDE DEF U
<1>3. \A n \in Nat : n \in U
  BY <1>1, <1>2, SetInduction
<1> QED
  BY <1>3 DEF U

(* A value, and a function that gives the next one from the one before,    *)
(* determine a function on 0 .. N.                                         *)
StepsOn(N, S) == [S \X (1 .. N) -> S]
Recursive(f, N, a, step) == f[0] = a /\ \A n \in 1 .. N : f[n] = step[<<f[n - 1], n>>]

LEMMA RecursionExists ==
  ASSUME NEW N \in Nat, NEW S, NEW a \in S, NEW step \in StepsOn(N, S)
  PROVE  \E f \in [0 .. N -> S] : Recursive(f, N, a, step)
<1> USE DEF StepsOn
<1> DEFINE Upto(k, f) == f[0] = a /\ \A n \in 1 .. k : f[n] = step[<<f[n - 1], n>>]
           T == {k \in Nat : k <= N => \E f \in [0 .. k -> S] : Upto(k, f)}
<1>1. 0 \in T
  <2> DEFINE f == [n \in 0 .. 0 |-> a]
  <2>1. f \in [0 .. 0 -> S] /\ Upto(0, f)
    OBVIOUS
  <2> QED
    BY <2>1
<1>2. ASSUME NEW k \in Nat, k \in T PROVE k + 1 \in T
  <2> SUFFICES ASSUME k + 1 <= N PROVE \E f \in [0 .. k + 1 -> S] : Upto(k + 1, f)
    OBVIOUS
  <2>1. PICK g \in [0 .. k -> S] : Upto(k, g)
    BY <1>2
  <2> DEFINE f == [n \in 0 .. k + 1 |-> IF n <= k THEN g[n] ELSE step[<<g[k], k + 1>>]]
  <2>2. k + 1 \in 1 .. N /\ g[k] \in S
    BY <2>1
  <2>3. f \in [0 .. k + 1 -> S]
    BY <2>2
  <2>4. ASSUME NEW n \in 1 .. k + 1 PROVE f[n] = step[<<f[n - 1], n>>]
    <3>1. CASE n <= k
      <4>1. n \in 1 .. k /\ f[n] = g[n] /\ f[n - 1] = g[n - 1]
        BY <3>1
      <4> QED
        BY <2>1, <4>1
    <3>2. CASE n = k + 1
      <4>1. f[n] = step[<<g[k], k + 1>>] /\ f[n - 1] = g[k]
        BY <3>2
      <4> QED
        BY <3>2, <4>1
    <3> QED
      BY <3>1, <3>2
  <2>5. f[0] = a
    BY <2>1
  <2> HIDE DEF f
  <2> QED
    BY <2>3, <2>4, <2>5
<1> HIDE DEF T
<1>3. \A k \in Nat : k \in T
  BY <1>1, <1>2, SetInduction
<1>4. \E f \in [0 .. N -> S] : Upto(N, f)
  <2> HIDE DEF Upto
  <2> QED
    BY <1>3 DEF T
<1> QED
  BY <1>4 DEF Recursive

-----------------------------------------------------------------------------
LEMMA DivMod ==
  ASSUME NEW a \in Int, NEW r \in Nat \ {0}
  PROVE  a = r * (a \div r) + (a % r) /\ a % r \in 0 .. r - 1 /\ a \div r \in Int
OBVIOUS

(* Quotient and remainder are determined.                                  *)
LEMMA DivisionUnique ==
  ASSUME NEW r \in Nat \ {0}, NEW q1 \in Int, NEW q2 \in Int,
         NEW m1 \in 0 .. r - 1, NEW m2 \in 0 .. r - 1, r * q1 + m1 = r * q2 + m2
  PROVE  q1 = q2 /\ m1 = m2
<1>1. r * (q1 - q2) = m2 - m1
  OBVIOUS
<1>2. CASE q1 - q2 >= 1
  <2>1. r * (q1 - q2) >= r
    BY <1>2
  <2> QED
    BY <1>1, <2>1
<1>3. CASE q1 - q2 <= -1
  <2>1. r * (q1 - q2) <= -r
    BY <1>3
  <2> QED
    BY <1>1, <2>1
<1>4. CASE q1 = q2
  BY <1>4
<1> QED
  BY <1>2, <1>3, <1>4

LEMMA AddMultiple ==
  ASSUME NEW r \in Nat \ {0}, NEW x \in Int, NEW q \in Int
  PROVE  (x + r * q) % r = x % r
<1> DEFINE y == x + r * q
<1>0. y \in Int /\ r * q \in Int
  OBVIOUS
<1>1. x = r * (x \div r) + (x % r) /\ x % r \in 0 .. r - 1 /\ x \div r \in Int
  BY DivMod
<1>2. y = r * (y \div r) + (y % r) /\ y % r \in 0 .. r - 1 /\ y \div r \in Int
  BY <1>0, DivMod
<1>3. y = r * ((x \div r) + q) + (x % r)
  BY <1>1
<1> DEFINE qy == y \div r
           my == y % r
           qx == (x \div r) + q
           mx == x % r
<1>4. qx \in Int /\ mx \in 0 .. r - 1 /\ qy \in Int /\ my \in 0 .. r - 1 /\ r * qy + my = r * qx + mx
  BY <1>1, <1>2, <1>3
<1> HIDE DEF y, qy, my, qx, mx
<1>5. my = mx
  BY <1>4, DivisionUnique
<1> QED
  BY <1>5 DEF my, mx, y

LEMMA MultipleMod ==
  ASSUME NEW r \in Nat \ {0}, NEW q \in Int
  PROVE  (r * q) % r = 0
<1> DEFINE z == 0
<1>1. z \in Int /\ z % r = 0
  OBVIOUS
<1> HIDE DEF z
<1>2. (z + r * q) % r = z % r
  BY <1>1, AddMultiple
<1> QED
  BY <1>1, <1>2 DEF z

(* A term of a sum may be reduced before it is added.                      *)
LEMMA ModAdd ==
  ASSUME NEW r \in Nat \ {0}, NEW a \in Int, NEW b \in Int
  PROVE  ((a % r) + b) % r = (b + a) % r
<1>1. a = r * (a \div r) + (a % r) /\ a % r \in 0 .. r - 1 /\ a \div r \in Int
  BY DivMod
<1>2. r * (a \div r) \in Int /\ (a % r) + b \in Int
  BY <1>1
<1>3. b + a = ((a % r) + b) + r * (a \div r)
  BY <1>1, <1>2
<1> QED
  <2> DEFINE x == (a % r) + b
             q == a \div r
  <2>1. x \in Int /\ q \in Int /\ b + a = x + r * q
    BY <1>1, <1>2, <1>3
  <2> HIDE DEF x, q
  <2>2. (x + r * q) % r = x % r
    BY <2>1, AddMultiple
  <2> QED
    BY <2>1, <2>2 DEF x

(* So may a factor of a product.                                           *)
LEMMA ModMul ==
  ASSUME NEW r \in Nat \ {0}, NEW a \in Int, NEW b \in Int
  PROVE  ((a % r) * b) % r = (a * b) % r
<1> DEFINE m == a % r
           q == a \div r
<1>1. a = r * q + m /\ m \in Int /\ q \in Int
  BY DivMod
<1> HIDE DEF m, q
<1>2. m * b \in Int /\ q * b \in Int
  BY <1>1
<1>3. a * b = m * b + r * (q * b)
  BY <1>1
<1>4. (a * b) % r = (m * b) % r
  <2> DEFINE x == m * b
             k == q * b
  <2>1. x \in Int /\ k \in Int /\ a * b = x + r * k
    BY <1>2, <1>3
  <2> HIDE DEF x, k
  <2>2. (x + r * k) % r = x % r
    BY <2>1, AddMultiple
  <2> QED
    BY <2>1, <2>2 DEF x
<1> QED
  BY <1>4 DEF m

(* Below the modulus nothing is reduced.                                   *)
LEMMA SmallMod ==
  ASSUME NEW r \in Nat \ {0}, NEW a \in 0 .. r - 1
  PROVE  a % r = a
OBVIOUS

(* A number close to 0 .. r - 1 is reduced by adding or subtracting r.     *)
LEMMA ModCases ==
  ASSUME NEW r \in Nat \ {0}, NEW z \in Int, -r <= z, z < 2 * r
  PROVE  /\ z % r = z \/ z % r = z + r \/ z % r = z - r
         /\ z % r \in 0 .. r - 1
<1> DEFINE q == z \div r
           m == z % r
<1>1. z = r * q + m /\ m \in 0 .. r - 1 /\ q \in Int
  BY DivMod
<1> HIDE DEF q, m
<1>2. CASE z < 0
  <2>1. z = r * (-1) + (z + r) /\ z + r \in 0 .. r - 1 /\ -1 \in Int
    BY <1>2
  <2>2. m = z + r
    BY <1>1, <2>1, DivisionUnique
  <2> QED
    BY <1>1, <2>2 DEF m
<1>3. CASE z >= 0 /\ z < r
  <2>1. z = r * 0 + z /\ z \in 0 .. r - 1
    BY <1>3
  <2>2. m = z
    BY <1>1, <2>1, DivisionUnique
  <2> QED
    BY <1>1, <2>2 DEF m
<1>4. CASE z >= r
  <2>1. z = r * 1 + (z - r) /\ z - r \in 0 .. r - 1
    BY <1>4
  <2>2. m = z - r
    BY <1>1, <2>1, DivisionUnique
  <2> QED
    BY <1>1, <2>2 DEF m
<1> QED
  BY <1>2, <1>3, <1>4

(* Modulo a prime every number but 0 has an inverse: the least number      *)
(* that a multiple of x leaves divides the prime.                          *)
LEMMA PrimeInverse ==
  ASSUME NEW r \in Nat \ {0, 1}, \A d \in 2 .. r - 1 : r % d # 0, NEW x \in 1 .. r - 1
  PROVE  \E k \in 0 .. r - 1 : (x * k) % r = 1
<1> DEFINE T == {d \in 1 .. r - 1 : \E k \in Int : (x * k) % r = d}
<1>1. x \in T
  <2>1. (x * 1) % r = x
    BY SmallMod
  <2> QED
    BY <2>1
<1>2. PICK d \in T : \A e \in T : d <= e
  <2>1. T \subseteq Nat
    OBVIOUS
  <2> HIDE DEF T
  <2> QED
    BY <1>1, <2>1, LeastNatural
<1>3. d \in 1 .. r - 1
  OBVIOUS
<1>4. PICK k \in Int : (x * k) % r = d
  BY <1>2
<1> DEFINE q == r \div d
           e == r % d
<1>5. r = d * q + e /\ e \in 0 .. d - 1 /\ q \in Int
  BY <1>3, DivMod
<1> HIDE DEF q, e, T
<1>6. (x * (-(k * q))) % r = e % r
  <2> DEFINE y == x * k
             c == y \div r
  <2>1. y \in Int /\ y = r * c + d /\ c \in Int
    BY <1>4, DivMod
  <2> HIDE DEF c
  <2>2. x * (-(k * q)) = -(y * q)
    BY <1>5
  <2> HIDE DEF y
  <2>3. y * q = r * (c * q) + d * q
    BY <1>3, <1>5, <2>1
  <2>4. -(y * q) = e + r * (-(c * q) - 1)
    BY <1>3, <1>5, <2>1, <2>3
  <2> DEFINE t == -(c * q) - 1
  <2>5. t \in Int /\ e \in Int
    BY <1>5, <2>1
  <2> HIDE DEF t
  <2>6. (e + r * t) % r = e % r
    BY <2>5, AddMultiple
  <2> QED
    BY <2>2, <2>4, <2>6 DEF t
<1>7. e = 0
  <2> SUFFICES ASSUME e # 0 PROVE FALSE
    OBVIOUS
  <2>1. e \in 1 .. r - 1 /\ e % r = e
    BY <1>3, <1>5, SmallMod
  <2>2. -(k * q) \in Int
    BY <1>5
  <2>3. e \in T
    BY <1>6, <2>1, <2>2 DEF T
  <2> QED
    BY <1>2, <1>3, <1>5, <2>3
<1>8. d = 1
  BY <1>3, <1>7 DEF e
<1>9. (x * (k % r)) % r = 1
  <2>1. (x * (k % r)) % r = (x * k) % r
    <3> DEFINE m == k % r
    <3>1. m \in Int /\ x \in Int
      BY DivMod
    <3>2. (m * x) % r = (k * x) % r
      BY <3>1, ModMul
    <3> HIDE DEF m
    <3>3. x * m = m * x /\ x * k = k * x
      BY <3>1
    <3> QED
      BY <3>2, <3>3 DEF m
  <2> QED
    BY <1>4, <1>8, <2>1
<1>10. k % r \in 0 .. r - 1
  BY DivMod
<1> QED
  BY <1>9, <1>10

(* A prime divides no product of numbers that it divides neither of.       *)
LEMMA PrimeProduct ==
  ASSUME NEW r \in Nat \ {0, 1}, \A d \in 2 .. r - 1 : r % d # 0,
         NEW x \in 0 .. r - 1, NEW y \in 0 .. r - 1, (x * y) % r = 0
  PROVE  x = 0 \/ y = 0
<1> SUFFICES ASSUME x # 0 PROVE y = 0
  OBVIOUS
<1>1. PICK k \in 0 .. r - 1 : (x * k) % r = 1
  <2>1. x \in 1 .. r - 1
    OBVIOUS
  <2> QED
    BY <2>1, PrimeInverse
<1> DEFINE a == x * y
           b == x * k
<1>2. a \in Int /\ b \in Int /\ k \in Int /\ y \in Int
  OBVIOUS
<1>3. a * k = b * y
  OBVIOUS
<1>4. (a * k) % r = 0
  <2> HIDE DEF a
  <2>1. ((a % r) * k) % r = (a * k) % r
    BY <1>2, ModMul
  <2>2. (a % r) * k = 0 /\ 0 % r = 0
    BY SmallMod DEF a
  <2> QED
    BY <2>1, <2>2
<1>5. (b * y) % r = y
  <2> HIDE DEF b
  <2>1. ((b % r) * y) % r = (b * y) % r
    BY <1>2, ModMul
  <2>2. (b % r) * y = y
    BY <1>1 DEF b
  <2> QED
    BY <2>1, <2>2, SmallMod
<1> QED
  BY <1>3, <1>4, <1>5

-----------------------------------------------------------------------------
(* Sequences of sequences                                                  *)

(* FlattenSeq appends one sequence after the other.                        *)
Appends(f, ss, N) == f[0] = << >> /\ \A n \in 1 .. N : f[n] = f[n - 1] \o ss[n]

LEMMA FlattenIs ==
  ASSUME NEW X, NEW N \in Nat, NEW ss \in [1 .. N -> Seq(X)]
  PROVE  \E f \in [0 .. N -> Seq(X)] : Appends(f, ss, N) /\ f[N] = FlattenSeq(ss)
<1>1. << >> \in Seq(X)
  BY EmptySeq
<1>2. \A s, t \in Seq(X) : s \o t \in Seq(X)
  BY ConcatProperties
<1> DEFINE step == [p \in Seq(X) \X (1 .. N) |-> p[1] \o ss[p[2]]]
<1>3. step \in StepsOn(N, Seq(X))
  BY <1>2 DEF StepsOn
<1>4. \A s \in Seq(X), n \in 1 .. N : step[<<s, n>>] = s \o ss[n]
  OBVIOUS
<1> HIDE DEF step
<1>5. PICK f \in [0 .. N -> Seq(X)] : Recursive(f, N, << >>, step)
  BY <1>1, <1>3, RecursionExists, Zenon
<1>6. f[0] = << >> /\ \A n \in 1 .. N : f[n] = f[n - 1] \o ss[n]
  <2>1. f[0] = << >> /\ \A n \in 1 .. N : f[n] = step[<<f[n - 1], n>>]
    BY <1>5 DEF Recursive
  <2>2. \A n \in 1 .. N : f[n - 1] \in Seq(X)
    BY <1>5
  <2> QED
    BY <2>1, <2>2, <1>4
<1>7. Len(ss) = N
  OBVIOUS
<1>8. CASE N = 0
  <2>1. ss = << >>
    BY <1>8
  <2> QED
    BY <1>6, <1>7, <1>8, <2>1 DEF FlattenSeq, Appends
<1>9. CASE N # 0
  <2> DEFINE IsFlat(g) == g = [i \in 1 .. N |-> IF i = 1 THEN ss[i] ELSE g[i - 1] \o ss[i]]
             flat == CHOOSE g : IsFlat(g)
             h == [i \in 1 .. N |-> f[i]]
  <2>1. FlattenSeq(ss) = flat[N]
    BY <1>7, <1>9 DEF FlattenSeq
  <2>2. IsFlat(h)
    <3>1. ASSUME NEW i \in 1 .. N
          PROVE  h[i] = IF i = 1 THEN ss[i] ELSE h[i - 1] \o ss[i]
      <4>1. CASE i = 1
        <5>1. f[1] = f[0] \o ss[1] /\ ss[1] \in Seq(X)
          <6>1. 1 \in 1 .. N /\ 1 - 1 = 0
            BY <4>1
          <6> QED
            BY <1>6, <6>1
        <5>2. << >> \o ss[1] = ss[1]
          BY <5>1, ConcatEmptySeq
        <5> QED
          BY <1>6, <4>1, <5>1, <5>2
      <4>2. CASE i # 1
        <5>1. i - 1 \in 1 .. N /\ h[i - 1] = f[i - 1]
          BY <4>2
        <5> QED
          BY <1>6, <4>2, <5>1
      <4> QED
        BY <4>1, <4>2
    <3> DEFINE h2 == [i \in 1 .. N |-> IF i = 1 THEN ss[i] ELSE h[i - 1] \o ss[i]]
    <3>2. \A i \in 1 .. N : h[i] = h2[i]
      BY <3>1
    <3>3. h = h2
      BY <3>2
    <3> QED
      BY <3>3
  <2>3. IsFlat(flat)
    <3> HIDE DEF IsFlat, h
    <3> QED
      BY <2>2
  <2>4. \A i \in 1 .. N : flat[i] = IF i = 1 THEN ss[i] ELSE flat[i - 1] \o ss[i]
    <3> HIDE DEF flat
    <3> QED
      BY <2>3, Zenon
  <2> HIDE DEF flat, h, IsFlat
  <2> DEFINE U == {n \in 0 .. N : n >= 1 => flat[n] = f[n]}
  <2>5. \A n \in 0 .. N : n \in U
    <3>1. 0 \in U
      OBVIOUS
    <3>2. ASSUME NEW n \in 1 .. N, n - 1 \in U PROVE n \in U
      <4>1. ASSUME n = 1 PROVE flat[n] = f[n]
        <5>1. f[1] = << >> \o ss[1] /\ ss[1] \in Seq(X) /\ flat[1] = ss[1]
          <6>1. 1 \in 1 .. N /\ 1 - 1 = 0
            BY <4>1
          <6> QED
            BY <1>6, <2>4, <6>1
        <5>2. << >> \o ss[1] = ss[1]
          BY <5>1, ConcatEmptySeq
        <5> QED
          BY <4>1, <5>1, <5>2
      <4>2. ASSUME n # 1 PROVE flat[n] = f[n]
        <5>1. flat[n - 1] = f[n - 1]
          BY <3>2, <4>2
        <5>2. flat[n] = flat[n - 1] \o ss[n]
          BY <2>4, <4>2
        <5>3. f[n] = f[n - 1] \o ss[n]
          BY <1>6
        <5> QED
          BY <5>1, <5>2, <5>3
      <4>3. flat[n] = f[n]
        BY <4>1, <4>2
      <4> QED
        BY <4>3
    <3> HIDE DEF U
    <3> QED
      BY <3>1, <3>2, IntervalInduction
  <2>6. N \in U
    BY <2>5
  <2>7. flat[N] = f[N]
    BY <1>9, <2>6
  <2> QED
    BY <1>6, <2>1, <2>7 DEF Appends
<1> QED
  BY <1>8, <1>9

LEMMA FlattenTypes ==
  ASSUME NEW X, NEW ss \in Seq(Seq(X))
  PROVE  FlattenSeq(ss) \in Seq(X)
<1>1. Len(ss) \in Nat /\ ss \in [1 .. Len(ss) -> Seq(X)]
  OBVIOUS
<1>2. PICK f \in [0 .. Len(ss) -> Seq(X)] : Appends(f, ss, Len(ss)) /\ f[Len(ss)] = FlattenSeq(ss)
  BY <1>1, FlattenIs, Zenon
<1> QED
  BY <1>1, <1>2

LEMMA FlattenNone == FlattenSeq(<< >>) = << >>
BY DEF FlattenSeq

LEMMA FlattenAppend ==
  ASSUME NEW X, NEW ss \in Seq(Seq(X)), NEW s \in Seq(X)
  PROVE  FlattenSeq(Append(ss, s)) = FlattenSeq(ss) \o s
<1> DEFINE K  == Len(ss)
           tt == Append(ss, s)
<1>1. /\ K \in Nat /\ K + 1 \in Nat /\ tt \in [1 .. K + 1 -> Seq(X)] /\ ss \in [1 .. K -> Seq(X)]
      /\ tt[K + 1] = s /\ \A n \in 1 .. K : tt[n] = ss[n]
  <2>1. tt \in Seq(Seq(X)) /\ Len(tt) = K + 1 /\ K \in Nat
    OBVIOUS
  <2>2. tt[K + 1] = s /\ \A n \in 1 .. K : tt[n] = ss[n]
    OBVIOUS
  <2>3. ss \in [1 .. K -> Seq(X)]
    OBVIOUS
  <2> HIDE DEF K, tt
  <2>4. tt \in [1 .. K + 1 -> Seq(X)]
    BY <2>1
  <2> QED
    BY <2>1, <2>2, <2>3, <2>4
<1> HIDE DEF K, tt
<1>2. PICK f \in [0 .. K + 1 -> Seq(X)] : Appends(f, tt, K + 1) /\ f[K + 1] = FlattenSeq(tt)
  BY <1>1, FlattenIs, Zenon
<1>3. PICK g \in [0 .. K -> Seq(X)] : Appends(g, ss, K) /\ g[K] = FlattenSeq(ss)
  BY <1>1, FlattenIs, Zenon
<1> DEFINE U == {n \in 0 .. K : f[n] = g[n]}
<1>4. \A n \in 0 .. K : n \in U
  <2>1. 0 \in U
    BY <1>1, <1>2, <1>3 DEF Appends
  <2>2. ASSUME NEW n \in 1 .. K, n - 1 \in U PROVE n \in U
    <3>1. n \in 1 .. K + 1 /\ f[n - 1] = g[n - 1]
      BY <1>1, <2>2
    <3>2. f[n] = f[n - 1] \o tt[n] /\ g[n] = g[n - 1] \o ss[n] /\ tt[n] = ss[n]
      BY <1>1, <1>2, <1>3, <3>1 DEF Appends
    <3>3. f[n] = g[n] /\ n \in 0 .. K
      BY <3>1, <3>2
    <3> QED
      BY <3>3
  <2> HIDE DEF U
  <2> QED
    BY <1>1, <2>1, <2>2, IntervalInduction
<1>5. K \in 0 .. K /\ f[K] = g[K]
  BY <1>1, <1>4
<1>6. f[K + 1] = f[K] \o tt[K + 1]
  <2>1. K + 1 \in 1 .. K + 1 /\ (K + 1) - 1 = K
    BY <1>1
  <2> QED
    BY <1>2, <2>1 DEF Appends
<1> QED
  BY <1>1, <1>2, <1>3, <1>5, <1>6 DEF tt

(* w is s, which has K elements, and then t.                               *)
Joined(X, w, s, t, K) ==
  /\ w \in Seq(X) /\ Len(t) \in Nat /\ Len(w) = Len(t) + K
  /\ \A n \in 1 .. K : w[n] = s[n]
  /\ \A n \in 1 .. Len(t) : w[n + K] = t[n]

LEMMA ConcatIs ==
  ASSUME NEW X, NEW s \in Seq(X), NEW t \in Seq(X), NEW K \in Nat, Len(s) = K
  PROVE  Joined(X, s \o t, s, t, K)
BY DEF Joined

(* Concatenation associates, without the terms that say so.                *)
Associate(X, s, t, u) == s \o t \in Seq(X) /\ s \o (t \o u) = (s \o t) \o u

LEMMA SeqsAssociate ==
  ASSUME NEW X, NEW s \in Seq(X), NEW t \in Seq(X), NEW u \in Seq(X)
  PROVE  Associate(X, s, t, u)
<1> DEFINE a == s \o t
           b == t \o u
           v == s \o b
           w == a \o u
<1>1. /\ a \in Seq(X) /\ Len(a) = Len(s) + Len(t)
      /\ b \in Seq(X) /\ Len(b) = Len(t) + Len(u)
  OBVIOUS
<1>2. /\ \A n \in 1 .. Len(s) + Len(t) : a[n] = IF n <= Len(s) THEN s[n] ELSE t[n - Len(s)]
      /\ \A n \in 1 .. Len(t) + Len(u) : b[n] = IF n <= Len(t) THEN t[n] ELSE u[n - Len(t)]
  BY ConcatProperties
<1> HIDE DEF a, b
<1>3. /\ v \in Seq(X) /\ Len(v) = Len(s) + Len(b)
      /\ w \in Seq(X) /\ Len(w) = Len(a) + Len(u)
  <2>1. a \in Seq(X) /\ b \in Seq(X)
    BY <1>1
  <2> QED
    BY <2>1, ConcatProperties, Zenon
<1>4. /\ \A n \in 1 .. Len(s) + Len(b) : v[n] = IF n <= Len(s) THEN s[n] ELSE b[n - Len(s)]
      /\ \A n \in 1 .. Len(a) + Len(u) : w[n] = IF n <= Len(a) THEN a[n] ELSE u[n - Len(a)]
  <2>1. a \in Seq(X) /\ b \in Seq(X)
    BY <1>1
  <2> QED
    BY <2>1, ConcatProperties, Zenon
<1> HIDE DEF v, w
<1>5. Len(v) = Len(w) /\ Len(s) \in Nat /\ Len(t) \in Nat /\ Len(u) \in Nat
  BY <1>1, <1>3
<1>6. ASSUME NEW n \in 1 .. Len(v) PROVE v[n] = w[n]
  <2>1. n \in 1 .. Len(s) + Len(b) /\ n \in 1 .. Len(a) + Len(u)
    BY <1>3, <1>5
  <2>2. CASE n <= Len(s)
    <3>1. n <= Len(a) /\ n \in 1 .. Len(s) + Len(t)
      BY <1>1, <1>5, <2>2
    <3> QED
      BY <1>2, <1>4, <2>1, <2>2, <3>1
  <2>3. CASE ~(n <= Len(s)) /\ n <= Len(a)
    <3>1. /\ n \in 1 .. Len(s) + Len(t) /\ n - Len(s) \in 1 .. Len(t) + Len(u)
          /\ n - Len(s) <= Len(t)
      BY <1>1, <1>5, <2>3
    <3> QED
      BY <1>2, <1>4, <2>1, <2>3, <3>1
  <2>4. CASE ~(n <= Len(a))
    <3>1. /\ ~(n <= Len(s)) /\ n - Len(s) \in 1 .. Len(t) + Len(u) /\ ~(n - Len(s) <= Len(t))
          /\ (n - Len(s)) - Len(t) = n - Len(a)
      BY <1>1, <1>3, <1>5, <2>4
    <3> QED
      BY <1>2, <1>4, <2>1, <2>4, <3>1
  <2> QED
    BY <2>2, <2>3, <2>4
<1>7. v = w
  BY <1>3, <1>5, <1>6, SeqEqual
<1> QED
  BY <1>1, <1>7 DEF Associate, a, b, v, w

LEMMA FlattenConcat ==
  ASSUME NEW X, NEW ss \in Seq(Seq(X)), NEW tt \in Seq(Seq(X))
  PROVE  FlattenSeq(ss \o tt) = FlattenSeq(ss) \o FlattenSeq(tt)
<1> DEFINE K == Len(tt)
           f(m) == SubSeq(tt, 1, m)
           U == {m \in 0 .. K : FlattenSeq(ss \o f(m)) = FlattenSeq(ss) \o FlattenSeq(f(m))}
<1>1. K \in Nat /\ FlattenSeq(ss) \in Seq(X)
  BY FlattenTypes
<1>2. 0 \in U
  <2>1. f(0) = << >> /\ ss \o << >> = ss
    OBVIOUS
  <2>2. FlattenSeq(ss) \o << >> = FlattenSeq(ss)
    BY <1>1, ConcatEmptySeq
  <2>3. FlattenSeq(ss \o f(0)) = FlattenSeq(ss) \o FlattenSeq(f(0))
    <3> HIDE DEF f
    <3> QED
      BY <2>1, <2>2, FlattenNone, Zenon
  <2>4. 0 \in 0 .. K
    BY <1>1
  <2> HIDE DEF f
  <2> QED
    BY <2>3, <2>4
<1>3. ASSUME NEW m \in 1 .. K, m - 1 \in U PROVE m \in U
  <2> DEFINE u == f(m - 1)
             v == tt[m]
  <2>1. u \in Seq(Seq(X)) /\ v \in Seq(X) /\ f(m) = Append(u, v)
    OBVIOUS
  <2>2. FlattenSeq(ss \o u) = FlattenSeq(ss) \o FlattenSeq(u)
    BY <1>3
  <2> HIDE DEF u, v, f
  <2>3. ss \o Append(u, v) = Append(ss \o u, v) /\ ss \o u \in Seq(Seq(X))
    <3>1. ss \o u \in Seq(Seq(X)) /\ <<v>> \in Seq(Seq(X))
      BY <2>1
    <3>2. Append(u, v) = u \o <<v>> /\ Append(ss \o u, v) = (ss \o u) \o <<v>>
      BY <2>1, <3>1, AppendIsConcat
    <3>3. (ss \o u) \o <<v>> = ss \o (u \o <<v>>)
      <4> DEFINE t == <<v>>
      <4>1. u \in Seq(Seq(X)) /\ t \in Seq(Seq(X))
        BY <2>1, <3>1
      <4> HIDE DEF t
      <4>2. Associate(Seq(X), ss, u, t)
        BY <4>1, SeqsAssociate, Zenon
      <4> QED
        BY <4>2, Zenon DEF Associate, t
    <3> QED
      BY <3>1, <3>2, <3>3
  <2>4. FlattenSeq(Append(ss \o u, v)) = FlattenSeq(ss \o u) \o v
    BY <2>1, <2>3, FlattenAppend
  <2>5. FlattenSeq(Append(u, v)) = FlattenSeq(u) \o v
    BY <2>1, FlattenAppend
  <2>6. FlattenSeq(u) \in Seq(X)
    BY <2>1, FlattenTypes
  <2>7. (FlattenSeq(ss) \o FlattenSeq(u)) \o v = FlattenSeq(ss) \o (FlattenSeq(u) \o v)
    <3> DEFINE x == FlattenSeq(ss)
               y == FlattenSeq(u)
    <3>1. x \in Seq(X) /\ y \in Seq(X) /\ v \in Seq(X)
      BY <1>1, <2>1, <2>6
    <3> HIDE DEF x, y
    <3>2. (x \o y) \o v = x \o (y \o v)
      BY <3>1
    <3> QED
      BY <3>2 DEF x, y
  <2>8. FlattenSeq(ss \o f(m)) = FlattenSeq(ss) \o FlattenSeq(f(m))
    BY <2>1, <2>2, <2>3, <2>4, <2>5, <2>7
  <2> QED
    BY <2>8
<1> HIDE DEF U
<1>4. \A m \in 0 .. K : m \in U
  BY <1>1, <1>2, <1>3, IntervalInduction
<1>5. K \in U
  BY <1>1, <1>4
<1>6. f(K) = tt
  BY SubSeqFull
<1> QED
  BY <1>5, <1>6 DEF U

(* The sequences before the k-th, written one after the other.             *)
Preceding(ss, k) == FlattenSeq(SubSeq(ss, 1, k - 1))

LEMMA PrecedingTypes ==
  ASSUME NEW X, NEW ss \in Seq(Seq(X)), NEW k \in 1 .. Len(ss) + 1
  PROVE  Preceding(ss, k) \in Seq(X) /\ Len(Preceding(ss, k)) \in Nat
<1>1. SubSeq(ss, 1, k - 1) \in Seq(Seq(X))
  OBVIOUS
<1>2. Preceding(ss, k) \in Seq(X)
  BY <1>1, FlattenTypes DEF Preceding
<1> QED
  BY <1>2

LEMMA PrecedingFirst ==
  ASSUME NEW X, NEW ss \in Seq(Seq(X))
  PROVE  Preceding(ss, 1) = << >>
<1>1. SubSeq(ss, 1, 1 - 1) = << >>
  OBVIOUS
<1> QED
  BY <1>1, FlattenNone DEF Preceding

LEMMA PrecedingNext ==
  ASSUME NEW X, NEW ss \in Seq(Seq(X)), NEW k \in 1 .. Len(ss)
  PROVE  /\ Preceding(ss, k + 1) = Preceding(ss, k) \o ss[k]
         /\ Len(Preceding(ss, k + 1)) = Len(Preceding(ss, k)) + Len(ss[k])
<1>1. SubSeq(ss, 1, k - 1) \in Seq(Seq(X)) /\ ss[k] \in Seq(X)
  OBVIOUS
<1>2. SubSeq(ss, 1, (k + 1) - 1) = Append(SubSeq(ss, 1, k - 1), ss[k])
  OBVIOUS
<1>3. Preceding(ss, k + 1) = Preceding(ss, k) \o ss[k]
  BY <1>1, <1>2, FlattenAppend DEF Preceding
<1>4. Preceding(ss, k) \in Seq(X)
  BY PrecedingTypes
<1> QED
  BY <1>1, <1>3, <1>4

LEMMA PrecedingAll ==
  ASSUME NEW X, NEW ss \in Seq(Seq(X))
  PROVE  Preceding(ss, Len(ss) + 1) = FlattenSeq(ss)
<1>1. SubSeq(ss, 1, (Len(ss) + 1) - 1) = ss
  OBVIOUS
<1> QED
  BY <1>1 DEF Preceding

(* Where a sequence begins and the rest stands.                            *)
Begins(s, t) == Len(s) <= Len(t) /\ \A n \in 1 .. Len(s) : t[n] = s[n]

LEMMA PrecedingBegins ==
  ASSUME NEW X, NEW ss \in Seq(Seq(X)), NEW k \in 1 .. Len(ss) + 1
  PROVE  Begins(Preceding(ss, k), FlattenSeq(ss))
<1> DEFINE K == Len(ss)
           b == Preceding(ss, k)
           U == {m \in 0 .. K : m + 1 >= k => Begins(b, Preceding(ss, m + 1))}
<1>1. K \in Nat /\ b \in Seq(X)
  BY PrecedingTypes
<1>2. 0 \in U
  <2>1. 0 + 1 >= k => k = 0 + 1
    BY <1>1
  <2>2. Begins(b, b)
    BY <1>1 DEF Begins
  <2> QED
    BY <1>1, <2>1, <2>2
<1>3. ASSUME NEW m \in 1 .. K, m - 1 \in U PROVE m \in U
  <2> SUFFICES ASSUME m + 1 >= k PROVE Begins(b, Preceding(ss, m + 1))
    BY <1>1
  <2>1. CASE m + 1 = k
    BY <1>1, <2>1 DEF Begins
  <2>2. CASE m >= k
    <3> DEFINE u == Preceding(ss, m)
               v == ss[m]
    <3>1. Begins(b, u)
      <4>1. (m - 1) + 1 = m
        OBVIOUS
      <4> QED
        BY <1>3, <2>2, <4>1
    <3>2. u \in Seq(X) /\ v \in Seq(X)
      <4>1. m \in 1 .. Len(ss) + 1
        OBVIOUS
      <4> QED
        BY <4>1, PrecedingTypes
    <3>3. Preceding(ss, m + 1) = u \o v
      BY PrecedingNext
    <3> HIDE DEF b, u, v
    <3>4. \A n \in 1 .. Len(b) : (u \o v)[n] = u[n] /\ u[n] = b[n]
      BY <1>1, <3>1, <3>2 DEF Begins
    <3>5. Len(b) <= Len(u \o v)
      BY <1>1, <3>1, <3>2 DEF Begins
    <3> QED
      BY <3>3, <3>4, <3>5 DEF Begins
  <2> QED
    BY <1>1, <1>3, <2>1, <2>2
<1> HIDE DEF U
<1>4. \A m \in 0 .. K : m \in U
  BY <1>1, <1>2, <1>3, IntervalInduction
<1>5. K \in U /\ K + 1 >= k
  BY <1>1, <1>4
<1>6. Begins(b, Preceding(ss, K + 1))
  BY <1>5 DEF U
<1> QED
  BY <1>6, PrecedingAll

(* The k-th sequence stands behind those before it.                        *)
LEMMA FlattenPiece ==
  ASSUME NEW X, NEW ss \in Seq(Seq(X)), NEW k \in 1 .. Len(ss)
  PROVE  LET p == Len(Preceding(ss, k))
             w == FlattenSeq(ss)
         IN  /\ p + Len(ss[k]) <= Len(w)
             /\ \A n \in 1 .. Len(ss[k]) : w[p + n] = ss[k][n]
<1> DEFINE u == Preceding(ss, k)
           v == ss[k]
           w == FlattenSeq(ss)
<1>1. u \in Seq(X) /\ v \in Seq(X) /\ w \in Seq(X)
  <2>1. k \in 1 .. Len(ss) + 1
    OBVIOUS
  <2> QED
    BY <2>1, PrecedingTypes, FlattenTypes
<1>2. Begins(u \o v, w)
  <2>1. k + 1 \in 1 .. Len(ss) + 1
    OBVIOUS
  <2>2. Begins(Preceding(ss, k + 1), w)
    BY <2>1, PrecedingBegins
  <2> QED
    BY <2>2, PrecedingNext
<1> HIDE DEF u, v, w
<1>3. \A n \in 1 .. Len(v) : (u \o v)[Len(u) + n] = v[n] /\ Len(u) + n \in 1 .. Len(u \o v)
  BY <1>1
<1>4. Len(u \o v) = Len(u) + Len(v)
  BY <1>1
<1>5. Len(u) + Len(v) <= Len(w) /\ \A n \in 1 .. Len(v) : w[Len(u) + n] = v[n]
  BY <1>2, <1>3, <1>4 DEF Begins
<1> QED
  BY <1>5 DEF u, v, w
=============================================================================
