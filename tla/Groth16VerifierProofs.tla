------------------------ MODULE Groth16VerifierProofs ------------------------
(***************************************************************************)
(* verifyProof for any groups, any verification key and any number of      *)
(* public signals: it answers true exactly when the proof verifies and no  *)
(* precompiled contract failed.  The invariant says what each word of      *)
(* memory that is still to be read holds.                                  *)
(***************************************************************************)
EXTENDS Groth16Verifier, CommonLemmas

Signal(n) == args.pubSignals[n]

(* What is to be returned is known only at the end; the signals before the *)
(* one in work have been found in the field.                               *)
ControlInv ==
  /\ pc # "returned" => result = "none" /\ ~failed
  /\ pc = "returned" => result # "none"
  /\ pc = "field" => \A n \in 1 .. i - 1 : Signal(n) < R
  /\ pc \in {"multiply", "add", "pairing"} => \A n \in 1 .. NPublic : Signal(n) < R

(* The addition reads the product and, behind it, a copy of the sum.       *)
AddendsInv ==
  pc = "add" =>
    /\ Load(mem, pLastMem) = Coordinates((Signal(i) * IC[i + 1]) % R)
    /\ Load(mem, pLastMem + 2) = Coordinates(VkX(i - 1))

VerifierInv ==
  VerifierTypeOK /\ ControlInv /\ SumSoFar /\ AddendsInv /\ AcceptsExactlyProofs /\ FailureIsFalse

-----------------------------------------------------------------------------
(* Arithmetic                                                              *)

LEMMA Remainder ==
  ASSUME NEW a \in Int, NEW b \in Nat \ {0}
  PROVE  a % b \in 0 .. b - 1
OBVIOUS

LEMMA Sizes ==
  /\ R \in Nat /\ R > 2 /\ Base \in Nat /\ Base > 4 /\ Base > R
  /\ WordMax \in Nat /\ WordMax >= 2 * Base
  /\ Point \subseteq Word /\ Point \subseteq Nat /\ 0 \in Point /\ 0 \in Word /\ 1 \in Word
  /\ \A x \in Int : x % R \in Point
  /\ NPublic \in Nat \ {0} /\ \A n \in 1 .. NPublic + 1 : IC[n] \in Point
  /\ {Alpha, Beta, Gamma, Delta} \subseteq Point
<1>1. /\ R \in Nat /\ R > 2 /\ Base \in Nat /\ Base > 4 /\ Base > R
      /\ WordMax \in Nat /\ WordMax >= 2 * Base
  BY VerifierAssumption
<1>2. /\ Point \subseteq Word /\ Point \subseteq Nat /\ 0 \in Point /\ 0 \in Word /\ 1 \in Word
  BY <1>1 DEF Point, Word
<1>3. \A x \in Int : x % R \in Point
  BY <1>1, Remainder DEF Point
<1>4. NPublic \in Nat \ {0} /\ \A n \in 1 .. NPublic + 1 : IC[n] \in Point
  BY VerifierAssumption DEF NPublic
<1> QED
  BY <1>1, <1>2, <1>3, <1>4, VerifierAssumption

(* A point and its negative have the same x; their y are different.        *)
LEMMA CoordinatesOf ==
  ASSUME NEW p \in Point
  PROVE  /\ p = 0 => Coordinates(p) = <<0, 0>>
         /\ p > 0 /\ p <= R \div 2 => Coordinates(p) = <<p, 1>>
         /\ p > R \div 2 => Coordinates(p) = <<R - p, Base - 1>>
         /\ R \div 2 \in Nat /\ p \in Nat /\ p < R
<1>1. R \div 2 \in Nat /\ p \in Nat /\ p < R
  BY Sizes DEF Point
<1> QED
  BY <1>1 DEF Coordinates

LEMMA CoordinatesAreWords ==
  ASSUME NEW p \in Point
  PROVE  /\ Coordinates(p) = <<Coordinates(p)[1], Coordinates(p)[2]>>
         /\ Coordinates(p)[1] \in Word /\ Coordinates(p)[2] \in Word
<1> USE Sizes, CoordinatesOf DEF Word
<1>1. CASE p = 0
  BY <1>1
<1>2. CASE p > 0 /\ p <= R \div 2
  BY <1>2
<1>3. CASE p > R \div 2
  BY <1>3
<1> QED
  BY <1>1, <1>2, <1>3

LEMMA CoordinatesDiffer ==
  ASSUME NEW p \in Point, NEW o \in Point, Coordinates(p) = Coordinates(o)
  PROVE  p = o
<1>1. /\ p = 0 => Coordinates(p)[1] = 0
      /\ p > 0 => Coordinates(p)[1] > 0
  BY CoordinatesOf, Sizes
<1>2. /\ o = 0 => Coordinates(o)[1] = 0
      /\ o > 0 => Coordinates(o)[1] > 0
  BY CoordinatesOf, Sizes
<1>3. CASE p = 0 \/ o = 0
  BY <1>1, <1>2, <1>3, CoordinatesOf
<1>4. CASE p > 0 /\ o > 0
  <2>1. /\ p <= R \div 2 => Coordinates(p)[1] = p /\ Coordinates(p)[2] = 1
        /\ p > R \div 2 => Coordinates(p)[1] = R - p /\ Coordinates(p)[2] = Base - 1
    BY <1>4, CoordinatesOf
  <2>2. /\ o <= R \div 2 => Coordinates(o)[1] = o /\ Coordinates(o)[2] = 1
        /\ o > R \div 2 => Coordinates(o)[1] = R - o /\ Coordinates(o)[2] = Base - 1
    BY <1>4, CoordinatesOf
  <2>3. R \div 2 \in Nat /\ p \in Nat /\ o \in Nat
    BY CoordinatesOf
  <2> QED
    BY <2>1, <2>2, <2>3, Sizes
<1> QED
  BY <1>3, <1>4, CoordinatesOf

(* The coordinates of a point are on the curve, at that point.             *)
LEMMA PointOfCoordinates ==
  ASSUME NEW p \in Point, NEW x, NEW y, Coordinates(p) = <<x, y>>
  PROVE  OnCurve(x, y) /\ PointAt(x, y) = p
<1>1. OnCurve(x, y)
  BY DEF OnCurve
<1>2. PointAt(x, y) \in Point /\ Coordinates(PointAt(x, y)) = <<x, y>>
  BY DEF PointAt
<1> QED
  BY <1>1, <1>2, CoordinatesDiffer

-----------------------------------------------------------------------------
LEMMA SignalsAreWords ==
  ASSUME VerifierTypeOK
  PROVE  args.pubSignals \in [1 .. NPublic -> Word]
<1>1. args \in CallData
  BY DEF VerifierTypeOK
<1> QED
  BY <1>1, VerifierAssumption

(* One more term keeps the sum a point.                                    *)
LEMMA Term ==
  ASSUME NEW x \in Point, NEW s \in Nat, NEW p \in Point
  PROVE  (x + s * p) % R \in Point
<1>1. x \in Int /\ s \in Int /\ p \in Int
  BY VerifierAssumption DEF Point
<1>2. x + s * p \in Int
  BY <1>1
<1> QED
  BY <1>2, Sizes

(* There is a function that satisfies the equations of VkX.                *)
LEMMA SumExists ==
  ASSUME NEW N \in Nat, NEW s \in [1 .. N -> Nat], NEW P \in [1 .. N + 1 -> Point]
  PROVE  \E f \in [0 .. N -> Point] : f = [n \in 0 .. N |-> IF n = 0 THEN P[1] ELSE (f[n - 1] + s[n] * P[n + 1]) % R]
<1> DEFINE step == [p \in Point \X (1 .. N) |-> (p[1] + s[p[2]] * P[p[2] + 1]) % R]
<1>1. step \in StepsOn(N, Point)
  <2> SUFFICES ASSUME NEW x \in Point, NEW n \in 1 .. N
               PROVE  (x + s[n] * P[n + 1]) % R \in Point
    BY DEF StepsOn
  <2>1. s[n] \in Nat /\ P[n + 1] \in Point
    OBVIOUS
  <2> QED
    BY <2>1, Term
<1>2. \A x \in Point, n \in 1 .. N : step[<<x, n>>] = (x + s[n] * P[n + 1]) % R
  OBVIOUS
<1>3. P[1] \in Point
  OBVIOUS
<1> HIDE DEF step
<1>4. PICK f \in [0 .. N -> Point] :
        Recursive(f, N, P[1], step)
  BY <1>1, <1>3, RecursionExists, Zenon
<1>5. ASSUME NEW n \in 0 .. N, n # 0
      PROVE  step[<<f[n - 1], n>>] = (f[n - 1] + s[n] * P[n + 1]) % R
  <2>1. n \in 1 .. N /\ n - 1 \in 0 .. N
    BY <1>5
  <2>2. f[n - 1] \in Point
    BY <2>1
  <2> QED
    BY <2>1, <2>2, <1>2
<1>6. \A n \in 0 .. N : f[n] = IF n = 0 THEN P[1] ELSE (f[n - 1] + s[n] * P[n + 1]) % R
  <2> TAKE n \in 0 .. N
  <2>1. CASE n = 0
    BY <1>4, <2>1 DEF Recursive
  <2>2. CASE n # 0
    <3>1. n \in 1 .. N
      BY <2>2
    <3>2. f[n] = step[<<f[n - 1], n>>]
      BY <1>4, <3>1 DEF Recursive
    <3> QED
      BY <1>5, <2>2, <3>2
  <2> QED
    BY <2>1, <2>2
<1>7. f = [n \in 0 .. N |-> f[n]]
  OBVIOUS
<1>8. f = [n \in 0 .. N |->
             IF n = 0 THEN P[1] ELSE (f[n - 1] + s[n] * P[n + 1]) % R]
  BY <1>6, <1>7, Zenon
<1> QED BY <1>8

(* The sum over the public signals, signal by signal.                      *)
LEMMA SumStep ==
  ASSUME VerifierTypeOK
  PROVE  /\ VkX(0) = IC[1]
         /\ \A n \in 0 .. NPublic : VkX(n) \in Point
         /\ \A n \in 1 .. NPublic : VkX(n) = (VkX(n - 1) + Signal(n) * IC[n + 1]) % R
<1> DEFINE sum == CHOOSE f : f = [n \in 0 .. NPublic |->
                    IF n = 0 THEN IC[1] ELSE (f[n - 1] + args.pubSignals[n] * IC[n + 1]) % R]
           s == [n \in 1 .. NPublic |-> args.pubSignals[n]]
           P == [n \in 1 .. NPublic + 1 |-> IC[n]]
<1>1. s \in [1 .. NPublic -> Nat] /\ P \in [1 .. NPublic + 1 -> Point] /\ NPublic \in Nat \ {0}
  <2>1. \A w \in Word : w \in Nat
    BY DEF Word
  <2>2. \A n \in 1 .. NPublic : args.pubSignals[n] \in Word
    BY SignalsAreWords
  <2> QED
    BY <2>1, <2>2, Sizes
<1>2. \A n \in 0 .. NPublic : n # 0 => s[n] = args.pubSignals[n] /\ P[n + 1] = IC[n + 1]
  BY <1>1
<1>3. P[1] = IC[1]
  BY <1>1
<1> HIDE DEF s, P
<1>4. PICK f \in [0 .. NPublic -> Point] :
        f = [n \in 0 .. NPublic |-> IF n = 0 THEN P[1] ELSE (f[n - 1] + s[n] * P[n + 1]) % R]
  BY <1>1, SumExists
<1>5. f = [n \in 0 .. NPublic |->
             IF n = 0 THEN IC[1] ELSE (f[n - 1] + args.pubSignals[n] * IC[n + 1]) % R]
  BY <1>2, <1>3, <1>4
<1>6. sum = [n \in 0 .. NPublic |->
               IF n = 0 THEN IC[1] ELSE (sum[n - 1] + args.pubSignals[n] * IC[n + 1]) % R]
  BY <1>5
<1>7. \A n : VkX(n) = sum[n]
  BY DEF VkX
<1> HIDE DEF sum
<1>8. VkX(0) = IC[1]
  <2>1. 0 \in 0 .. NPublic
    BY <1>1
  <2>2. sum[0] = IC[1]
    BY <1>6, <2>1
  <2> QED
    BY <1>7, <2>2
<1>9. \A n \in 1 .. NPublic : VkX(n) = (VkX(n - 1) + Signal(n) * IC[n + 1]) % R
  <2> TAKE n \in 1 .. NPublic
  <2>1. n \in 0 .. NPublic /\ n # 0
    BY <1>1
  <2> QED
    BY <1>6, <1>7, <2>1 DEF Signal
<1>10. \A n \in 0 .. NPublic : VkX(n) \in Point
  <2> DEFINE T == {n \in 0 .. NPublic : VkX(n) \in Point}
  <2>1. 0 \in T
    BY <1>1, <1>3, <1>8
  <2>2. ASSUME NEW n \in 1 .. NPublic, n - 1 \in T PROVE n \in T
    <3>1. VkX(n - 1) \in Point /\ n \in 0 .. NPublic
      BY <2>2
    <3>2. s[n] \in Nat /\ P[n + 1] \in Point
      BY <1>1
    <3>3. Signal(n) \in Nat /\ IC[n + 1] \in Point
      BY <1>2, <3>1, <3>2 DEF Signal
    <3>4. VkX(n) \in Point
      BY <1>9, <3>1, <3>3, Term
    <3> QED
      BY <3>1, <3>4
  <2> HIDE DEF T
  <2>3. NPublic \in Nat
    BY <1>1
  <2>4. \A n \in 0 .. NPublic : n \in T
    BY <2>1, <2>2, <2>3, IntervalInduction
  <2> QED
    BY <2>4 DEF T
<1> QED
  BY <1>8, <1>9, <1>10

-----------------------------------------------------------------------------
(* Memory                                                                  *)

(* n words are stored from address at on, and nothing else is.             *)
LEMMA Stored ==
  ASSUME NEW m \in [0 .. pLastMem + 3 -> Word], NEW n \in Nat, NEW w \in [1 .. n -> Word], NEW at \in Nat
  PROVE  /\ Store(m, at, w) \in [0 .. pLastMem + 3 -> Word]
         /\ \A a \in 0 .. pLastMem + 3 :
              Store(m, at, w)[a] = IF at <= a /\ a < at + n THEN w[a - at + 1] ELSE m[a]
<1>1. DOMAIN m = 0 .. pLastMem + 3 /\ DOMAIN w = 1 .. n
  OBVIOUS
<1>2. \A a \in 0 .. pLastMem + 3 : a - at + 1 \in 1 .. n <=> at <= a /\ a < at + n
  <2> TAKE a \in 0 .. pLastMem + 3
  <2>1. a \in Int
    BY DEF pLastMem
  <2> QED
    BY <2>1
<1>3. Store(m, at, w) = [a \in 0 .. pLastMem + 3 |-> IF at <= a /\ a < at + n THEN w[a - at + 1] ELSE m[a]]
  BY <1>1, <1>2 DEF Store
<1> QED
  BY <1>2, <1>3

(* Two words hold the coordinates of a point exactly if they are them.     *)
LEMMA StoredPoint ==
  ASSUME NEW m \in [0 .. pLastMem + 3 -> Word], NEW p \in Point, NEW at \in 0 .. pLastMem + 2
  PROVE  /\ Store(m, at, Coordinates(p)) \in [0 .. pLastMem + 3 -> Word]
         /\ Load(Store(m, at, Coordinates(p)), at) = Coordinates(p)
         /\ \A a \in 0 .. pLastMem + 3 :
              a \notin {at, at + 1} => Store(m, at, Coordinates(p))[a] = m[a]
<1> DEFINE w == Coordinates(p)
<1>1. w = <<w[1], w[2]>> /\ w[1] \in Word /\ w[2] \in Word
  BY CoordinatesAreWords
<1> HIDE DEF w
<1>2. w \in [1 .. 2 -> Word]
  BY <1>1
<1>3. at \in Nat /\ at \in 0 .. pLastMem + 3 /\ at + 1 \in 0 .. pLastMem + 3
  BY DEF pLastMem
<1>4. /\ Store(m, at, w) \in [0 .. pLastMem + 3 -> Word]
      /\ \A a \in 0 .. pLastMem + 3 :
              Store(m, at, w)[a] = IF at <= a /\ a < at + 2 THEN w[a - at + 1] ELSE m[a]
  BY <1>2, <1>3, Stored
<1>5. Store(m, at, w)[at] = w[1] /\ Store(m, at, w)[at + 1] = w[2]
  BY <1>3, <1>4
<1>6. Load(Store(m, at, w), at) = w
  BY <1>1, <1>5 DEF Load
<1>7. \A a \in 0 .. pLastMem + 3 : a \notin {at, at + 1} => Store(m, at, w)[a] = m[a]
  BY <1>3, <1>4 DEF pLastMem
<1> QED
  BY <1>4, <1>6, <1>7 DEF w

LEMMA StoredMulInput ==
  ASSUME NEW m \in [0 .. pLastMem + 3 -> Word], NEW p \in Point, NEW s \in Word
  PROVE  /\ MulInput(m, p, s) \in [0 .. pLastMem + 3 -> Word]
         /\ Load(MulInput(m, p, s), pLastMem) = Coordinates(p)
         /\ MulInput(m, p, s)[pLastMem + 2] = s
         /\ \A a \in 0 .. pLastMem - 1 : MulInput(m, p, s)[a] = m[a]
<1> DEFINE m1 == Store(m, pLastMem, Coordinates(p))
           w == <<s>>
<1>1. pLastMem \in 0 .. pLastMem + 2 /\ pLastMem + 2 \in Nat
  BY DEF pLastMem
<1>2. /\ m1 \in [0 .. pLastMem + 3 -> Word] /\ Load(m1, pLastMem) = Coordinates(p)
      /\ \A a \in 0 .. pLastMem + 3 : a \notin {pLastMem, pLastMem + 1} => m1[a] = m[a]
  BY <1>1, StoredPoint
<1> HIDE DEF m1
<1>3. w \in [1 .. 1 -> Word] /\ w[1] = s
  OBVIOUS
<1> HIDE DEF w
<1>4. /\ Store(m1, pLastMem + 2, w) \in [0 .. pLastMem + 3 -> Word]
      /\ \A a \in 0 .. pLastMem + 3 :
           Store(m1, pLastMem + 2, w)[a] =
             IF pLastMem + 2 <= a /\ a < pLastMem + 2 + 1 THEN w[a - (pLastMem + 2) + 1] ELSE m1[a]
  BY <1>1, <1>2, <1>3, Stored
<1>5. MulInput(m, p, s) = Store(m1, pLastMem + 2, w)
  BY DEF MulInput, m1, w
<1>6. /\ MulInput(m, p, s)[pLastMem] = m1[pLastMem] /\ MulInput(m, p, s)[pLastMem + 1] = m1[pLastMem + 1]
      /\ MulInput(m, p, s)[pLastMem + 2] = s
      /\ \A a \in 0 .. pLastMem - 1 : MulInput(m, p, s)[a] = m[a]
  BY <1>2, <1>3, <1>4, <1>5 DEF pLastMem
<1> QED
  BY <1>2, <1>4, <1>5, <1>6 DEF Load

-----------------------------------------------------------------------------
(* The steps                                                               *)

(* What depends on the call data alone does not change.                    *)
LEMMA SameArguments ==
  ASSUME args' = args
  PROVE  /\ \A n : VkX(n)' = VkX(n) /\ Signal(n)' = Signal(n)
         /\ Verifies' <=> Verifies
<1>1. \A n : VkX(n)' = VkX(n) /\ Signal(n)' = Signal(n)
  BY DEF VkX, Signal
<1>2. VkX(NPublic)' = VkX(NPublic)
  BY DEF VkX
<1> QED
  BY <1>1, <1>2 DEF Verifies

LEMMA VerifierInit == Init => VerifierInv
<1> SUFFICES ASSUME Init PROVE VerifierInv
  OBVIOUS
<1>1. VerifierTypeOK
  <2>1. mem \in [0 .. pLastMem + 3 -> Word]
    BY Sizes DEF Init
  <2>2. 1 \in 1 .. NPublic
    BY Sizes
  <2> QED
    BY <2>1, <2>2 DEF Init, VerifierTypeOK
<1> QED
  BY <1>1, Sizes DEF Init, VerifierInv, ControlInv, SumSoFar, AddendsInv, AcceptsExactlyProofs, FailureIsFalse

LEMMA CheckFieldStep ==
  ASSUME VerifierInv, CheckField
  PROVE  VerifierInv'
<1> USE DEF VerifierInv
<1>1. args' = args /\ failed' = failed /\ pc = "field" /\ ~failed /\ result = "none"
  BY DEF CheckField, ControlInv
<1>2. i \in 1 .. NPublic /\ NPublic \in Nat \ {0}
  BY Sizes DEF VerifierTypeOK
<1>3. CASE args.pubSignals[i] >= R /\ Return("false") /\ UNCHANGED <<mem, i>>
  <2>1. ~Verifies
    <3>1. args.pubSignals[i] \in Nat
      BY <1>2, SignalsAreWords, Sizes, SMTT(30) DEF Word
    <3>2. ~(args.pubSignals[i] < R)
      BY <1>3, <3>1, Sizes
    <3> QED
      BY <1>2, <3>2 DEF Verifies
  <2>2. pc' = "returned" /\ result' = "false"
    BY <1>3 DEF Return
  <2>3. VerifierTypeOK'
    BY <1>1, <1>3, <2>2 DEF VerifierTypeOK
  <2>4. ControlInv' /\ SumSoFar' /\ AddendsInv' /\ FailureIsFalse'
    BY <1>1, <2>2 DEF ControlInv, SumSoFar, AddendsInv, FailureIsFalse
  <2>5. AcceptsExactlyProofs'
    BY <1>1, <2>1, <2>2, SameArguments DEF AcceptsExactlyProofs
  <2> QED
    BY <2>3, <2>4, <2>5
<1>4. CASE /\ args.pubSignals[i] < R /\ i < NPublic
           /\ i' = i + 1 /\ UNCHANGED <<pc, mem, result>>
  <2>1. VerifierTypeOK'
    BY <1>1, <1>2, <1>4 DEF VerifierTypeOK
  <2>2. \A n \in 1 .. i' - 1 : Signal(n)' < R
    <3>1. \A n \in 1 .. i - 1 : Signal(n) < R
      BY <1>1 DEF ControlInv
    <3>2. \A n \in 1 .. i' - 1 : n \in 1 .. i - 1 \/ n = i
      BY <1>2, <1>4
    <3> QED
      BY <1>1, <1>4, <3>1, <3>2 DEF Signal
  <2>3. ControlInv' /\ SumSoFar' /\ AddendsInv' /\ FailureIsFalse' /\ AcceptsExactlyProofs'
    BY <1>1, <1>4, <2>2 DEF ControlInv, SumSoFar, AddendsInv, FailureIsFalse, AcceptsExactlyProofs
  <2> QED
    BY <2>1, <2>3
<1>5. CASE /\ args.pubSignals[i] < R /\ ~(i < NPublic) /\ i' = 1 /\ pc' = "multiply"
           /\ mem' = Store(mem, pVk, Coordinates(IC[1])) /\ result' = result
  <2>1. IC[1] \in Point /\ pVk \in 0 .. pLastMem + 2
    BY Sizes DEF pVk, pLastMem
  <2>2. mem' \in [0 .. pLastMem + 3 -> Word] /\ Load(mem, pVk)' = Coordinates(IC[1])
    <3>1. mem \in [0 .. pLastMem + 3 -> Word]
      BY DEF VerifierTypeOK
    <3> QED
      BY <1>5, <2>1, <3>1, StoredPoint DEF Load
  <2>3. VerifierTypeOK'
    BY <1>1, <1>2, <1>5, <2>2 DEF VerifierTypeOK
  <2>4. \A n \in 1 .. NPublic : Signal(n)' < R
    <3>1. \A n \in 1 .. i - 1 : Signal(n) < R
      BY <1>1 DEF ControlInv
    <3>2. \A n \in 1 .. NPublic : n \in 1 .. i - 1 \/ n = i
      BY <1>2, <1>5
    <3> QED
      BY <1>1, <1>5, <3>1, <3>2 DEF Signal
  <2>5. SumSoFar'
    <3>1. VkX(0)' = IC[1] /\ i' - 1 = 0
      BY <1>1, <1>5, SumStep, SameArguments
    <3> QED
      BY <1>5, <2>2, <3>1 DEF SumSoFar
  <2>6. ControlInv' /\ AddendsInv' /\ FailureIsFalse' /\ AcceptsExactlyProofs'
    BY <1>1, <1>5, <2>4 DEF ControlInv, AddendsInv, FailureIsFalse, AcceptsExactlyProofs
  <2> QED
    BY <2>3, <2>5, <2>6
<1> QED
  BY <1>1, <1>3, <1>4, <1>5 DEF CheckField

LEMMA MultiplyStep ==
  ASSUME VerifierInv, Multiply
  PROVE  VerifierInv'
<1> USE DEF VerifierInv
<1>1. /\ args' = args /\ failed' = failed /\ result' = result /\ i' = i /\ pc' = "add"
      /\ pc = "multiply" /\ ~failed /\ result = "none"
  BY DEF Multiply, ControlInv
<1> DEFINE s == args.pubSignals[i]
           p == IC[i + 1]
           input == MulInput(mem, p, s)
           product == (s * p) % R
           m == Store(input, pLastMem, Coordinates(product))
<1>2. /\ mem \in [0 .. pLastMem + 3 -> Word] /\ i \in 1 .. NPublic /\ NPublic \in Nat
      /\ s \in Word /\ p \in Point /\ product \in Point /\ VkX(i - 1) \in Point
  <2>1. mem \in [0 .. pLastMem + 3 -> Word] /\ i \in 1 .. NPublic /\ NPublic \in Nat
    BY Sizes DEF VerifierTypeOK
  <2>2. s \in Word /\ p \in Point
    <3>1. i + 1 \in 1 .. NPublic + 1
      BY <2>1
    <3>2. args.pubSignals \in [1 .. NPublic -> Word]
      BY SignalsAreWords
    <3> QED
      BY <2>1, <3>1, <3>2, Sizes
  <2>3. s * p \in Int
    BY <2>2 DEF Word, Point
  <2>4. product \in Point
    BY <2>3, Sizes
  <2>5. VkX(i - 1) \in Point
    BY <2>1, SumStep
  <2> QED
    BY <2>1, <2>2, <2>4, <2>5
<1>3. /\ input \in [0 .. pLastMem + 3 -> Word] /\ Load(input, pLastMem) = Coordinates(p)
      /\ input[pLastMem + 2] = s /\ \A a \in 0 .. pLastMem - 1 : input[a] = mem[a]
  <2> HIDE DEF s, p
  <2> QED
    BY <1>2, StoredMulInput, Zenon
<1>4. PointAt(input[pLastMem], input[pLastMem + 1]) = p
  BY <1>2, <1>3, PointOfCoordinates DEF Load
<1>5. Load(input, pVk) = Coordinates(VkX(i - 1))
  <2>1. pVk \in 0 .. pLastMem - 1 /\ pVk + 1 \in 0 .. pLastMem - 1
    BY DEF pVk, pLastMem
  <2>2. Load(mem, pVk) = Coordinates(VkX(i - 1))
    BY <1>1 DEF SumSoFar
  <2> QED
    BY <1>3, <2>1, <2>2 DEF Load
<1>6. mem' = Store(m, pLastMem + 2, Coordinates(VkX(i - 1)))
  BY <1>3, <1>4, <1>5 DEF Multiply
<1> HIDE DEF s, p, input, product
<1>7. /\ m \in [0 .. pLastMem + 3 -> Word] /\ Load(m, pLastMem) = Coordinates(product)
  <2>1. pLastMem \in 0 .. pLastMem + 2
    BY DEF pLastMem
  <2> QED
    BY <1>2, <1>3, <2>1, StoredPoint
<1> HIDE DEF m
<1>8. /\ mem' \in [0 .. pLastMem + 3 -> Word]
      /\ Load(mem', pLastMem + 2) = Coordinates(VkX(i - 1))
      /\ Load(mem', pLastMem) = Coordinates(product)
  <2>1. pLastMem + 2 \in 0 .. pLastMem + 2
    BY DEF pLastMem
  <2>2. /\ mem' \in [0 .. pLastMem + 3 -> Word]
        /\ Load(mem', pLastMem + 2) = Coordinates(VkX(i - 1))
        /\ \A a \in 0 .. pLastMem + 3 : a \notin {pLastMem + 2, pLastMem + 2 + 1} => mem'[a] = m[a]
    BY <1>2, <1>6, <1>7, <2>1, StoredPoint, Zenon
  <2>3. mem'[pLastMem] = m[pLastMem] /\ mem'[pLastMem + 1] = m[pLastMem + 1]
    BY <2>2 DEF pLastMem
  <2> QED
    BY <1>7, <2>2, <2>3 DEF Load
<1>9. VerifierTypeOK'
  BY <1>1, <1>2, <1>8 DEF VerifierTypeOK
<1>10. AddendsInv'
  <2>1. VkX(i - 1)' = VkX(i - 1) /\ Signal(i)' = Signal(i)
    BY <1>1, SameArguments
  <2>2. product = (Signal(i) * IC[i + 1]) % R
    BY DEF product, s, p, Signal
  <2> QED
    BY <1>1, <1>8, <2>1, <2>2 DEF AddendsInv, Load
<1>11. ControlInv' /\ SumSoFar' /\ FailureIsFalse' /\ AcceptsExactlyProofs'
  <2>1. \A n \in 1 .. NPublic : Signal(n)' < R
    BY <1>1 DEF ControlInv, Signal
  <2> QED
    BY <1>1, <2>1 DEF ControlInv, SumSoFar, FailureIsFalse, AcceptsExactlyProofs
<1> QED
  BY <1>9, <1>10, <1>11

LEMMA AddStep ==
  ASSUME VerifierInv, Add
  PROVE  VerifierInv'
<1> USE DEF VerifierInv
<1>1. /\ args' = args /\ failed' = failed /\ result' = result
      /\ pc = "add" /\ ~failed /\ result = "none"
  BY DEF Add, ControlInv
<1> DEFINE product == (Signal(i) * IC[i + 1]) % R
           before == VkX(i - 1)
           p == Load(mem, pLastMem)
           o == Load(mem, pLastMem + 2)
<1>2. /\ mem \in [0 .. pLastMem + 3 -> Word] /\ i \in 1 .. NPublic /\ NPublic \in Nat
      /\ Signal(i) \in Nat /\ IC[i + 1] \in Nat
  <2>1. mem \in [0 .. pLastMem + 3 -> Word] /\ i \in 1 .. NPublic /\ NPublic \in Nat
    BY Sizes DEF VerifierTypeOK
  <2>2. i + 1 \in 1 .. NPublic + 1
    BY <2>1
  <2>3. args.pubSignals \in [1 .. NPublic -> Word]
    BY SignalsAreWords
  <2>4. \A w \in Word : w \in Nat
    BY DEF Word
  <2> QED
    BY <2>1, <2>2, <2>3, <2>4, Sizes DEF Signal
<1>3. Signal(i) * IC[i + 1] \in Int /\ product \in Point /\ before \in Point
  <2>1. Signal(i) * IC[i + 1] \in Int
    BY <1>2
  <2> QED
    <3>1. product \in Point
      BY <2>1, Sizes
    <3>2. i - 1 \in 0 .. NPublic
      BY <1>2
    <3> QED
      BY <2>1, <3>1, <3>2, SumStep
<1>4. p = Coordinates(product) /\ o = Coordinates(before)
  BY <1>1 DEF AddendsInv
<1>5. PointAt(p[1], p[2]) = product /\ PointAt(o[1], o[2]) = before
  BY <1>3, <1>4, PointOfCoordinates DEF Load
<1>6. (product + before) % R = VkX(i)
  <2>1. R \in Nat \ {0} /\ before \in Int
    BY <1>3, Sizes DEF Point
  <2>2. (product + before) % R = (before + Signal(i) * IC[i + 1]) % R
    BY <1>3, <2>1, ModAdd
  <2>3. VkX(i) = (before + Signal(i) * IC[i + 1]) % R
    BY <1>2, SumStep
  <2> QED
    BY <2>2, <2>3
<1>7. mem' = Store(mem, pVk, Coordinates(VkX(i)))
  BY <1>5, <1>6 DEF Add
<1>8. mem' \in [0 .. pLastMem + 3 -> Word] /\ Load(mem, pVk)' = Coordinates(VkX(i))
  <2>1. pVk \in 0 .. pLastMem + 2 /\ VkX(i) \in Point
    BY <1>2, SumStep DEF pVk, pLastMem
  <2> QED
    BY <1>2, <1>7, <2>1, StoredPoint DEF Load
<1>9. \/ i < NPublic /\ i' = i + 1 /\ pc' = "multiply"
      \/ ~(i < NPublic) /\ i' = i /\ pc' = "pairing"
  BY DEF Add
<1> HIDE DEF product, before, p, o
<1>10. VerifierTypeOK'
  BY <1>1, <1>2, <1>8, <1>9 DEF VerifierTypeOK
<1>11. SumSoFar'
  <2>1. i' = i + 1 => i' - 1 = i
    BY <1>2
  <2>2. ~(i < NPublic) => i = NPublic
    BY <1>2
  <2>3. VkX(i)' = VkX(i') /\ \A n : VkX(n)' = VkX(n)
    BY <1>1, SameArguments
  <2>4. CASE i' = i + 1 /\ pc' = "multiply"
    BY <1>8, <2>1, <2>3, <2>4 DEF SumSoFar
  <2>5. CASE ~(i < NPublic) /\ pc' = "pairing"
    BY <1>8, <2>2, <2>3, <2>5 DEF SumSoFar
  <2> QED
    BY <1>9, <2>4, <2>5
<1>12. ControlInv' /\ AddendsInv' /\ FailureIsFalse' /\ AcceptsExactlyProofs'
  <2>1. \A n \in 1 .. NPublic : Signal(n)' < R
    BY <1>1 DEF ControlInv, Signal
  <2> QED
    BY <1>1, <1>9, <2>1 DEF ControlInv, AddendsInv, FailureIsFalse, AcceptsExactlyProofs
<1> QED
  BY <1>10, <1>11, <1>12

LEMMA CallFailsStep ==
  ASSUME VerifierInv, CallFails
  PROVE  VerifierInv'
<1> USE DEF VerifierInv
<1>1. /\ args' = args /\ mem' = mem /\ i' = i /\ failed' = TRUE
      /\ pc' = "returned" /\ result' = "false"
  BY DEF CallFails, Return
<1>2. VerifierTypeOK'
  BY <1>1 DEF VerifierTypeOK
<1> QED
  BY <1>1, <1>2 DEF ControlInv, SumSoFar, AddendsInv, FailureIsFalse, AcceptsExactlyProofs

(* The words that are checked, and the points they stand for.              *)
LEMMA PairingWords ==
  ASSUME VerifierInv, pc = "pairing"
  PROVE  /\ PairingInput \in [1 .. 24 -> Word]
         /\ AllPoints(PairingInput) => (IsPairing(PairingInput) <=> Verifies)
<1> USE DEF VerifierInv
<1> DEFINE w == PairingInput
           y == Negate(args.pA[2])
           alpha == Coordinates(Alpha)
           vk == Load(mem, pVk)
<1>1. /\ w[1] = args.pA[1] /\ w[2] = y /\ w[3] = args.pB
      /\ w[7] = alpha[1] /\ w[8] = alpha[2] /\ w[9] = Beta
      /\ w[13] = vk[1] /\ w[14] = vk[2] /\ w[15] = Gamma
      /\ w[19] = args.pC[1] /\ w[20] = args.pC[2] /\ w[21] = Delta
  BY DEF PairingInput
<1>2. args \in [pA : Word \X Word, pB : Word, pC : Word \X Word, pubSignals : [1 .. NPublic -> Word]]
  BY VerifierAssumption DEF VerifierTypeOK
<1>3. /\ args.pA[1] \in Word /\ args.pA[2] \in Word /\ args.pB \in Word
      /\ args.pC[1] \in Word /\ args.pC[2] \in Word
  BY <1>2
<1>4. Alpha \in Point /\ Beta \in Point /\ Gamma \in Point /\ Delta \in Point /\ Point \subseteq Word
  BY Sizes
<1>5. y \in Word
  <2>1. (Base - args.pA[2]) % (WordMax + 1) \in Int
    <3>1. Base - args.pA[2] \in Int /\ WordMax + 1 \in Nat \ {0}
      BY <1>3, Sizes DEF Word
    <3> HIDE DEF y
    <3> QED
      BY <3>1, Remainder
  <2>2. Base \in Nat \ {0} /\ Base <= WordMax
    BY Sizes
  <2>3. y \in 0 .. Base - 1
    BY <2>1, <2>2, Remainder DEF Negate
  <2> HIDE DEF y
  <2> QED
    BY <2>2, <2>3, Sizes DEF Word
<1>6. alpha = <<alpha[1], alpha[2]>> /\ alpha[1] \in Word /\ alpha[2] \in Word
  BY <1>4, CoordinatesAreWords
<1>7. VkX(NPublic) \in Point /\ vk = Coordinates(VkX(NPublic))
  BY SumStep, Sizes DEF SumSoFar
<1>8. vk = <<vk[1], vk[2]>> /\ vk[1] \in Word /\ vk[2] \in Word
  BY <1>7, CoordinatesAreWords
<1>9. w \in [1 .. 24 -> Word]
  <2> HIDE DEF y, alpha, vk
  <2>1. w = <<args.pA[1], y, args.pB, args.pB, args.pB, args.pB,
              alpha[1], alpha[2], Beta, Beta, Beta, Beta,
              vk[1], vk[2], Gamma, Gamma, Gamma, Gamma,
              args.pC[1], args.pC[2], Delta, Delta, Delta, Delta>>
    BY DEF PairingInput, y, alpha, vk
  <2> HIDE DEF w
  <2> QED
    BY <1>3, <1>4, <1>5, <1>6, <1>8, <2>1
<1>10. PointAt(alpha[1], alpha[2]) = Alpha /\ PointAt(vk[1], vk[2]) = VkX(NPublic)
  BY <1>4, <1>6, <1>7, <1>8, PointOfCoordinates
<1> HIDE DEF w, alpha, vk
<1>11. AllPoints(w) =>
         OnCurve(args.pA[1], y) /\ OnCurve(args.pC[1], args.pC[2]) /\ args.pB \in Point
  <2> SUFFICES ASSUME AllPoints(w)
               PROVE  OnCurve(args.pA[1], y) /\ OnCurve(args.pC[1], args.pC[2]) /\ args.pB \in Point
    OBVIOUS
  <2>1. OnCurve(w[6 * 0 + 1], w[6 * 0 + 2]) /\ w[6 * 0 + 3] \in Point
    BY DEF AllPoints
  <2>2. OnCurve(w[6 * 3 + 1], w[6 * 3 + 2])
    BY DEF AllPoints
  <2> QED
    BY <1>1, <2>1, <2>2
<1>12. IsPairing(w) <=>
         (PointAt(args.pA[1], y) * args.pB + Alpha * Beta
            + VkX(NPublic) * Gamma + PointAt(args.pC[1], args.pC[2]) * Delta) % R = 0
  BY <1>1, <1>10 DEF IsPairing
<1>13. \A n \in 1 .. NPublic : args.pubSignals[n] < R
  BY DEF ControlInv, Signal
<1> QED
  BY <1>9, <1>11, <1>12, <1>13 DEF w, Verifies

LEMMA PairingStep ==
  ASSUME VerifierInv, Pairing
  PROVE  VerifierInv'
<1> USE DEF VerifierInv
<1> DEFINE w == PairingInput
           bit == IF IsPairing(w) THEN 1 ELSE 0
           output == [w EXCEPT ![1] = bit]
           answer == Store(mem, pPairing, output)
           input == Store(mem, pPairing, w)
<1>1. pc = "pairing" /\ args' = args /\ i' = i /\ ~failed /\ result = "none"
  BY DEF Pairing, ControlInv
<1>2. w \in [1 .. 24 -> Word] /\ (AllPoints(w) => (IsPairing(w) <=> Verifies))
  BY <1>1, PairingWords
<1>3. \/ AllPoints(w) /\ mem' = answer /\ Return(IsOk(TRUE, answer[pPairing])) /\ failed' = failed
      \/ mem' = input /\ failed' = TRUE /\ Return(IsOk(FALSE, input[pPairing]))
  BY DEF Pairing
<1>4. mem \in [0 .. pLastMem + 3 -> Word] /\ pPairing \in Nat /\ pPairing \in 0 .. pLastMem + 3
  BY DEF VerifierTypeOK, pPairing, pLastMem
<1>5. output \in [1 .. 24 -> Word] /\ output[1] = bit
  <2>1. bit \in Word
    BY Sizes
  <2> HIDE DEF w, bit
  <2> QED
    BY <1>2, <2>1
<1> HIDE DEF w, output
<1>6. answer \in [0 .. pLastMem + 3 -> Word] /\ answer[pPairing] = bit
  <2>1. /\ answer \in [0 .. pLastMem + 3 -> Word]
        /\ \A a \in 0 .. pLastMem + 3 :
             answer[a] = IF pPairing <= a /\ a < pPairing + 24 THEN output[a - pPairing + 1] ELSE mem[a]
    BY <1>4, <1>5, Stored, Zenon
  <2> HIDE DEF answer
  <2>2. answer[pPairing] = output[pPairing - pPairing + 1]
    BY <1>4, <2>1
  <2>3. pPairing - pPairing + 1 = 1
    BY <1>4
  <2> QED
    BY <1>5, <2>1, <2>2, <2>3
<1>7. input \in [0 .. pLastMem + 3 -> Word]
  BY <1>2, <1>4, Stored
<1> HIDE DEF answer, input
<1>8. mem' \in [0 .. pLastMem + 3 -> Word] /\ pc' = "returned"
  BY <1>3, <1>6, <1>7 DEF Return
<1>9. \/ failed' = FALSE /\ result' = IF Verifies THEN "true" ELSE "false"
      \/ failed' = TRUE /\ result' = "false"
  <2>1. CASE AllPoints(w) /\ Return(IsOk(TRUE, answer[pPairing])) /\ failed' = failed
    <3>1. bit % 2 = 1 <=> IsPairing(w)
      OBVIOUS
    <3> QED
      BY <1>1, <1>2, <1>6, <2>1, <3>1 DEF Return, IsOk
  <2>2. CASE failed' = TRUE /\ Return(IsOk(FALSE, input[pPairing]))
    BY <2>2 DEF Return, IsOk
  <2> QED
    BY <1>3, <2>1, <2>2
<1>10. VerifierTypeOK'
  BY <1>1, <1>8, <1>9 DEF VerifierTypeOK
<1>11. AcceptsExactlyProofs'
  BY <1>1, <1>9, SameArguments DEF AcceptsExactlyProofs
<1> QED
  BY <1>8, <1>9, <1>10, <1>11 DEF ControlInv, SumSoFar, AddendsInv, FailureIsFalse

LEMMA VerifierStutters ==
  ASSUME VerifierInv, UNCHANGED vars
  PROVE  VerifierInv'
<1>1. Verifies' <=> Verifies
  BY SameArguments DEF vars
<1>2. \A n : VkX(n)' = VkX(n) /\ Signal(n)' = Signal(n)
  BY SameArguments DEF vars
<1> QED
  BY <1>1, <1>2 DEF VerifierInv, vars, VerifierTypeOK, ControlInv, SumSoFar, AddendsInv,
                    AcceptsExactlyProofs, FailureIsFalse, Load, Signal

LEMMA VerifierStep == VerifierInv /\ [Next]_vars => VerifierInv'
BY CheckFieldStep, MultiplyStep, AddStep, CallFailsStep, PairingStep, VerifierStutters DEF Next

LEMMA VerifierInvariant == Spec => []VerifierInv
BY VerifierInit, VerifierStep, PTL DEF Spec

-----------------------------------------------------------------------------
(* Every step of verifyProof keeps its memory, its index and its answer in *)
(* their types, whatever the call data.                                    *)
THEOREM VerifierTypes == Spec => []VerifierTypeOK
<1>1. VerifierInv => VerifierTypeOK
  BY DEF VerifierInv
<1> QED
  BY VerifierInvariant, <1>1, PTL

(* verifyProof returns true only for a proof that the equation of Groth16  *)
(* holds for, with these public signals, and false for one it holds for    *)
(* only if a precompiled contract failed.                                  *)
THEOREM Accepts == Spec => []AcceptsExactlyProofs
<1>1. VerifierInv => AcceptsExactlyProofs
  BY DEF VerifierInv
<1> QED
  BY VerifierInvariant, <1>1, PTL

(* A precompiled contract that fails makes verifyProof return false.       *)
THEOREM Failure == Spec => []FailureIsFalse
<1>1. VerifierInv => FailureIsFalse
  BY DEF VerifierInv
<1> QED
  BY VerifierInvariant, <1>1, PTL

(* g1_mulAccC keeps in vk_x the sum over the signals it was called for.    *)
THEOREM Summed == Spec => []SumSoFar
<1>1. VerifierInv => SumSoFar
  BY DEF VerifierInv
<1> QED
  BY VerifierInvariant, <1>1, PTL
=============================================================================
