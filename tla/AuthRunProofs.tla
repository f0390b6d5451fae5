---------------------------- MODULE AuthRunProofs ----------------------------
(***************************************************************************)
(* run(ctx) for every field of prime order, any number of partial rounds   *)
(* and any constants.  Nothing interleaves with it, so that a clock (the   *)
(* number of steps it has made) determines what is on the stack, which     *)
(* components exist, what they wait for and which signals are set.         *)
(***************************************************************************)
EXTENDS AuthRun, CommonLemmas, SequenceTheorems

Feeds == 48 + 3 * RP      (* the feeds of PoseidonEx                       *)
End   == Feeds + 14       (* the clock when run has returned               *)

Frame(c, p) == [ctx |-> c, pos |-> p]

StackAt(t) ==
  CASE t \in {0, End}                -> << >>
    [] t \in 1 .. 2                  -> << Frame(0, t - 1) >>
    [] t \in 3 .. 5                  -> << Frame(0, 2), Frame(2, t - 3) >>
    [] t \in 6 .. Feeds + 7          -> << Frame(0, 2), Frame(2, 3), Frame(3, t - 6) >>
    [] t = Feeds + 8                 -> << Frame(0, 2), Frame(2, 3) >>
    [] t \in Feeds + 9 .. Feeds + 13 -> << Frame(0, t - Feeds - 7) >>

(* The components by their places in componentMemory: from 4 on, the Ark,  *)
(* the Mix and MixLast, the MixS, and the Sigma of the full and of the     *)
(* partial rounds.                                                         *)
Leaves == 4 .. 35 + 2 * RP

Kind(c) ==
  CASE c = 0                        -> "Auth"
    [] c \in {1, 36 + 2 * RP}       -> "IsEqual"
    [] c = 2                        -> "Poseidon"
    [] c = 3                        -> "PoseidonEx"
    [] c \in 4 .. 11                -> "Ark"
    [] c \in 12 .. 18               -> "Mix"
    [] c = 19                       -> "MixLast"
    [] c \in 20 .. 19 + RP          -> "MixS"
    [] c \in 20 + RP .. 35 + 2 * RP -> "Sigma"

Arg(c) ==
  CASE Kind(c) = "Ark"  -> ArkConstants(c - 4)
    [] Kind(c) = "Mix"  -> IF c = 15 THEN P ELSE M
    [] Kind(c) = "MixS" -> c - 20
    [] OTHER            -> 0

Start(c) ==
  CASE c = 0                  -> 1
    [] c = 1                  -> 6
    [] c = 2                  -> 9
    [] c = 3                  -> 11
    [] c \in 4 .. 19          -> 4 * c - 2
    [] c \in 20 .. 36 + 2 * RP -> 4 * c - 3

(* The signals of a component, from its start on.                          *)
Offsets(c) ==
  CASE Kind(c) = "Auth"                              -> 0 .. 4
    [] Kind(c) = "Poseidon"                          -> 0 .. 1
    [] Kind(c) \in {"PoseidonEx", "MixLast", "IsEqual"} -> 0 .. 2
    [] Kind(c) \in {"Ark", "Mix", "MixS", "Sigma"}   -> 0 .. 3

(* The index of a leaf in mySubcomponents, and back.                       *)
Index(c) ==
  CASE c \in 4 .. 11                -> ark(c - 4)
    [] c \in 12 .. 18               -> mix(c - 12)
    [] c = 19                       -> mixLast
    [] c \in 20 .. 19 + RP          -> mixS(c - 20)
    [] c \in 20 + RP .. 35 + RP     -> c - 12 - RP
    [] c \in 36 + RP .. 35 + 2 * RP -> sigmaP(c - 36 - RP)

Id(k) == 4 + PoseidonExSubs[k].c

(* The clock when the feeds of full round r begin (7 is the last round).   *)
RoundAt(r) == IF r < 4 THEN 9 + 6 * r ELSE 9 + 3 * RP + 6 * r

(* The clock from which on a component has run; its inputs are set by the  *)
(* step before and by that one.                                            *)
RunAt(c) ==
  CASE c = 0                        -> 1
    [] c = 1                        -> Feeds + 11
    [] c = 2                        -> 3
    [] c = 3                        -> 6
    [] c = 4                        -> 9
    [] c \in 5 .. 11                -> RoundAt(c - 5) + 4
    [] c \in 12 .. 18               -> RoundAt(c - 12) + 6
    [] c = 19                       -> RoundAt(7) + 4
    [] c \in 20 .. 19 + RP          -> 36 + 3 * (c - 20)
    [] c \in 20 + RP .. 35 + RP     ->
         RoundAt((c - 20 - RP) \div 2) + ((c - 20 - RP) % 2) + 1
    [] c \in 36 + RP .. 35 + 2 * RP -> 34 + 3 * (c - 36 - RP)
    [] c = 36 + 2 * RP              -> Feeds + 13

(* The input that is fed last.                                             *)
LastIn(kind) ==
  CASE kind \in {"Ark", "Mix", "MixS"}             -> 3
    [] kind \in {"MixLast", "IsEqual"}             -> 2
    [] kind \in {"Sigma", "Poseidon", "PoseidonEx"} -> 1
    [] kind = "Auth"                               -> 4

FedAt(c, i) == IF i = LastIn(Kind(c)) THEN RunAt(c) ELSE RunAt(c) - 1

MadeAt(c) ==
  CASE c = 0                 -> 1
    [] c \in {1, 2, 36 + 2 * RP} -> 2
    [] c = 3                 -> 4
    [] c \in Leaves          -> 7

ReleasedAt(c) ==
  CASE c = 0                 -> End + 1
    [] c \in {1, 2, 36 + 2 * RP} -> End
    [] c = 3                 -> Feeds + 9
    [] c \in Leaves          -> Feeds + 8

(* When a signal is set.                                                   *)
SetAt(c, o) ==
  CASE c = 0 /\ o # 0            -> 0
    [] c = 0 /\ o = 0            -> End
    [] c # 0 /\ o \in In(Kind(c)) -> FedAt(c, o)
    [] c = 2 /\ o = 0            -> Feeds + 9
    [] c = 3 /\ o = 0            -> Feeds + 8
    [] OTHER                     -> RunAt(c)

(* The counter of a component.                                             *)
Left(c, t) ==
  CASE c = 0 \/ t < RunAt(c) - 1             -> Counter(Kind(c))
    [] c # 0 /\ t = RunAt(c) - 1             -> 1
    [] c # 0 /\ t >= RunAt(c)                -> 0

SubIds(c, t) ==
  CASE c = 0 /\ t >= 2 -> [k \in 0 .. 2 |-> IF k = 2 THEN 36 + 2 * RP ELSE 2 - k]
    [] c = 2 /\ t >= 4 -> [k \in {0} |-> 3]
    [] c = 3 /\ t >= 7 -> [k \in 0 .. mixLast |-> Id(k)]
    [] OTHER           -> << >>

MemoryAt(c, t) ==
  IF t < MadeAt(c) THEN NoComponent
  ELSE [kind |-> Kind(c), arg |-> Arg(c), signalStart |-> Start(c),
        inputCounter |-> Left(c, t), subcomponents |-> SubIds(c, t),
        live |-> t < ReleasedAt(c)]

(* What is in the signals of a component.                                  *)
Sig(sv, c, o) == sv[Start(c) + o]

SetRight(sv, t) ==
  /\ sv \in [Signals -> Value \cup {Unset}]
  /\ sv[0] = 1
  /\ \A c \in Components : \A o \in Offsets(c) : Sig(sv, c, o) # Unset <=> t >= SetAt(c, o)

(* The signals of a component that has run are those its function leaves.  *)
Ran(sv, c) ==
  CASE Kind(c) = "Ark" ->
         /\ Sig(sv, c, 0) = Add(Sig(sv, c, 2), C[Arg(c)])
         /\ Sig(sv, c, 1) = Add(Sig(sv, c, 3), C[Arg(c) + 1])
    [] Kind(c) = "Sigma" ->
         /\ Sig(sv, c, 2) = Mul(Sig(sv, c, 1), Sig(sv, c, 1))
         /\ Sig(sv, c, 3) = Mul(Sig(sv, c, 2), Sig(sv, c, 2))
         /\ Sig(sv, c, 0) = Mul(Sig(sv, c, 3), Sig(sv, c, 1))
    [] Kind(c) = "Mix" ->
         \A n \in T : Sig(sv, c, n) = Add(Mul(Arg(c)[<<0, n>>], Sig(sv, c, 2)),
                                         Mul(Arg(c)[<<1, n>>], Sig(sv, c, 3)))
    [] Kind(c) = "MixS" ->
         /\ Sig(sv, c, 0) = Add(Mul(S[3 * Arg(c)], Sig(sv, c, 2)),
                                Mul(S[3 * Arg(c) + 1], Sig(sv, c, 3)))
         /\ Sig(sv, c, 1) = Add(Sig(sv, c, 3), Mul(Sig(sv, c, 2), S[3 * Arg(c) + 2]))
    [] Kind(c) = "MixLast" ->
         Sig(sv, c, 0) = Add(Mul(M[<<0, 0>>], Sig(sv, c, 1)), Mul(M[<<1, 0>>], Sig(sv, c, 2)))
    [] Kind(c) = "IsEqual" ->
         Sig(sv, c, 0) = IsEqual(Sig(sv, c, 1), Sig(sv, c, 2))

RanRight(sv, t) ==
  \A c \in Components : Kind(c) \notin Composite /\ t >= RunAt(c) => Ran(sv, c)

(* An input that was fed is equal to its source.                           *)
Source(sv, c, src) ==
  CASE src.sub = -2 -> src.plus
    [] src.sub = -1 -> Sig(sv, c, src.off)
    [] OTHER        -> Add(Sig(sv, SubIds(c, End)[src.sub], src.off), src.plus)

Wired(sv, c, n) ==
  LET f == Body(Kind(c))[n] IN Sig(sv, SubIds(c, End)[f.sub], f.in) = Source(sv, c, f.src)

(* The clock after the n-th feed of a component.                           *)
AfterFeed(c, n) ==
  CASE c = 0 /\ n = 1 -> 3
    [] c = 0 /\ n # 1 -> Feeds + 8 + n
    [] c = 2          -> 4 + n
    [] c = 3          -> 7 + n

(* The clock after the return of a run function.                           *)
AfterReturn(c) == CASE c = 0 -> End [] c = 2 -> Feeds + 9 [] c = 3 -> Feeds + 8

Returned(sv, c) ==
  CASE c = 0 -> Sig(sv, 0, 0) = Mul(Sig(sv, 1, 0), Sig(sv, 36 + 2 * RP, 0))
    [] c = 2 -> Sig(sv, 2, 0) = Sig(sv, 3, 0)
    [] c = 3 -> Sig(sv, 3, 0) = Sig(sv, 19, 0)

WiredRight(sv, t) ==
  \A c \in {0, 2, 3} :
    /\ \A n \in 1 .. Len(Body(Kind(c))) : t >= AfterFeed(c, n) => Wired(sv, c, n)
    /\ t >= AfterReturn(c) => Returned(sv, c)

ValuesAt(sv, t) == SetRight(sv, t) /\ RanRight(sv, t) /\ WiredRight(sv, t)

StateAt(t) ==
  /\ stack = StackAt(t)
  /\ failed = "no"
  /\ componentMemory = [c \in Components |-> MemoryAt(c, t)]
  /\ runs = [c \in Components |-> IF t >= RunAt(c) THEN 1 ELSE 0]
  /\ ValuesAt(signalValues, t)

RunInv == \E t \in 0 .. End : StateAt(t)

-----------------------------------------------------------------------------
(* Sequences of sequences                                                  *)

(* The element j of the r-th of N sequences of the same length.            *)
LEMMA FlattenTriples ==
  ASSUME NEW X, NEW N \in Nat, NEW ss \in [1 .. N -> Seq(X)],
         \A n \in 1 .. N : Len(ss[n]) = 3
  PROVE  /\ FlattenSeq(ss) \in Seq(X) /\ Len(FlattenSeq(ss)) = 3 * N
         /\ \A n \in 1 .. N, j \in 1 .. 3 : FlattenSeq(ss)[3 * n - 3 + j] = ss[n][j]
<1>1. PICK f \in [0 .. N -> Seq(X)] :
        /\ f[0] = << >> /\ f[N] = FlattenSeq(ss)
        /\ \A n \in 1 .. N : f[n] = f[n - 1] \o ss[n]
  <2>1. PICK f \in [0 .. N -> Seq(X)] : Appends(f, ss, N) /\ f[N] = FlattenSeq(ss)
    BY FlattenIs, Zenon
  <2> QED
    BY <2>1 DEF Appends
<1> DEFINE U == {n \in 0 .. N : /\ Len(f[n]) = 3 * n
                                /\ \A m \in 1 .. n, j \in 1 .. 3 : f[n][3 * m - 3 + j] = ss[m][j]}
<1>2. 0 \in U
  BY <1>1, EmptySeq
<1>3. ASSUME NEW n \in 1 .. N, n - 1 \in U PROVE n \in U
  <2>1. f[n - 1] \in Seq(X) /\ ss[n] \in Seq(X) /\ Len(ss[n]) = 3 /\ Len(f[n - 1]) = 3 * (n - 1)
    BY <1>3
  <2>2. /\ Len(f[n]) = 3 * n
        /\ \A i \in 1 .. 3 * n : f[n][i] = IF i <= 3 * n - 3 THEN f[n - 1][i] ELSE ss[n][i - (3 * n - 3)]
    <3> DEFINE u == f[n - 1]
               v == ss[n]
    <3>1. u \in Seq(X) /\ v \in Seq(X) /\ Len(v) = 3 /\ Len(u) = 3 * (n - 1) /\ f[n] = u \o v
      BY <1>1, <2>1
    <3> HIDE DEF u, v
    <3>2. /\ Len(u \o v) = Len(u) + Len(v)
          /\ \A i \in 1 .. Len(u) + Len(v) : (u \o v)[i] = IF i <= Len(u) THEN u[i] ELSE v[i - Len(u)]
      BY <3>1, ConcatProperties
    <3>3. Len(u) + Len(v) = 3 * n /\ Len(u) = 3 * n - 3
      BY <3>1
    <3> QED
      BY <3>1, <3>2, <3>3 DEF u, v
  <2>3. ASSUME NEW m \in 1 .. n, NEW j \in 1 .. 3 PROVE f[n][3 * m - 3 + j] = ss[m][j]
    <3>1. CASE m = n
      BY <2>2, <3>1
    <3>2. CASE m # n
      <4>1. m \in 1 .. n - 1 /\ 3 * m - 3 + j \in 1 .. 3 * n - 3
        BY <3>2
      <4>2. f[n - 1][3 * m - 3 + j] = ss[m][j]
        BY <1>3, <4>1
      <4>3. /\ 3 * m - 3 + j \in 1 .. 3 * n
            /\ f[n][3 * m - 3 + j] = f[n - 1][3 * m - 3 + j]
        BY <2>2, <4>1
      <4> QED
        BY <4>2, <4>3
    <3> QED
      BY <3>1, <3>2
  <2> QED
    BY <2>2, <2>3
<1> HIDE DEF U
<1>4. \A n \in 0 .. N : n \in U
  BY <1>2, <1>3, IntervalInduction
<1>5. N \in U
  BY <1>4
<1> QED
  BY <1>1, <1>5, Zenon DEF U

-----------------------------------------------------------------------------
(* The feeds of PoseidonEx                                                 *)

AnyFeed == [sub : Int, in : Int, src : [sub : Int, off : Int, plus : Int], asserts : {"nothing"}]

(* What the assumptions say of the constants, fact by fact.                *)
LEMMA Constants ==
  /\ RP \in Nat \ {0} /\ q \in Nat \ {0, 1}
  /\ \A k \in 0 .. 15 + RP : C[k] \in Value
  /\ \A e \in T \X T : M[e] \in Value /\ P[e] \in Value
  /\ \A k \in 0 .. 3 * RP - 1 : S[k] \in Value
  /\ Value \subseteq Int /\ 0 \in Value /\ 1 \in Value /\ Unset \notin Value
BY FieldAssumption, PoseidonAssumption DEF Value

(* Two pairs in a row.                                                     *)
LEMMA PairOfPairs ==
  ASSUME NEW X, NEW a \in X, NEW b \in X, NEW c \in X, NEW d \in X
  PROVE  /\ <<a, b>> \o <<c, d>> \in Seq(X) /\ Len(<<a, b>> \o <<c, d>>) = 4
         /\ (<<a, b>> \o <<c, d>>)[1] = a /\ (<<a, b>> \o <<c, d>>)[2] = b
         /\ (<<a, b>> \o <<c, d>>)[3] = c /\ (<<a, b>> \o <<c, d>>)[4] = d
<1> DEFINE s == <<a, b>>
           t == <<c, d>>
<1>1. s \in Seq(X) /\ t \in Seq(X) /\ Len(s) = 2 /\ Len(t) = 2
  OBVIOUS
<1>2. s[1] = a /\ s[2] = b /\ t[1] = c /\ t[2] = d
  OBVIOUS
<1> HIDE DEF s, t
<1>3. /\ s \o t \in Seq(X) /\ Len(s \o t) = Len(s) + Len(t)
      /\ \A i \in 1 .. Len(s) + Len(t) : (s \o t)[i] = IF i <= Len(s) THEN s[i] ELSE t[i - Len(s)]
  BY <1>1, ConcatProperties
<1>4. /\ s \o t \in Seq(X) /\ Len(s \o t) = 4
      /\ (s \o t)[1] = a /\ (s \o t)[2] = b /\ (s \o t)[3] = c /\ (s \o t)[4] = d
  BY <1>1, <1>2, <1>3
<1> QED
  BY <1>4 DEF s, t

Before(r, j) == CASE r = 0 -> Out(ark(0), j)
                  [] r = 4 -> Out(mixS(RP - 1), j)
                  [] OTHER -> Out(mix(r - 1), j)

(* The six feeds of a full round.                                          *)
LEMMA FullRoundIs ==
  ASSUME NEW r \in 0 .. 6
  PROVE  /\ FullRound(r) \in Seq(AnyFeed) /\ Len(FullRound(r)) = 6
         /\ \A j \in T :
              /\ FullRound(r)[1 + j] = Feed(sigmaF(r, j), 1, Before(r, j))
              /\ FullRound(r)[3 + j] = Feed(ark(r + 1), 2 + j, Out(sigmaF(r, j), 0))
              /\ FullRound(r)[5 + j] = Feed(mix(r), 2 + j, Out(ark(r + 1), j))
<1> DEFINE a(j) == Feed(sigmaF(r, j), 1, Before(r, j))
           b(j) == Feed(ark(r + 1), 2 + j, Out(sigmaF(r, j), 0))
           c(j) == Feed(mix(r), 2 + j, Out(ark(r + 1), j))
           s    == <<a(0), a(1)>> \o <<b(0), b(1)>>
           t    == <<c(0), c(1)>>
<1>1. FullRound(r) = s \o t
  BY DEF FullRound, Before
<1>2. \A j \in T : a(j) \in AnyFeed /\ b(j) \in AnyFeed /\ c(j) \in AnyFeed
  <2>1. \A j \in T : Before(r, j) \in [sub : Int, off : Int, plus : Int]
    BY Constants DEF Before, Out, ark, mix, mixS, T
  <2>2. \A j \in T : Out(sigmaF(r, j), 0) \in [sub : Int, off : Int, plus : Int]
    BY DEF Out, sigmaF, T
  <2>3. \A j \in T : Out(ark(r + 1), j) \in [sub : Int, off : Int, plus : Int]
    BY DEF Out, ark, T
  <2> QED
    BY <2>1, <2>2, <2>3, Constants DEF AnyFeed, Feed, ark, mix, sigmaF, T
<1> HIDE DEF a, b, c
<1>3. a(0) \in AnyFeed /\ a(1) \in AnyFeed /\ b(0) \in AnyFeed /\ b(1) \in AnyFeed
      /\ c(0) \in AnyFeed /\ c(1) \in AnyFeed
  BY <1>2 DEF T
<1>4. /\ s \in Seq(AnyFeed) /\ Len(s) = 4
      /\ s[1] = a(0) /\ s[2] = a(1) /\ s[3] = b(0) /\ s[4] = b(1)
  BY <1>3, PairOfPairs
<1>5. t \in Seq(AnyFeed) /\ Len(t) = 2 /\ t[1] = c(0) /\ t[2] = c(1)
  BY <1>3
<1> HIDE DEF s, t
<1>6. /\ s \o t \in Seq(AnyFeed) /\ Len(s \o t) = Len(s) + Len(t)
      /\ \A i \in 1 .. Len(s) + Len(t) : (s \o t)[i] = IF i <= Len(s) THEN s[i] ELSE t[i - Len(s)]
  BY <1>4, <1>5, ConcatProperties
<1>7. /\ FullRound(r) \in Seq(AnyFeed) /\ Len(FullRound(r)) = 6
      /\ FullRound(r)[1] = a(0) /\ FullRound(r)[2] = a(1) /\ FullRound(r)[3] = b(0)
      /\ FullRound(r)[4] = b(1) /\ FullRound(r)[5] = c(0) /\ FullRound(r)[6] = c(1)
  BY <1>1, <1>4, <1>5, <1>6
<1> QED
  BY <1>7 DEF a, b, c, T

(* The three feeds of a partial round.                                     *)
LEMMA PartialRoundIs ==
  ASSUME NEW r \in 0 .. RP - 1
  PROVE  LET before(j) == IF r = 0 THEN Out(mix(3), j) ELSE Out(mixS(r - 1), j)
         IN  /\ PartialRound(r) \in Seq(AnyFeed) /\ Len(PartialRound(r)) = 3
             /\ PartialRound(r)[1] = Feed(sigmaP(r), 1, before(0))
             /\ PartialRound(r)[2] = Feed(mixS(r), 2, OutPlus(sigmaP(r), 0, C[10 + r]))
             /\ PartialRound(r)[3] = Feed(mixS(r), 3, before(1))
<1> DEFINE before(j) == IF r = 0 THEN Out(mix(3), j) ELSE Out(mixS(r - 1), j)
           a == Feed(sigmaP(r), 1, before(0))
           b == Feed(mixS(r), 2, OutPlus(sigmaP(r), 0, C[10 + r]))
           c == Feed(mixS(r), 3, before(1))
<1>1. PartialRound(r) = <<a, b, c>>
  BY DEF PartialRound
<1>2. before(0) \in [sub : Int, off : Int, plus : Int] /\ before(1) \in [sub : Int, off : Int, plus : Int]
  BY Constants DEF Out, mix, mixS
<1>3. OutPlus(sigmaP(r), 0, C[10 + r]) \in [sub : Int, off : Int, plus : Int]
  <2>1. 10 + r \in 0 .. 15 + RP
    BY Constants
  <2>2. C[10 + r] \in Int
    BY <2>1, Constants
  <2> QED
    BY <2>2 DEF OutPlus, sigmaP
<1>4. a \in AnyFeed /\ b \in AnyFeed /\ c \in AnyFeed
  BY <1>2, <1>3, Constants DEF AnyFeed, Feed, sigmaP, mixS
<1> HIDE DEF a, b, c
<1>5. /\ <<a, b, c>> \in Seq(AnyFeed) /\ Len(<<a, b, c>>) = 3
      /\ <<a, b, c>>[1] = a /\ <<a, b, c>>[2] = b /\ <<a, b, c>>[3] = c
  BY <1>4
<1> QED
  BY <1>1, <1>5 DEF a, b, c

(* The four feeds of the last round.                                       *)
LEMMA LastRoundIs ==
  /\ LastRound \in Seq(AnyFeed) /\ Len(LastRound) = 4
  /\ \A j \in T :
       /\ LastRound[1 + j] = Feed(sigmaF(7, j), 1, Out(mix(6), j))
       /\ LastRound[3 + j] = Feed(mixLast, 1 + j, Out(sigmaF(7, j), 0))
<1> DEFINE a(j) == Feed(sigmaF(7, j), 1, Out(mix(6), j))
           b(j) == Feed(mixLast, 1 + j, Out(sigmaF(7, j), 0))
<1>1. LastRound = <<a(0), a(1)>> \o <<b(0), b(1)>>
  BY DEF LastRound
<1>2. \A j \in T : a(j) \in AnyFeed /\ b(j) \in AnyFeed
  BY Constants DEF AnyFeed, Feed, Out, sigmaF, mix, mixLast, T
<1> HIDE DEF a, b
<1>3. a(0) \in AnyFeed /\ a(1) \in AnyFeed /\ b(0) \in AnyFeed /\ b(1) \in AnyFeed
  BY <1>2 DEF T
<1>4. /\ LastRound \in Seq(AnyFeed) /\ Len(LastRound) = 4
      /\ LastRound[1] = a(0) /\ LastRound[2] = a(1) /\ LastRound[3] = b(0) /\ LastRound[4] = b(1)
  BY <1>1, <1>3, PairOfPairs
<1> QED
  BY <1>4 DEF a, b, T

(* A sequence and another one behind it.                                   *)
LEMMA Behind ==
  ASSUME NEW X, NEW s \in Seq(X), NEW t \in Seq(X)
  PROVE  /\ s \o t \in Seq(X) /\ Len(s \o t) = Len(s) + Len(t)
         /\ \A i \in 1 .. Len(s) : (s \o t)[i] = s[i]
         /\ \A i \in 1 .. Len(t) : (s \o t)[Len(s) + i] = t[i]
<1>1. /\ s \o t \in Seq(X) /\ Len(s \o t) = Len(s) + Len(t)
      /\ \A i \in 1 .. Len(s) + Len(t) : (s \o t)[i] = IF i <= Len(s) THEN s[i] ELSE t[i - Len(s)]
      /\ Len(s) \in Nat /\ Len(t) \in Nat
  BY ConcatProperties, LenProperties
<1>2. ASSUME NEW i \in 1 .. Len(t) PROVE (s \o t)[Len(s) + i] = t[i]
  <2> DEFINE m == Len(s)
             n == Len(t)
  <2>1. m \in Nat /\ n \in Nat /\ i \in 1 .. n
    BY <1>1
  <2> HIDE DEF m, n
  <2>2. m + i \in 1 .. m + n /\ ~(m + i <= m) /\ (m + i) - m = i
    BY <2>1
  <2> QED
    BY <1>1, <2>2 DEF m, n
<1>3. ASSUME NEW i \in 1 .. Len(s) PROVE (s \o t)[i] = s[i]
  BY <1>1
<1> QED
  BY <1>1, <1>2, <1>3

(* What the n-th feed is.                                                  *)
LEMMA BodyIs ==
  /\ Len(PoseidonExBody) = Feeds
  /\ \A j \in T : PoseidonExBody[1 + j] = Feed(ark(0), 2 + j, Own(2 - j))
  /\ \A r \in 0 .. 3, i \in 1 .. 6 : PoseidonExBody[2 + 6 * r + i] = FullRound(r)[i]
  /\ \A r \in 0 .. RP - 1, i \in 1 .. 3 : PoseidonExBody[26 + 3 * r + i] = PartialRound(r)[i]
  /\ \A r \in 4 .. 6, i \in 1 .. 6 : PoseidonExBody[2 + 3 * RP + 6 * r + i] = FullRound(r)[i]
  /\ \A i \in 1 .. 4 : PoseidonExBody[44 + 3 * RP + i] = LastRound[i]
<1> DEFINE first == << Feed(ark(0), 2, Own(2)), Feed(ark(0), 3, Own(1)) >>
           ss    == [r \in 1 .. RP |-> PartialRound(r - 1)]
           flat  == FlattenSeq(ss)
           u0    == first
           u1    == u0 \o FullRound(0)
           u2    == u1 \o FullRound(1)
           u3    == u2 \o FullRound(2)
           u4    == u3 \o FullRound(3)
           u5    == u4 \o flat
           u6    == u5 \o FullRound(4)
           u7    == u6 \o FullRound(5)
           u8    == u7 \o FullRound(6)
           u9    == u8 \o LastRound
<1>1. PoseidonExBody = u9
  <2>1. Feed(ark(0), 2 + 0, Own(2 - 0)) = Feed(ark(0), 2, Own(2)) /\ Feed(ark(0), 2 + 1, Own(2 - 1)) = Feed(ark(0), 3, Own(1))
    OBVIOUS
  <2> QED
    BY <2>1 DEF PoseidonExBody
<1>2. /\ u0 \in Seq(AnyFeed) /\ Len(u0) = 2
      /\ u0[1] = Feed(ark(0), 2, Own(2)) /\ u0[2] = Feed(ark(0), 3, Own(1))
  <2>1. Feed(ark(0), 2, Own(2)) \in AnyFeed /\ Feed(ark(0), 3, Own(1)) \in AnyFeed
    BY DEF AnyFeed, Feed, Own, ark
  <2> QED
    BY <2>1
<1>3. /\ flat \in Seq(AnyFeed) /\ Len(flat) = 3 * RP
      /\ \A r \in 0 .. RP - 1, i \in 1 .. 3 : flat[3 * r + i] = PartialRound(r)[i]
  <2>1. RP \in Nat
    BY Constants
  <2>2. ss \in [1 .. RP -> Seq(AnyFeed)] /\ \A n \in 1 .. RP : Len(ss[n]) = 3
    BY <2>1, PartialRoundIs
  <2>3. \A r \in 0 .. RP - 1 : r + 1 \in 1 .. RP /\ ss[r + 1] = PartialRound(r) /\ 3 * (r + 1) - 3 = 3 * r
    BY <2>1
  <2> HIDE DEF ss
  <2>4. /\ flat \in Seq(AnyFeed) /\ Len(flat) = 3 * RP
        /\ \A n \in 1 .. RP, j \in 1 .. 3 : flat[3 * n - 3 + j] = ss[n][j]
    BY <2>1, <2>2, FlattenTriples
  <2> HIDE DEF flat
  <2>5. ASSUME NEW r \in 0 .. RP - 1, NEW i \in 1 .. 3 PROVE flat[3 * r + i] = PartialRound(r)[i]
    <3>1. r + 1 \in 1 .. RP /\ flat[3 * (r + 1) - 3 + i] = ss[r + 1][i] /\ 3 * (r + 1) - 3 = 3 * r
      BY <2>3, <2>4
    <3> QED
      BY <2>3, <3>1
  <2> QED
    BY <2>4, <2>5
<1>4. /\ \A r \in 0 .. 6 : FullRound(r) \in Seq(AnyFeed) /\ Len(FullRound(r)) = 6
      /\ LastRound \in Seq(AnyFeed) /\ Len(LastRound) = 4 /\ RP \in Nat
  BY FullRoundIs, LastRoundIs, Constants
<1> HIDE DEF flat, u0, u1, u2, u3, u4, u5, u6, u7, u8, u9
<1>5. /\ u1 \in Seq(AnyFeed) /\ Len(u1) = 8
      /\ \A i \in 1 .. 2 : u1[i] = u0[i]
      /\ \A i \in 1 .. 6 : u1[2 + i] = FullRound(0)[i]
  <2> DEFINE m == 2
             n == 6
             t == FullRound(0)
  <2>1. m \in Nat /\ n \in Nat /\ Len(u0) = m /\ Len(t) = n /\ u0 \in Seq(AnyFeed) /\ t \in Seq(AnyFeed)
    BY <1>2, <1>3, <1>4
  <2>2. u1 = u0 \o t
    BY DEF u1
  <2>3. m + n = 8
    BY <1>4
  <2> HIDE DEF m, n, t
  <2>4. /\ u1 \in Seq(AnyFeed) /\ Len(u1) = m + n
        /\ \A i \in 1 .. m : u1[i] = u0[i]
        /\ \A i \in 1 .. n : u1[m + i] = t[i]
    <3>1. /\ u0 \o t \in Seq(AnyFeed) /\ Len(u0 \o t) = Len(u0) + Len(t)
          /\ \A i \in 1 .. Len(u0) : (u0 \o t)[i] = u0[i]
          /\ \A i \in 1 .. Len(t) : (u0 \o t)[Len(u0) + i] = t[i]
      BY <2>1, Behind
    <3> QED
      BY <2>1, <2>2, <3>1
  <2> QED
    BY <2>3, <2>4 DEF m, n, t
<1>6. /\ u2 \in Seq(AnyFeed) /\ Len(u2) = 14
      /\ \A i \in 1 .. 8 : u2[i] = u1[i]
      /\ \A i \in 1 .. 6 : u2[8 + i] = FullRound(1)[i]
  <2> DEFINE m == 8
             n == 6
             t == FullRound(1)
  <2>1. m \in Nat /\ n \in Nat /\ Len(u1) = m /\ Len(t) = n /\ u1 \in Seq(AnyFeed) /\ t \in Seq(AnyFeed)
    BY <1>5, <1>3, <1>4
  <2>2. u2 = u1 \o t
    BY DEF u2
  <2>3. m + n = 14
    BY <1>4
  <2> HIDE DEF m, n, t
  <2>4. /\ u2 \in Seq(AnyFeed) /\ Len(u2) = m + n
        /\ \A i \in 1 .. m : u2[i] = u1[i]
        /\ \A i \in 1 .. n : u2[m + i] = t[i]
    <3>1. /\ u1 \o t \in Seq(AnyFeed) /\ Len(u1 \o t) = Len(u1) + Len(t)
          /\ \A i \in 1 .. Len(u1) : (u1 \o t)[i] = u1[i]
          /\ \A i \in 1 .. Len(t) : (u1 \o t)[Len(u1) + i] = t[i]
      BY <2>1, Behind
    <3> QED
      BY <2>1, <2>2, <3>1
  <2> QED
    BY <2>3, <2>4 DEF m, n, t
<1>7. /\ u3 \in Seq(AnyFeed) /\ Len(u3) = 20
      /\ \A i \in 1 .. 14 : u3[i] = u2[i]
      /\ \A i \in 1 .. 6 : u3[14 + i] = FullRound(2)[i]
  <2> DEFINE m == 14
             n == 6
             t == FullRound(2)
  <2>1. m \in Nat /\ n \in Nat /\ Len(u2) = m /\ Len(t) = n /\ u2 \in Seq(AnyFeed) /\ t \in Seq(AnyFeed)
    BY <1>6, <1>3, <1>4
  <2>2. u3 = u2 \o t
    BY DEF u3
  <2>3. m + n = 20
    BY <1>4
  <2> HIDE DEF m, n, t
  <2>4. /\ u3 \in Seq(AnyFeed) /\ Len(u3) = m + n
        /\ \A i \in 1 .. m : u3[i] = u2[i]
        /\ \A i \in 1 .. n : u3[m + i] = t[i]
    <3>1. /\ u2 \o t \in Seq(AnyFeed) /\ Len(u2 \o t) = Len(u2) + Len(t)
          /\ \A i \in 1 .. Len(u2) : (u2 \o t)[i] = u2[i]
          /\ \A i \in 1 .. Len(t) : (u2 \o t)[Len(u2) + i] = t[i]
      BY <2>1, Behind
    <3> QED
      BY <2>1, <2>2, <3>1
  <2> QED
    BY <2>3, <2>4 DEF m, n, t
<1>8. /\ u4 \in Seq(AnyFeed) /\ Len(u4) = 26
      /\ \A i \in 1 .. 20 : u4[i] = u3[i]
      /\ \A i \in 1 .. 6 : u4[20 + i] = FullRound(3)[i]
  <2> DEFINE m == 20
             n == 6
             t == FullRound(3)
  <2>1. m \in Nat /\ n \in Nat /\ Len(u3) = m /\ Len(t) = n /\ u3 \in Seq(AnyFeed) /\ t \in Seq(AnyFeed)
    BY <1>7, <1>3, <1>4
  <2>2. u4 = u3 \o t
    BY DEF u4
  <2>3. m + n = 26
    BY <1>4
  <2> HIDE DEF m, n, t
  <2>4. /\ u4 \in Seq(AnyFeed) /\ Len(u4) = m + n
        /\ \A i \in 1 .. m : u4[i] = u3[i]
        /\ \A i \in 1 .. n : u4[m + i] = t[i]
    <3>1. /\ u3 \o t \in Seq(AnyFeed) /\ Len(u3 \o t) = Len(u3) + Len(t)
          /\ \A i \in 1 .. Len(u3) : (u3 \o t)[i] = u3[i]
          /\ \A i \in 1 .. Len(t) : (u3 \o t)[Len(u3) + i] = t[i]
      BY <2>1, Behind
    <3> QED
      BY <2>1, <2>2, <3>1
  <2> QED
    BY <2>3, <2>4 DEF m, n, t
<1>9. /\ u5 \in Seq(AnyFeed) /\ Len(u5) = 26 + 3 * RP
      /\ \A i \in 1 .. 26 : u5[i] = u4[i]
      /\ \A i \in 1 .. 3 * RP : u5[26 + i] = flat[i]
  <2> DEFINE m == 26
             n == 3 * RP
             t == flat
  <2>1. m \in Nat /\ n \in Nat /\ Len(u4) = m /\ Len(t) = n /\ u4 \in Seq(AnyFeed) /\ t \in Seq(AnyFeed)
    BY <1>8, <1>3, <1>4
  <2>2. u5 = u4 \o t
    BY DEF u5
  <2>3. m + n = 26 + 3 * RP
    BY <1>4
  <2> HIDE DEF m, n, t
  <2>4. /\ u5 \in Seq(AnyFeed) /\ Len(u5) = m + n
        /\ \A i \in 1 .. m : u5[i] = u4[i]
        /\ \A i \in 1 .. n : u5[m + i] = t[i]
    <3>1. /\ u4 \o t \in Seq(AnyFeed) /\ Len(u4 \o t) = Len(u4) + Len(t)
          /\ \A i \in 1 .. Len(u4) : (u4 \o t)[i] = u4[i]
          /\ \A i \in 1 .. Len(t) : (u4 \o t)[Len(u4) + i] = t[i]
      BY <2>1, Behind
    <3> QED
      BY <2>1, <2>2, <3>1
  <2> QED
    BY <2>3, <2>4 DEF m, n, t
<1>10. /\ u6 \in Seq(AnyFeed) /\ Len(u6) = 32 + 3 * RP
       /\ \A i \in 1 .. 26 + 3 * RP : u6[i] = u5[i]
       /\ \A i \in 1 .. 6 : u6[26 + 3 * RP + i] = FullRound(4)[i]
  <2> DEFINE m == 26 + 3 * RP
             n == 6
             t == FullRound(4)
  <2>1. m \in Nat /\ n \in Nat /\ Len(u5) = m /\ Len(t) = n /\ u5 \in Seq(AnyFeed) /\ t \in Seq(AnyFeed)
    BY <1>9, <1>3, <1>4
  <2>2. u6 = u5 \o t
    BY DEF u6
  <2>3. m + n = 32 + 3 * RP
    BY <1>4
  <2> HIDE DEF m, n, t
  <2>4. /\ u6 \in Seq(AnyFeed) /\ Len(u6) = m + n
        /\ \A i \in 1 .. m : u6[i] = u5[i]
        /\ \A i \in 1 .. n : u6[m + i] = t[i]
    <3>1. /\ u5 \o t \in Seq(AnyFeed) /\ Len(u5 \o t) = Len(u5) + Len(t)
          /\ \A i \in 1 .. Len(u5) : (u5 \o t)[i] = u5[i]
          /\ \A i \in 1 .. Len(t) : (u5 \o t)[Len(u5) + i] = t[i]
      BY <2>1, Behind
    <3> QED
      BY <2>1, <2>2, <3>1
  <2> QED
    BY <2>3, <2>4 DEF m, n, t
<1>11. /\ u7 \in Seq(AnyFeed) /\ Len(u7) = 38 + 3 * RP
       /\ \A i \in 1 .. 32 + 3 * RP : u7[i] = u6[i]
       /\ \A i \in 1 .. 6 : u7[32 + 3 * RP + i] = FullRound(5)[i]
  <2> DEFINE m == 32 + 3 * RP
             n == 6
             t == FullRound(5)
  <2>1. m \in Nat /\ n \in Nat /\ Len(u6) = m /\ Len(t) = n /\ u6 \in Seq(AnyFeed) /\ t \in Seq(AnyFeed)
    BY <1>10, <1>3, <1>4
  <2>2. u7 = u6 \o t
    BY DEF u7
  <2>3. m + n = 38 + 3 * RP
    BY <1>4
  <2> HIDE DEF m, n, t
  <2>4. /\ u7 \in Seq(AnyFeed) /\ Len(u7) = m + n
        /\ \A i \in 1 .. m : u7[i] = u6[i]
        /\ \A i \in 1 .. n : u7[m + i] = t[i]
    <3>1. /\ u6 \o t \in Seq(AnyFeed) /\ Len(u6 \o t) = Len(u6) + Len(t)
          /\ \A i \in 1 .. Len(u6) : (u6 \o t)[i] = u6[i]
          /\ \A i \in 1 .. Len(t) : (u6 \o t)[Len(u6) + i] = t[i]
      BY <2>1, Behind
    <3> QED
      BY <2>1, <2>2, <3>1
  <2> QED
    BY <2>3, <2>4 DEF m, n, t
<1>12. /\ u8 \in Seq(AnyFeed) /\ Len(u8) = 44 + 3 * RP
       /\ \A i \in 1 .. 38 + 3 * RP : u8[i] = u7[i]
       /\ \A i \in 1 .. 6 : u8[38 + 3 * RP + i] = FullRound(6)[i]
  <2> DEFINE m == 38 + 3 * RP
             n == 6
             t == FullRound(6)
  <2>1. m \in Nat /\ n \in Nat /\ Len(u7) = m /\ Len(t) = n /\ u7 \in Seq(AnyFeed) /\ t \in Seq(AnyFeed)
    BY <1>11, <1>3, <1>4
  <2>2. u8 = u7 \o t
    BY DEF u8
  <2>3. m + n = 44 + 3 * RP
    BY <1>4
  <2> HIDE DEF m, n, t
  <2>4. /\ u8 \in Seq(AnyFeed) /\ Len(u8) = m + n
        /\ \A i \in 1 .. m : u8[i] = u7[i]
        /\ \A i \in 1 .. n : u8[m + i] = t[i]
    <3>1. /\ u7 \o t \in Seq(AnyFeed) /\ Len(u7 \o t) = Len(u7) + Len(t)
          /\ \A i \in 1 .. Len(u7) : (u7 \o t)[i] = u7[i]
          /\ \A i \in 1 .. Len(t) : (u7 \o t)[Len(u7) + i] = t[i]
      BY <2>1, Behind
    <3> QED
      BY <2>1, <2>2, <3>1
  <2> QED
    BY <2>3, <2>4 DEF m, n, t
<1>13. /\ u9 \in Seq(AnyFeed) /\ Len(u9) = 48 + 3 * RP
       /\ \A i \in 1 .. 44 + 3 * RP : u9[i] = u8[i]
       /\ \A i \in 1 .. 4 : u9[44 + 3 * RP + i] = LastRound[i]
  <2> DEFINE m == 44 + 3 * RP
             n == 4
             t == LastRound
  <2>1. m \in Nat /\ n \in Nat /\ Len(u8) = m /\ Len(t) = n /\ u8 \in Seq(AnyFeed) /\ t \in Seq(AnyFeed)
    BY <1>12, <1>3, <1>4
  <2>2. u9 = u8 \o t
    BY DEF u9
  <2>3. m + n = 48 + 3 * RP
    BY <1>4
  <2> HIDE DEF m, n, t
  <2>4. /\ u9 \in Seq(AnyFeed) /\ Len(u9) = m + n
        /\ \A i \in 1 .. m : u9[i] = u8[i]
        /\ \A i \in 1 .. n : u9[m + i] = t[i]
    <3>1. /\ u8 \o t \in Seq(AnyFeed) /\ Len(u8 \o t) = Len(u8) + Len(t)
          /\ \A i \in 1 .. Len(u8) : (u8 \o t)[i] = u8[i]
          /\ \A i \in 1 .. Len(t) : (u8 \o t)[Len(u8) + i] = t[i]
      BY <2>1, Behind
    <3> QED
      BY <2>1, <2>2, <3>1
  <2> QED
    BY <2>3, <2>4 DEF m, n, t
<1>14. ASSUME NEW i \in 1 .. 44 + 3 * RP PROVE u9[i] = u8[i]
  BY <1>13
<1>15. ASSUME NEW i \in 1 .. 38 + 3 * RP PROVE u9[i] = u7[i]
  <2>1. i \in 1 .. 44 + 3 * RP
    BY <1>4
  <2>2. u8[i] = u7[i]
    BY <1>12
  <2>3. u9[i] = u8[i]
    BY <2>1, <1>14
  <2> QED
    BY <2>2, <2>3
<1>16. ASSUME NEW i \in 1 .. 32 + 3 * RP PROVE u9[i] = u6[i]
  <2>1. i \in 1 .. 38 + 3 * RP
    BY <1>4
  <2>2. u7[i] = u6[i]
    BY <1>11
  <2>3. u9[i] = u7[i]
    BY <2>1, <1>15
  <2> QED
    BY <2>2, <2>3
<1>17. ASSUME NEW i \in 1 .. 26 + 3 * RP PROVE u9[i] = u5[i]
  <2>1. i \in 1 .. 32 + 3 * RP
    BY <1>4
  <2>2. u6[i] = u5[i]
    BY <1>10
  <2>3. u9[i] = u6[i]
    BY <2>1, <1>16
  <2> QED
    BY <2>2, <2>3
<1>18. ASSUME NEW i \in 1 .. 26 PROVE u9[i] = u4[i]
  <2>1. i \in 1 .. 26 + 3 * RP
    BY <1>4
  <2>2. u5[i] = u4[i]
    BY <1>9
  <2>3. u9[i] = u5[i]
    BY <2>1, <1>17
  <2> QED
    BY <2>2, <2>3
<1>19. ASSUME NEW i \in 1 .. 20 PROVE u9[i] = u3[i]
  <2>1. i \in 1 .. 26
    BY <1>4
  <2>2. u4[i] = u3[i]
    BY <1>8
  <2>3. u9[i] = u4[i]
    BY <2>1, <1>18
  <2> QED
    BY <2>2, <2>3
<1>20. ASSUME NEW i \in 1 .. 14 PROVE u9[i] = u2[i]
  <2>1. i \in 1 .. 20
    BY <1>4
  <2>2. u3[i] = u2[i]
    BY <1>7
  <2>3. u9[i] = u3[i]
    BY <2>1, <1>19
  <2> QED
    BY <2>2, <2>3
<1>21. ASSUME NEW i \in 1 .. 8 PROVE u9[i] = u1[i]
  <2>1. i \in 1 .. 14
    BY <1>4
  <2>2. u2[i] = u1[i]
    BY <1>6
  <2>3. u9[i] = u2[i]
    BY <2>1, <1>20
  <2> QED
    BY <2>2, <2>3
<1>22. ASSUME NEW i \in 1 .. 2 PROVE u9[i] = u0[i]
  <2>1. i \in 1 .. 8
    BY <1>4
  <2>2. u1[i] = u0[i]
    BY <1>5
  <2>3. u9[i] = u1[i]
    BY <2>1, <1>21
  <2> QED
    BY <2>2, <2>3
<1>23. /\ Len(u9) = Feeds
       /\ \A j \in T : u9[1 + j] = Feed(ark(0), 2 + j, Own(2 - j))
  <2>1. 48 + 3 * RP = Feeds
    BY <1>4 DEF Feeds
  <2>2. u9[1] = u0[1] /\ u9[2] = u0[2]
    BY <1>22
  <2> QED
    BY <1>2, <1>13, <2>1, <2>2 DEF T
<1>24. ASSUME NEW r \in 0 .. 3, NEW i \in 1 .. 6 PROVE u9[2 + 6 * r + i] = FullRound(r)[i]
  <2>1. CASE r = 0
    <3>1. 2 + i \in 1 .. 8 /\ 2 + 6 * 0 + i = 2 + i
      OBVIOUS
    <3>2. u1[2 + i] = FullRound(0)[i]
      BY <1>5
    <3>3. u9[2 + i] = u1[2 + i]
      BY <3>1, <1>21
    <3> QED
      BY <2>1, <3>1, <3>2, <3>3
  <2>2. CASE r = 1
    <3>1. 8 + i \in 1 .. 14 /\ 2 + 6 * 1 + i = 8 + i
      OBVIOUS
    <3>2. u2[8 + i] = FullRound(1)[i]
      BY <1>6
    <3>3. u9[8 + i] = u2[8 + i]
      BY <3>1, <1>20
    <3> QED
      BY <2>2, <3>1, <3>2, <3>3
  <2>3. CASE r = 2
    <3>1. 14 + i \in 1 .. 20 /\ 2 + 6 * 2 + i = 14 + i
      OBVIOUS
    <3>2. u3[14 + i] = FullRound(2)[i]
      BY <1>7
    <3>3. u9[14 + i] = u3[14 + i]
      BY <3>1, <1>19
    <3> QED
      BY <2>3, <3>1, <3>2, <3>3
  <2>4. CASE r = 3
    <3>1. 20 + i \in 1 .. 26 /\ 2 + 6 * 3 + i = 20 + i
      OBVIOUS
    <3>2. u4[20 + i] = FullRound(3)[i]
      BY <1>8
    <3>3. u9[20 + i] = u4[20 + i]
      BY <3>1, <1>18
    <3> QED
      BY <2>4, <3>1, <3>2, <3>3
  <2> QED
    BY <2>1, <2>2, <2>3, <2>4
<1>25. ASSUME NEW r \in 0 .. RP - 1, NEW i \in 1 .. 3 PROVE u9[26 + 3 * r + i] = PartialRound(r)[i]
  <2> DEFINE n == 3 * r + i
  <2>1. n \in 1 .. 3 * RP /\ 26 + 3 * r + i = 26 + n /\ 26 + n \in 1 .. 26 + 3 * RP
    BY <1>4
  <2>2. flat[n] = PartialRound(r)[i]
    BY <1>3
  <2> HIDE DEF n
  <2>3. u5[26 + n] = flat[n]
    BY <1>9, <2>1
  <2>4. u9[26 + n] = u5[26 + n]
    BY <2>1, <1>17
  <2> QED
    BY <2>1, <2>2, <2>3, <2>4
<1>26. ASSUME NEW r \in 4 .. 6, NEW i \in 1 .. 6 PROVE u9[2 + 3 * RP + 6 * r + i] = FullRound(r)[i]
  <2>1. CASE r = 4
    <3>1. 26 + 3 * RP + i \in 1 .. 32 + 3 * RP /\ 2 + 3 * RP + 6 * 4 + i = 26 + 3 * RP + i
      BY <1>4
    <3>2. u6[26 + 3 * RP + i] = FullRound(4)[i]
      BY <1>10
    <3>3. u9[26 + 3 * RP + i] = u6[26 + 3 * RP + i]
      BY <3>1, <1>16
    <3> QED
      BY <2>1, <3>1, <3>2, <3>3
  <2>2. CASE r = 5
    <3>1. 32 + 3 * RP + i \in 1 .. 38 + 3 * RP /\ 2 + 3 * RP + 6 * 5 + i = 32 + 3 * RP + i
      BY <1>4
    <3>2. u7[32 + 3 * RP + i] = FullRound(5)[i]
      BY <1>11
    <3>3. u9[32 + 3 * RP + i] = u7[32 + 3 * RP + i]
      BY <3>1, <1>15
    <3> QED
      BY <2>2, <3>1, <3>2, <3>3
  <2>3. CASE r = 6
    <3>1. 38 + 3 * RP + i \in 1 .. 44 + 3 * RP /\ 2 + 3 * RP + 6 * 6 + i = 38 + 3 * RP + i
      BY <1>4
    <3>2. u8[38 + 3 * RP + i] = FullRound(6)[i]
      BY <1>12
    <3>3. u9[38 + 3 * RP + i] = u8[38 + 3 * RP + i]
      BY <3>1, <1>14
    <3> QED
      BY <2>3, <3>1, <3>2, <3>3
  <2> QED
    BY <2>1, <2>2, <2>3
<1> QED
  BY <1>1, <1>13, <1>23, <1>24, <1>25, <1>26

-----------------------------------------------------------------------------
(* The tree of components                                                  *)

(* The places of the subcomponents of PoseidonEx, by their roles.          *)
LEMMA SubsAre ==
  /\ DOMAIN PoseidonExSubs = 0 .. mixLast
  /\ \A r \in 0 .. 7 : PoseidonExSubs[ark(r)] = Place("Ark", ArkConstants(r), 3 + 4 * r, r)
  /\ \A i \in 0 .. 15 : PoseidonExSubs[8 + i] = Place("Sigma", 0, 66 + 4 * RP + 4 * i, 16 + RP + i)
  /\ \A r \in 0 .. RP - 1 :
       PoseidonExSubs[sigmaP(r)] = Place("Sigma", 0, 130 + 4 * RP + 4 * r, 32 + RP + r)
  /\ \A r \in 0 .. 6 :
       PoseidonExSubs[mix(r)] = Place("Mix", IF r = 3 THEN P ELSE M, 35 + 4 * r, 8 + r)
  /\ \A r \in 0 .. RP - 1 : PoseidonExSubs[mixS(r)] = Place("MixS", r, 66 + 4 * r, 16 + r)
  /\ PoseidonExSubs[mixLast] = Place("MixLast", 0, 63, 15)
<1> USE Constants DEF ark, sigmaP, mix, mixS, mixLast
<1>1. DOMAIN PoseidonExSubs = 0 .. mixLast
  BY DEF PoseidonExSubs
<1>2. ASSUME NEW r \in 0 .. 7
      PROVE  PoseidonExSubs[ark(r)] = Place("Ark", ArkConstants(r), 3 + 4 * r, r)
  <2>1. r \in 0 .. mixLast /\ r < 8
    OBVIOUS
  <2> QED
    BY <2>1 DEF PoseidonExSubs
<1>3. ASSUME NEW i \in 0 .. 15
      PROVE  PoseidonExSubs[8 + i] = Place("Sigma", 0, 66 + 4 * RP + 4 * i, 16 + RP + i)
  <2>1. 8 + i \in 0 .. mixLast /\ ~(8 + i < 8) /\ 8 + i \in 8 .. 23 /\ (8 + i) - 8 = i
    OBVIOUS
  <2> QED
    BY <2>1 DEF PoseidonExSubs
<1>4. ASSUME NEW r \in 0 .. RP - 1
      PROVE  PoseidonExSubs[sigmaP(r)] = Place("Sigma", 0, 130 + 4 * RP + 4 * r, 32 + RP + r)
  <2>1. /\ 24 + r \in 0 .. mixLast /\ ~(24 + r < 8) /\ 24 + r \notin 8 .. 23
        /\ 24 + r \in 24 .. 23 + RP /\ (24 + r) - 24 = r
    OBVIOUS
  <2> QED
    BY <2>1 DEF PoseidonExSubs
<1>5. ASSUME NEW r \in 0 .. 6
      PROVE  PoseidonExSubs[mix(r)] = Place("Mix", IF r = 3 THEN P ELSE M, 35 + 4 * r, 8 + r)
  <2> DEFINE k == mix(r)
  <2>1. /\ k \in 0 .. mixLast /\ ~(k < 8) /\ k \notin 8 .. 23 /\ k \notin 24 .. 23 + RP
        /\ k \in mix(0) .. mix(6) /\ k - mix(0) = r /\ (k = mix(3) <=> r = 3) /\ 8 + k - mix(0) = 8 + r
    OBVIOUS
  <2>2. CASE r = 0
    BY <2>1, <2>2 DEF PoseidonExSubs
  <2>3. CASE r = 1
    BY <2>1, <2>3 DEF PoseidonExSubs
  <2>4. CASE r = 2
    BY <2>1, <2>4 DEF PoseidonExSubs
  <2>5. CASE r = 3
    BY <2>1, <2>5 DEF PoseidonExSubs
  <2>6. CASE r = 4
    BY <2>1, <2>6 DEF PoseidonExSubs
  <2>7. CASE r = 5
    BY <2>1, <2>7 DEF PoseidonExSubs
  <2>8. CASE r = 6
    BY <2>1, <2>8 DEF PoseidonExSubs
  <2> QED
    BY <2>2, <2>3, <2>4, <2>5, <2>6, <2>7, <2>8
<1>6. ASSUME NEW r \in 0 .. RP - 1
      PROVE  PoseidonExSubs[mixS(r)] = Place("MixS", r, 66 + 4 * r, 16 + r)
  <2> DEFINE k == mixS(r)
  <2>1. /\ k \in 0 .. mixLast /\ ~(k < 8) /\ k \notin 8 .. 23 /\ k \notin 24 .. 23 + RP
        /\ k \notin mix(0) .. mix(6) /\ k \in mixS(0) .. mixS(RP - 1) /\ k - mixS(0) = r
    OBVIOUS
  <2> QED
    BY <2>1 DEF PoseidonExSubs
<1>7. PoseidonExSubs[mixLast] = Place("MixLast", 0, 63, 15)
  <2>1. /\ mixLast \in 0 .. mixLast /\ ~(mixLast < 8) /\ mixLast \notin 8 .. 23
        /\ mixLast \notin 24 .. 23 + RP
        /\ mixLast \notin mix(0) .. mix(6) /\ mixLast \notin mixS(0) .. mixS(RP - 1)
    OBVIOUS
  <2> QED
    BY <2>1 DEF PoseidonExSubs
<1> QED
  BY <1>1, <1>2, <1>3, <1>4, <1>5, <1>6, <1>7

(* The subcomponents of PoseidonEx are the leaves from 4 on, one each.     *)
LEMMA LeavesAreSubs ==
  ASSUME NEW c \in Leaves
  PROVE  /\ Index(c) \in 0 .. mixLast /\ Id(Index(c)) = c
         /\ PoseidonExSubs[Index(c)] = Place(Kind(c), Arg(c), Start(c) - 11, c - 4)
<1> USE Constants DEF Leaves, Id
<1>1. CASE c \in 4 .. 11
  <2> DEFINE r == c - 4
  <2>1. r \in 0 .. 7 /\ Index(c) = ark(r) /\ ark(r) \in 0 .. mixLast
    BY <1>1 DEF Index, ark, mixLast
  <2>2. Kind(c) = "Ark" /\ Arg(c) = ArkConstants(r) /\ Start(c) - 11 = 3 + 4 * r
    BY <1>1 DEF Kind, Arg, Start
  <2>3. PoseidonExSubs[ark(r)] = Place("Ark", ArkConstants(r), 3 + 4 * r, r)
    BY <2>1, SubsAre
  <2> QED
    BY <2>1, <2>2, <2>3 DEF Place
<1>2. CASE c \in 12 .. 18
  <2> DEFINE r == c - 12
  <2>1. r \in 0 .. 6 /\ Index(c) = mix(r) /\ mix(r) \in 0 .. mixLast
    BY <1>2 DEF Index, mix, mixLast
  <2>2. Kind(c) = "Mix" /\ Arg(c) = (IF r = 3 THEN P ELSE M) /\ Start(c) - 11 = 35 + 4 * r /\ c - 4 = 8 + r
    BY <1>2 DEF Kind, Arg, Start
  <2>3. PoseidonExSubs[mix(r)] = Place("Mix", IF r = 3 THEN P ELSE M, 35 + 4 * r, 8 + r)
    BY <2>1, SubsAre
  <2> QED
    BY <2>1, <2>2, <2>3 DEF Place
<1>3. CASE c = 19
  <2>1. Index(c) = mixLast /\ mixLast \in 0 .. mixLast
    BY <1>3 DEF Index, mixLast
  <2>2. Kind(c) = "MixLast" /\ Arg(c) = 0 /\ Start(c) - 11 = 63
    BY <1>3 DEF Kind, Arg, Start
  <2>3. PoseidonExSubs[mixLast] = Place("MixLast", 0, 63, 15) /\ c - 4 = 15
    BY <1>3, SubsAre
  <2> QED
    BY <1>3, <2>1, <2>2, <2>3 DEF Place
<1>4. CASE c \in 20 .. 19 + RP
  <2> DEFINE r == c - 20
  <2>1. r \in 0 .. RP - 1 /\ Index(c) = mixS(r) /\ mixS(r) \in 0 .. mixLast
    BY <1>4 DEF Index, mixS, mixLast
  <2>2. Kind(c) = "MixS" /\ Arg(c) = r /\ Start(c) - 11 = 66 + 4 * r /\ c - 4 = 16 + r
    BY <1>4 DEF Kind, Arg, Start
  <2>3. PoseidonExSubs[mixS(r)] = Place("MixS", r, 66 + 4 * r, 16 + r)
    BY <2>1, SubsAre
  <2> QED
    BY <2>1, <2>2, <2>3 DEF Place
<1>5. CASE c \in 20 + RP .. 35 + RP
  <2> DEFINE i == c - 20 - RP
  <2>1. i \in 0 .. 15 /\ Index(c) = 8 + i /\ 8 + i \in 0 .. mixLast
    BY <1>5 DEF Index, mixLast
  <2>2. Kind(c) = "Sigma" /\ Arg(c) = 0 /\ Start(c) - 11 = 66 + 4 * RP + 4 * i /\ c - 4 = 16 + RP + i
    BY <1>5 DEF Kind, Arg, Start
  <2>3. PoseidonExSubs[8 + i] = Place("Sigma", 0, 66 + 4 * RP + 4 * i, 16 + RP + i)
    BY <2>1, SubsAre
  <2> QED
    BY <2>1, <2>2, <2>3 DEF Place
<1>6. CASE c \in 36 + RP .. 35 + 2 * RP
  <2> DEFINE r == c - 36 - RP
  <2>1. r \in 0 .. RP - 1 /\ Index(c) = sigmaP(r) /\ sigmaP(r) \in 0 .. mixLast
    BY <1>6 DEF Index, sigmaP, mixLast
  <2>2. Kind(c) = "Sigma" /\ Arg(c) = 0 /\ Start(c) - 11 = 130 + 4 * RP + 4 * r /\ c - 4 = 32 + RP + r
    BY <1>6 DEF Kind, Arg, Start
  <2>3. PoseidonExSubs[sigmaP(r)] = Place("Sigma", 0, 130 + 4 * RP + 4 * r, 32 + RP + r)
    BY <2>1, SubsAre, Zenon
  <2> QED
    BY <2>1, <2>2, <2>3 DEF Place
<1> QED
  BY <1>1, <1>2, <1>3, <1>4, <1>5, <1>6

(* Their identifiers.                                                      *)
LEMMA IdsAre ==
  /\ \A r \in 0 .. 7 : Id(ark(r)) = 4 + r
  /\ \A i \in 0 .. 15 : Id(8 + i) = 20 + RP + i
  /\ \A r \in 0 .. RP - 1 : Id(sigmaP(r)) = 36 + RP + r /\ Id(mixS(r)) = 20 + r
  /\ \A r \in 0 .. 6 : Id(mix(r)) = 12 + r
  /\ Id(mixLast) = 19
<1>1. ASSUME NEW r \in 0 .. 7 PROVE Id(ark(r)) = 4 + r
  <2>1. PoseidonExSubs[ark(r)] = Place("Ark", ArkConstants(r), 3 + 4 * r, r)
    BY SubsAre
  <2> QED
    BY <2>1 DEF Id, Place
<1>2. ASSUME NEW i \in 0 .. 15 PROVE Id(8 + i) = 20 + RP + i
  <2>1. PoseidonExSubs[8 + i] = Place("Sigma", 0, 66 + 4 * RP + 4 * i, 16 + RP + i)
    BY SubsAre
  <2> QED
    BY <2>1, Constants DEF Id, Place
<1>3. ASSUME NEW r \in 0 .. RP - 1 PROVE Id(sigmaP(r)) = 36 + RP + r /\ Id(mixS(r)) = 20 + r
  <2>1. /\ PoseidonExSubs[sigmaP(r)] = Place("Sigma", 0, 130 + 4 * RP + 4 * r, 32 + RP + r)
        /\ PoseidonExSubs[mixS(r)] = Place("MixS", r, 66 + 4 * r, 16 + r)
    BY SubsAre
  <2> QED
    BY <2>1, Constants DEF Id, Place
<1>4. ASSUME NEW r \in 0 .. 6 PROVE Id(mix(r)) = 12 + r
  <2>1. PoseidonExSubs[mix(r)] = Place("Mix", IF r = 3 THEN P ELSE M, 35 + 4 * r, 8 + r)
    BY SubsAre
  <2> QED
    BY <2>1 DEF Id, Place
<1>5. Id(mixLast) = 19
  BY SubsAre DEF Id, Place
<1> QED
  BY <1>1, <1>2, <1>3, <1>4, <1>5

(* Every index of mySubcomponents is that of a leaf.                       *)
LEMMA SubsAreLeaves ==
  ASSUME NEW k \in 0 .. mixLast
  PROVE  Id(k) \in Leaves /\ Index(Id(k)) = k
<1> USE Constants
<1>1. CASE k \in 0 .. 7
  BY <1>1, IdsAre DEF ark, Leaves, Index
<1>2. CASE k \in 8 .. 23
  <2>1. k - 8 \in 0 .. 15 /\ 8 + (k - 8) = k
    BY <1>2
  <2>2. Id(k) = 20 + RP + (k - 8)
    BY <2>1, IdsAre
  <2> QED
    BY <2>1, <2>2 DEF Leaves, Index
<1>3. CASE k \in 24 .. 23 + RP
  <2>1. k - 24 \in 0 .. RP - 1 /\ sigmaP(k - 24) = k
    BY <1>3 DEF sigmaP
  <2>2. Id(k) = 36 + RP + (k - 24)
    BY <2>1, IdsAre
  <2> QED
    BY <2>1, <2>2 DEF Leaves, Index, sigmaP
<1>4. CASE k \in mix(0) .. mix(6)
  <2>1. k - mix(0) \in 0 .. 6 /\ mix(k - mix(0)) = k
    BY <1>4 DEF mix
  <2> DEFINE r == k - mix(0)
             c == 12 + r
  <2>2. Id(k) = c
    BY <2>1, IdsAre
  <2>3. r \in 0 .. 6 /\ c \in 12 .. 18 /\ c - 12 = r /\ mix(r) = k
    BY <2>1
  <2> HIDE DEF r, c
  <2>4. c \in Leaves /\ Index(c) = mix(c - 12)
    BY <2>3 DEF Leaves, Index
  <2> QED
    BY <2>2, <2>3, <2>4
<1>5. CASE k \in mixS(0) .. mixS(RP - 1)
  <2>1. k - mixS(0) \in 0 .. RP - 1 /\ mixS(k - mixS(0)) = k
    BY <1>5 DEF mixS
  <2>2. Id(k) = 20 + (k - mixS(0))
    BY <2>1, IdsAre
  <2> QED
    BY <2>1, <2>2 DEF Leaves, Index, mixS
<1>6. CASE k = mixLast
  BY <1>6, IdsAre DEF Leaves, Index, mixLast
<1> QED
  BY <1>1, <1>2, <1>3, <1>4, <1>5, <1>6 DEF mix, mixS, mixLast

-----------------------------------------------------------------------------
(* The ranges of the components in signalValues                            *)

(* The templates of the components.                                        *)
LEMMA KindIs ==
  /\ Kind(0) = "Auth" /\ Kind(1) = "IsEqual" /\ Kind(2) = "Poseidon" /\ Kind(3) = "PoseidonEx"
  /\ Kind(36 + 2 * RP) = "IsEqual"
  /\ \A c \in 4 .. 11 : Kind(c) = "Ark"
  /\ \A c \in 12 .. 18 : Kind(c) = "Mix"
  /\ Kind(19) = "MixLast"
  /\ \A c \in 20 .. 19 + RP : Kind(c) = "MixS"
  /\ \A c \in 20 + RP .. 35 + 2 * RP : Kind(c) = "Sigma"
BY Constants DEF Kind

(* There are no components but those.                                      *)
LEMMA ComponentCases ==
  ASSUME NEW c \in Components
  PROVE  \/ c \in {0, 1, 2, 3, 36 + 2 * RP} \/ c \in 4 .. 11 \/ c \in 12 .. 18 \/ c = 19
         \/ c \in 20 .. 19 + RP \/ c \in 20 + RP .. 35 + 2 * RP
BY Constants DEF Components

(* Where the signals of a component are.                                   *)
LEMMA StartIs ==
  ASSUME NEW c \in Components
  PROVE  /\ c = 0 => Start(c) = 1 /\ Offsets(c) = 0 .. 4
         /\ c = 1 => Start(c) = 6 /\ Offsets(c) = 0 .. 2
         /\ c = 2 => Start(c) = 9 /\ Offsets(c) = 0 .. 1
         /\ c = 3 => Start(c) = 11 /\ Offsets(c) = 0 .. 2
         /\ c \in 4 .. 18 => Start(c) = 4 * c - 2 /\ Offsets(c) = 0 .. 3
         /\ c = 19 => Start(c) = 74 /\ Offsets(c) = 0 .. 2
         /\ c \in 20 .. 35 + 2 * RP => Start(c) = 4 * c - 3 /\ Offsets(c) = 0 .. 3
         /\ c = 36 + 2 * RP => Start(c) = 4 * c - 3 /\ Offsets(c) = 0 .. 2
<1>1. CASE c \in {0, 1, 2, 3}
  BY <1>1, KindIs, Constants DEF Start, Offsets
<1>2. CASE c \in 4 .. 18
  BY <1>2, KindIs, Constants DEF Start, Offsets
<1>3. CASE c = 19
  BY <1>3, KindIs, Constants DEF Start, Offsets
<1>4. CASE c \in 20 .. 35 + 2 * RP
  <2>1. Kind(c) \in {"MixS", "Sigma"}
    BY <1>4, KindIs, Constants
  <2> QED
    BY <1>4, <2>1, Constants DEF Start, Offsets
<1>5. CASE c = 36 + 2 * RP
  BY <1>5, KindIs, Constants DEF Start, Offsets
<1> QED
  BY <1>1, <1>2, <1>3, <1>4, <1>5, Constants DEF Components

(* They are in signalValues, and none is the constant at 0.                *)
LEMMA InSignals ==
  ASSUME NEW c \in Components, NEW o \in Offsets(c)
  PROVE  /\ o \in 0 .. 4 /\ Start(c) \in Signals /\ Start(c) \in Nat \ {0}
         /\ Start(c) + o \in Signals /\ Start(c) + o # 0
BY StartIs, Constants DEF Components, Signals

(* A component ends before the next one starts.                            *)
LEMMA StartsApart ==
  ASSUME NEW c \in Components, NEW d \in Components, c < d, NEW o \in Offsets(c)
  PROVE  Start(c) + o < Start(d)
<1>1. c \in Int /\ d \in Int /\ 0 <= c /\ d <= 36 + 2 * RP
  BY Constants DEF Components
<1>2. c = 0 => Start(c) + o <= 5
  BY StartIs
<1>3. c = 1 => Start(c) + o <= 8
  BY StartIs
<1>4. c = 2 => Start(c) + o <= 10
  BY StartIs
<1>5. c = 3 => Start(c) + o <= 13
  BY StartIs
<1>6. c \in 4 .. 18 => Start(c) + o <= 4 * c + 1
  BY StartIs, Constants
<1>7. c = 19 => Start(c) + o <= 76
  BY StartIs
<1>8. c \in 20 .. 35 + 2 * RP => Start(c) + o <= 4 * c
  BY StartIs, Constants
<1> QED
  BY <1>1, <1>2, <1>3, <1>4, <1>5, <1>6, <1>7, <1>8, StartIs, Constants

(* The ranges do not overlap.                                              *)
LEMMA Apart ==
  ASSUME NEW c \in Components, NEW d \in Components, NEW o \in Offsets(c), NEW p \in Offsets(d),
         Start(c) + o = Start(d) + p
  PROVE  c = d /\ o = p
<1>1. c \in Int /\ d \in Int /\ Start(c) \in Int /\ Start(d) \in Int /\ o \in Nat /\ p \in Nat
  BY InSignals DEF Components
<1>2. ~(c < d)
  <2> SUFFICES ASSUME c < d PROVE FALSE
    OBVIOUS
  <2>1. Start(c) + o < Start(d)
    BY StartsApart
  <2> QED
    BY <1>1, <2>1
<1>3. ~(d < c)
  <2> SUFFICES ASSUME d < c PROVE FALSE
    OBVIOUS
  <2>1. Start(d) + p < Start(c)
    BY StartsApart
  <2> QED
    BY <1>1, <2>1
<1>4. c = d
  BY <1>1, <1>2, <1>3
<1> QED
  BY <1>1, <1>4

(* And they leave no signal out but the constant 1.                        *)
LEMMA Cover ==
  ASSUME NEW s \in Signals, s # 0
  PROVE  \E c \in Components : \E o \in Offsets(c) : s = Start(c) + o
<1> DEFINE Has(c) == c \in Components /\ \E o \in Offsets(c) : s = Start(c) + o
<1>1. s \in Int /\ 1 <= s /\ s <= 143 + 8 * RP
  BY Constants DEF Signals
<1>2. ASSUME NEW c \in Components, Start(c) <= s, s - Start(c) \in Offsets(c)
      PROVE  Has(c)
  <2>1. Start(c) \in Int
    BY <1>2, InSignals
  <2> QED
    BY <1>1, <1>2, <2>1
<1>3. CASE s \in 1 .. 5
  <2>1. 0 \in Components
    BY Constants DEF Components
  <2> QED
    BY <1>2, <1>3, <2>1, StartIs
<1>4. CASE s \in 6 .. 8
  <2>1. 1 \in Components
    BY Constants DEF Components
  <2> QED
    BY <1>2, <1>4, <2>1, StartIs
<1>5. CASE s \in 9 .. 10
  <2>1. 2 \in Components
    BY Constants DEF Components
  <2> QED
    BY <1>2, <1>5, <2>1, StartIs
<1>6. CASE s \in 11 .. 13
  <2>1. 3 \in Components
    BY Constants DEF Components
  <2> QED
    BY <1>2, <1>6, <2>1, StartIs
<1>7. CASE s \in 14 .. 73
  <2> DEFINE c == (s + 2) \div 4
  <2>1. c \in 4 .. 18 /\ c \in Components /\ s - (4 * c - 2) \in 0 .. 3
    BY <1>7, Constants DEF Components
  <2> HIDE DEF c
  <2>2. Start(c) = 4 * c - 2 /\ Offsets(c) = 0 .. 3
    BY <2>1, StartIs
  <2> QED
    BY <1>1, <1>2, <2>1, <2>2
<1>8. CASE s \in 74 .. 76
  <2>1. 19 \in Components
    BY Constants DEF Components
  <2> QED
    BY <1>2, <1>8, <2>1, StartIs
<1>9. CASE s \in 77 .. 143 + 8 * RP
  <2> DEFINE c == (s + 3) \div 4
  <2>1. c \in 20 .. 36 + 2 * RP /\ s - (4 * c - 3) \in 0 .. 3 /\ (c = 36 + 2 * RP => s - (4 * c - 3) \in 0 .. 2)
    BY <1>1, <1>9, Constants
  <2> HIDE DEF c
  <2>2. c \in Components
    BY <2>1, Constants DEF Components
  <2>3. Start(c) = 4 * c - 3 /\ s - (4 * c - 3) \in Offsets(c)
    <3>1. CASE c = 36 + 2 * RP
      BY <2>1, <2>2, <3>1, StartIs
    <3>2. CASE c # 36 + 2 * RP
      <4>1. c \in 20 .. 35 + 2 * RP
        BY <2>1, <3>2, Constants
      <4> QED
        BY <2>1, <2>2, <4>1, StartIs
    <3> QED
      BY <3>1, <3>2
  <2> QED
    BY <1>1, <1>2, <2>1, <2>2, <2>3
<1> QED
  BY <1>1, <1>3, <1>4, <1>5, <1>6, <1>7, <1>8, <1>9

(* The inputs of a component, and its first output, are signals of it.     *)
LEMMA InIsOffsets ==
  ASSUME NEW c \in Components
  PROVE  In(Kind(c)) \subseteq Offsets(c) /\ LastIn(Kind(c)) \in In(Kind(c)) /\ 0 \in Offsets(c)
BY ComponentCases, KindIs, Constants DEF In, Offsets, LastIn

-----------------------------------------------------------------------------
(* Arithmetic on values and unset signals                                  *)

Signal == Value \cup {Unset}

(* The operations return a value or, of an unset operand, an unset signal. *)
LEMMA Arithmetic ==
  ASSUME NEW x \in Signal, NEW y \in Signal
  PROVE  /\ Add(x, y) \in Signal /\ Mul(x, y) \in Signal /\ Sub(x, y) \in Signal
         /\ Add(x, y) = Unset <=> x = Unset \/ y = Unset
         /\ Mul(x, y) = Unset <=> x = Unset \/ y = Unset
         /\ Sub(x, y) = Unset <=> x = Unset \/ y = Unset
<1>1. q \in Nat \ {0} /\ Unset \notin Value
  BY Constants
<1>2. CASE x = Unset \/ y = Unset
  BY <1>1, <1>2 DEF Add, Mul, Sub, Signal
<1>3. CASE x # Unset /\ y # Unset
  <2>1. x \in Int /\ y \in Int
    BY <1>3, Constants DEF Signal
  <2>2. (x + y) % q \in Value /\ (x - y) % q \in Value
    BY <1>1, <2>1 DEF Value
  <2>3. x * y \in Int
    BY <2>1
  <2>4. (x * y) % q \in Value
    BY <1>1, <2>3 DEF Value
  <2> QED
    BY <1>1, <1>3, <2>2, <2>4 DEF Add, Mul, Sub, Signal
<1> QED
  BY <1>2, <1>3

(* On values all of it is a value.                                         *)
LEMMA ArithmeticOnValues ==
  ASSUME NEW x \in Value, NEW y \in Value
  PROVE  Add(x, y) \in Value /\ Mul(x, y) \in Value /\ Sub(x, y) \in Value
BY Arithmetic, Constants DEF Signal

(* A wire that adds nothing copies.                                        *)
LEMMA AddZero ==
  ASSUME NEW x \in Signal
  PROVE  Add(x, 0) = x
<1>1. CASE x = Unset
  BY <1>1 DEF Add
<1>2. CASE x # Unset
  <2>1. x \in 0 .. q - 1 /\ 0 # Unset /\ q \in Nat \ {0}
    BY <1>2, Constants DEF Signal, Value
  <2>2. (x + 0) % q = x
    BY <2>1, SmallMod
  <2> QED
    BY <1>2, <2>1, <2>2 DEF Add
<1> QED
  BY <1>1, <1>2
-----------------------------------------------------------------------------
(* The run functions of the templates without subcomponents                *)

Simple(c) == c \in Components /\ Kind(c) \notin Composite

(* The record of component c as its run function reads it.                 *)
IsRecord(m, c) == m.kind = Kind(c) /\ m.arg = Arg(c) /\ m.signalStart = Start(c)

(* A run function sets the signals that are not inputs, and only those.    *)
RunsRight(sv, sv2, c) ==
  /\ sv2 \in [Signals -> Signal]
  /\ \A o \in Offsets(c) \ In(Kind(c)) : Sig(sv2, c, o) # Unset
  /\ \A s \in Signals : (\A o \in Offsets(c) \ In(Kind(c)) : s # Start(c) + o) => sv2[s] = sv[s]
  /\ Ran(sv2, c)

(* The arguments of the templates are in the ranges of the constants.      *)
LEMMA ArgIs ==
  /\ \A c \in 4 .. 11 : Arg(c) \in 0 .. 14 + RP
  /\ \A c \in 12 .. 18 : \A e \in T \X T : Arg(c)[e] \in Value
  /\ \A c \in 20 .. 19 + RP : Arg(c) \in 0 .. RP - 1
<1>1. ASSUME NEW c \in 4 .. 11 PROVE Arg(c) \in 0 .. 14 + RP
  <2>1. Kind(c) = "Ark" /\ Arg(c) = ArkConstants(c - 4)
    BY KindIs DEF Arg
  <2> QED
    BY <2>1, Constants DEF ArkConstants
<1>2. ASSUME NEW c \in 12 .. 18, NEW e \in T \X T PROVE Arg(c)[e] \in Value
  <2>1. Kind(c) = "Mix"
    BY KindIs
  <2>2. Arg(c) \in {P, M}
    BY <2>1 DEF Arg
  <2> QED
    BY <2>2, Constants
<1>3. ASSUME NEW c \in 20 .. 19 + RP PROVE Arg(c) \in 0 .. RP - 1
  <2>1. Kind(c) = "MixS"
    BY KindIs
  <2> QED
    BY <2>1, Constants DEF Arg
<1> QED
  BY <1>1, <1>2, <1>3

Put(sv, s, x)     == [sv EXCEPT ![s] = x]
Put2(sv, s, x, y) == [sv EXCEPT ![s] = x, ![s + 1] = y]

(* Two signals of a component set.                                         *)
LEMMA TwoSet ==
  ASSUME NEW sv \in [Signals -> Signal], NEW c \in Components, NEW x \in Value, NEW y \in Value,
         Offsets(c) = 0 .. 3, NEW sv2, sv2 = Put2(sv, Start(c), x, y)
  PROVE  /\ sv2 \in [Signals -> Signal]
         /\ Sig(sv2, c, 0) = x /\ Sig(sv2, c, 1) = y
         /\ Sig(sv2, c, 2) = Sig(sv, c, 2) /\ Sig(sv2, c, 3) = Sig(sv, c, 3)
         /\ \A s \in Signals : s # Start(c) /\ s # Start(c) + 1 => sv2[s] = sv[s]
<1> DEFINE a == Start(c)
<1>1. /\ a \in Nat /\ a \in Signals /\ a + 0 \in Signals /\ a + 1 \in Signals
      /\ a + 2 \in Signals /\ a + 3 \in Signals
  BY InSignals
<1>2. sv2 = [sv EXCEPT ![a] = x, ![a + 1] = y]
  BY DEF Put2
<1> HIDE DEF a
<1>3. x \in Signal /\ y \in Signal
  BY DEF Signal
<1>4. a + 0 = a /\ a # a + 1 /\ a + 2 # a /\ a + 2 # a + 1 /\ a + 3 # a /\ a + 3 # a + 1
  BY <1>1
<1>5. /\ sv2 \in [Signals -> Signal]
      /\ sv2[a] = x /\ sv2[a + 1] = y /\ sv2[a + 2] = sv[a + 2] /\ sv2[a + 3] = sv[a + 3]
      /\ \A s \in Signals : s # a /\ s # a + 1 => sv2[s] = sv[s]
  BY <1>2, <1>1, <1>3, <1>4
<1>6. sv2[a + 0] = x
  BY <1>4, <1>5
<1> QED
  BY <1>5, <1>6 DEF a, Sig

(* Ark_run.                                                                *)
LEMMA ArkRuns ==
  ASSUME NEW sv \in [Signals -> Signal], NEW m, NEW c \in 4 .. 11, IsRecord(m, c),
         \A i \in In(Kind(c)) : Sig(sv, c, i) # Unset
  PROVE  RunsRight(sv, functionTable(m, sv), c)
<1>1. c \in Components /\ Kind(c) = "Ark" /\ Offsets(c) = 0 .. 3 /\ In(Kind(c)) = {2, 3}
  BY KindIs, Constants DEF Components, Offsets, In
<1> DEFINE a == Start(c)
           x == Add(sv[a + 2], C[Arg(c)])
           y == Add(sv[a + 3], C[Arg(c) + 1])
<1>2. functionTable(m, sv) = [sv EXCEPT ![a] = x, ![a + 1] = y]
  BY <1>1 DEF functionTable, Ark_run, IsRecord
<1>3. sv[a + 2] \in Value /\ sv[a + 3] \in Value
  <2>1. a + 2 \in Signals /\ a + 3 \in Signals /\ sv[a + 2] # Unset /\ sv[a + 3] # Unset
    BY <1>1, InSignals DEF Sig
  <2> QED
    BY <2>1 DEF Signal
<1>4. C[Arg(c)] \in Value /\ C[Arg(c) + 1] \in Value
  <2>1. Arg(c) \in 0 .. 15 + RP /\ Arg(c) + 1 \in 0 .. 15 + RP
    BY ArgIs, Constants
  <2> QED
    BY <2>1, Constants
<1>5. x \in Value /\ y \in Value
  BY <1>3, <1>4, ArithmeticOnValues
<1>6. x = Add(Sig(sv, c, 2), C[Arg(c)]) /\ y = Add(Sig(sv, c, 3), C[Arg(c) + 1])
  BY DEF Sig
<1> HIDE DEF x, y, a
<1> DEFINE sv2 == functionTable(m, sv)
<1>7. /\ sv2 \in [Signals -> Signal]
      /\ Sig(sv2, c, 0) = x /\ Sig(sv2, c, 1) = y
      /\ Sig(sv2, c, 2) = Sig(sv, c, 2) /\ Sig(sv2, c, 3) = Sig(sv, c, 3)
      /\ \A s \in Signals : s # Start(c) /\ s # Start(c) + 1 => sv2[s] = sv[s]
  <2>1. sv2 = Put2(sv, Start(c), x, y)
    BY <1>2 DEF a, Put, Put2
  <2> HIDE DEF sv2
  <2> QED
    BY <1>1, <1>5, <2>1, TwoSet
<1> HIDE DEF sv2
<1>8. Ran(sv2, c)
  BY <1>1, <1>6, <1>7 DEF Ran
<1>9. \A o \in Offsets(c) \ In(Kind(c)) : Sig(sv2, c, o) # Unset
  <2>1. x # Unset /\ y # Unset
    BY <1>5, Constants
  <2>2. \A o \in Offsets(c) \ In(Kind(c)) : o = 0 \/ o = 1
    BY <1>1
  <2> QED
    BY <1>7, <2>1, <2>2
<1>10. ASSUME NEW s \in Signals, \A o \in Offsets(c) \ In(Kind(c)) : s # Start(c) + o
       PROVE  sv2[s] = sv[s]
  <2>1. s # Start(c) + 0 /\ s # Start(c) + 1 /\ Start(c) + 0 = Start(c)
    BY <1>1, <1>10, InSignals
  <2> QED
    BY <1>7, <2>1
<1> QED
  BY <1>7, <1>8, <1>9, <1>10 DEF RunsRight, sv2

(* Mix_run.                                                                *)
LEMMA MixRuns ==
  ASSUME NEW sv \in [Signals -> Signal], NEW m, NEW c \in 12 .. 18, IsRecord(m, c),
         \A i \in In(Kind(c)) : Sig(sv, c, i) # Unset
  PROVE  RunsRight(sv, functionTable(m, sv), c)
<1>1. c \in Components /\ Kind(c) = "Mix" /\ Offsets(c) = 0 .. 3 /\ In(Kind(c)) = {2, 3}
  BY KindIs, Constants DEF Components, Offsets, In
<1> DEFINE a      == Start(c)
           out(n) == Add(Mul(Arg(c)[<<0, n>>], sv[a + 2]), Mul(Arg(c)[<<1, n>>], sv[a + 3]))
           x      == out(0)
           y      == out(1)
<1>2. functionTable(m, sv) = [sv EXCEPT ![a] = x, ![a + 1] = y]
  BY <1>1 DEF functionTable, Mix_run, IsRecord
<1>3. sv[a + 2] \in Value /\ sv[a + 3] \in Value
  <2>1. a + 2 \in Signals /\ a + 3 \in Signals /\ sv[a + 2] # Unset /\ sv[a + 3] # Unset
    BY <1>1, InSignals DEF Sig
  <2> QED
    BY <2>1 DEF Signal
<1>4. \A n \in T : Arg(c)[<<0, n>>] \in Value /\ Arg(c)[<<1, n>>] \in Value
  <2>1. \A n \in T : <<0, n>> \in T \X T /\ <<1, n>> \in T \X T
    BY DEF T
  <2> QED
    BY <2>1, ArgIs
<1>5. \A n \in T : out(n) \in Value
  BY <1>3, <1>4, ArithmeticOnValues
<1>6. \A n \in T : out(n) = Add(Mul(Arg(c)[<<0, n>>], Sig(sv, c, 2)), Mul(Arg(c)[<<1, n>>], Sig(sv, c, 3)))
  BY DEF Sig
<1>7. 0 \in T /\ 1 \in T /\ \A n \in T : n = 0 \/ n = 1
  BY DEF T
<1> HIDE DEF out, a
<1> DEFINE sv2 == functionTable(m, sv)
<1>8. /\ sv2 \in [Signals -> Signal]
      /\ Sig(sv2, c, 0) = x /\ Sig(sv2, c, 1) = y
      /\ Sig(sv2, c, 2) = Sig(sv, c, 2) /\ Sig(sv2, c, 3) = Sig(sv, c, 3)
      /\ \A s \in Signals : s # Start(c) /\ s # Start(c) + 1 => sv2[s] = sv[s]
  <2>1. sv2 = Put2(sv, Start(c), x, y)
    BY <1>2 DEF a, Put2
  <2>2. x \in Value /\ y \in Value
    BY <1>5, <1>7
  <2> HIDE DEF sv2
  <2> QED
    BY <1>1, <2>1, <2>2, TwoSet
<1> HIDE DEF sv2
<1>9. Ran(sv2, c)
  <2>1. \A n \in T : Sig(sv2, c, n) = out(n)
    BY <1>8, <1>7
  <2> QED
    BY <1>1, <1>6, <1>8, <2>1 DEF Ran
<1>10. \A o \in Offsets(c) \ In(Kind(c)) : Sig(sv2, c, o) # Unset
  <2>1. x # Unset /\ y # Unset
    BY <1>5, <1>7, Constants
  <2>2. \A o \in Offsets(c) \ In(Kind(c)) : o = 0 \/ o = 1
    BY <1>1
  <2> QED
    BY <1>8, <2>1, <2>2
<1>11. ASSUME NEW s \in Signals, \A o \in Offsets(c) \ In(Kind(c)) : s # Start(c) + o
       PROVE  sv2[s] = sv[s]
  <2>1. s # Start(c) + 0 /\ s # Start(c) + 1 /\ Start(c) + 0 = Start(c)
    BY <1>1, <1>11, InSignals
  <2> QED
    BY <1>8, <2>1
<1> QED
  BY <1>8, <1>9, <1>10, <1>11 DEF RunsRight, sv2

(* MixS_run.                                                               *)
LEMMA MixSRuns ==
  ASSUME NEW sv \in [Signals -> Signal], NEW m, NEW c \in 20 .. 19 + RP, IsRecord(m, c),
         \A i \in In(Kind(c)) : Sig(sv, c, i) # Unset
  PROVE  RunsRight(sv, functionTable(m, sv), c)
<1>1. c \in Components /\ Kind(c) = "MixS" /\ Offsets(c) = 0 .. 3 /\ In(Kind(c)) = {2, 3}
  BY KindIs, Constants DEF Components, Offsets, In
<1> DEFINE a == Start(c)
           x == Add(Mul(S[3 * Arg(c)], sv[a + 2]), Mul(S[3 * Arg(c) + 1], sv[a + 3]))
           y == Add(sv[a + 3], Mul(sv[a + 2], S[3 * Arg(c) + 2]))
<1>2. functionTable(m, sv) = [sv EXCEPT ![a] = x, ![a + 1] = y]
  BY <1>1 DEF functionTable, MixS_run, IsRecord
<1>3. sv[a + 2] \in Value /\ sv[a + 3] \in Value
  <2>1. a + 2 \in Signals /\ a + 3 \in Signals /\ sv[a + 2] # Unset /\ sv[a + 3] # Unset
    BY <1>1, InSignals DEF Sig
  <2> QED
    BY <2>1 DEF Signal
<1>4. S[3 * Arg(c)] \in Value /\ S[3 * Arg(c) + 1] \in Value /\ S[3 * Arg(c) + 2] \in Value
  <2>1. /\ 3 * Arg(c) \in 0 .. 3 * RP - 1 /\ 3 * Arg(c) + 1 \in 0 .. 3 * RP - 1
        /\ 3 * Arg(c) + 2 \in 0 .. 3 * RP - 1
    BY ArgIs, Constants
  <2> QED
    BY <2>1, Constants
<1>5. x \in Value /\ y \in Value
  BY <1>3, <1>4, ArithmeticOnValues
<1>6. /\ x = Add(Mul(S[3 * Arg(c)], Sig(sv, c, 2)), Mul(S[3 * Arg(c) + 1], Sig(sv, c, 3)))
      /\ y = Add(Sig(sv, c, 3), Mul(Sig(sv, c, 2), S[3 * Arg(c) + 2]))
  BY DEF Sig
<1> HIDE DEF x, y, a
<1> DEFINE sv2 == functionTable(m, sv)
<1>7. /\ sv2 \in [Signals -> Signal]
      /\ Sig(sv2, c, 0) = x /\ Sig(sv2, c, 1) = y
      /\ Sig(sv2, c, 2) = Sig(sv, c, 2) /\ Sig(sv2, c, 3) = Sig(sv, c, 3)
      /\ \A s \in Signals : s # Start(c) /\ s # Start(c) + 1 => sv2[s] = sv[s]
  <2>1. sv2 = Put2(sv, Start(c), x, y)
    BY <1>2 DEF a, Put, Put2
  <2> HIDE DEF sv2
  <2> QED
    BY <1>1, <1>5, <2>1, TwoSet
<1> HIDE DEF sv2
<1>8. Ran(sv2, c)
  BY <1>1, <1>6, <1>7 DEF Ran
<1>9. \A o \in Offsets(c) \ In(Kind(c)) : Sig(sv2, c, o) # Unset
  <2>1. x # Unset /\ y # Unset
    BY <1>5, Constants
  <2>2. \A o \in Offsets(c) \ In(Kind(c)) : o = 0 \/ o = 1
    BY <1>1
  <2> QED
    BY <1>7, <2>1, <2>2
<1>10. ASSUME NEW s \in Signals, \A o \in Offsets(c) \ In(Kind(c)) : s # Start(c) + o
       PROVE  sv2[s] = sv[s]
  <2>1. s # Start(c) + 0 /\ s # Start(c) + 1 /\ Start(c) + 0 = Start(c)
    BY <1>1, <1>10, InSignals
  <2> QED
    BY <1>7, <2>1
<1> QED
  BY <1>7, <1>8, <1>9, <1>10 DEF RunsRight, sv2

(* One output, of a template with two inputs at 1 and 2.                   *)
LEMMA OneSet ==
  ASSUME NEW sv \in [Signals -> Signal], NEW c \in Components, NEW x \in Value,
         Offsets(c) = 0 .. 2, NEW sv2, sv2 = Put(sv, Start(c), x)
  PROVE  /\ sv2 \in [Signals -> Signal]
         /\ Sig(sv2, c, 0) = x
         /\ Sig(sv2, c, 1) = Sig(sv, c, 1) /\ Sig(sv2, c, 2) = Sig(sv, c, 2)
         /\ \A s \in Signals : s # Start(c) => sv2[s] = sv[s]
<1> DEFINE a == Start(c)
<1>1. a \in Nat /\ a \in Signals /\ a + 0 \in Signals /\ a + 1 \in Signals /\ a + 2 \in Signals
  BY InSignals
<1>2. sv2 = [sv EXCEPT ![a] = x]
  BY DEF Put
<1> HIDE DEF a
<1>3. x \in Signal
  BY DEF Signal
<1>4. a + 0 = a /\ a # a + 1 /\ a + 2 # a
  BY <1>1
<1>5. /\ sv2 \in [Signals -> Signal]
      /\ sv2[a] = x /\ sv2[a + 1] = sv[a + 1] /\ sv2[a + 2] = sv[a + 2]
      /\ \A s \in Signals : s # a => sv2[s] = sv[s]
  BY <1>2, <1>1, <1>3, <1>4
<1>6. sv2[a + 0] = x
  BY <1>4, <1>5
<1> QED
  BY <1>5, <1>6 DEF a, Sig

(* MixLast_run.                                                            *)
LEMMA MixLastRuns ==
  ASSUME NEW sv \in [Signals -> Signal], NEW m, NEW c \in Components, c = 19, IsRecord(m, c),
         \A i \in In(Kind(c)) : Sig(sv, c, i) # Unset
  PROVE  RunsRight(sv, functionTable(m, sv), c)
<1>1. Kind(c) = "MixLast" /\ Offsets(c) = 0 .. 2 /\ In(Kind(c)) = {1, 2}
  BY KindIs, Constants DEF Components, Offsets, In
<1> DEFINE a == Start(c)
           x == Add(Mul(M[<<0, 0>>], sv[a + 1]), Mul(M[<<1, 0>>], sv[a + 2]))
<1>2. functionTable(m, sv) = [sv EXCEPT ![a] = x]
  BY <1>1 DEF functionTable, MixLast_run, IsRecord
<1>3. sv[a + 1] \in Value /\ sv[a + 2] \in Value
  <2>1. a + 1 \in Signals /\ a + 2 \in Signals /\ sv[a + 1] # Unset /\ sv[a + 2] # Unset
    BY <1>1, InSignals DEF Sig
  <2> QED
    BY <2>1 DEF Signal
<1>4. M[<<0, 0>>] \in Value /\ M[<<1, 0>>] \in Value
  BY Constants DEF T
<1>5. x \in Value
  BY <1>3, <1>4, ArithmeticOnValues
<1>6. x = Add(Mul(M[<<0, 0>>], Sig(sv, c, 1)), Mul(M[<<1, 0>>], Sig(sv, c, 2)))
  BY DEF Sig
<1> HIDE DEF x, a
<1> DEFINE sv2 == functionTable(m, sv)
<1>7. /\ sv2 \in [Signals -> Signal]
      /\ Sig(sv2, c, 0) = x
      /\ Sig(sv2, c, 1) = Sig(sv, c, 1) /\ Sig(sv2, c, 2) = Sig(sv, c, 2)
      /\ \A s \in Signals : s # Start(c) => sv2[s] = sv[s]
  <2>1. sv2 = Put(sv, Start(c), x)
    BY <1>2 DEF a, Put, Put2
  <2> HIDE DEF sv2
  <2> QED
    BY <1>1, <1>5, <2>1, OneSet
<1> HIDE DEF sv2
<1>8. Ran(sv2, c)
  BY <1>1, <1>6, <1>7 DEF Ran
<1>9. \A o \in Offsets(c) \ In(Kind(c)) : Sig(sv2, c, o) # Unset
  <2>1. x # Unset
    BY <1>5, Constants
  <2>2. \A o \in Offsets(c) \ In(Kind(c)) : o = 0
    BY <1>1
  <2> QED
    BY <1>7, <2>1, <2>2
<1>10. ASSUME NEW s \in Signals, \A o \in Offsets(c) \ In(Kind(c)) : s # Start(c) + o
       PROVE  sv2[s] = sv[s]
  <2>1. s # Start(c) + 0 /\ Start(c) + 0 = Start(c)
    BY <1>1, <1>10, InSignals
  <2> QED
    BY <1>7, <2>1
<1> QED
  BY <1>7, <1>8, <1>9, <1>10 DEF RunsRight, sv2

(* IsEqual_run.                                                            *)
LEMMA IsEqualRuns ==
  ASSUME NEW sv \in [Signals -> Signal], NEW m, NEW c \in Components, c \in {1, 36 + 2 * RP},
         IsRecord(m, c), \A i \in In(Kind(c)) : Sig(sv, c, i) # Unset
  PROVE  RunsRight(sv, functionTable(m, sv), c)
<1>1. Kind(c) = "IsEqual" /\ Offsets(c) = 0 .. 2 /\ In(Kind(c)) = {1, 2}
  BY KindIs, Constants DEF Components, Offsets, In
<1> DEFINE a == Start(c)
           x == IsEqual(sv[a + 1], sv[a + 2])
<1>2. functionTable(m, sv) = [sv EXCEPT ![a] = x]
  BY <1>1 DEF functionTable, IsEqual_run, IsRecord, IsEqual
<1>3. sv[a + 1] \in Value /\ sv[a + 2] \in Value
  <2>1. a + 1 \in Signals /\ a + 2 \in Signals /\ sv[a + 1] # Unset /\ sv[a + 2] # Unset
    BY <1>1, InSignals DEF Sig
  <2> QED
    BY <2>1 DEF Signal
<1>4. x \in Value
  <2>1. Sub(sv[a + 1], sv[a + 2]) \in Value
    BY <1>3, ArithmeticOnValues
  <2>2. Mul(Sub(sv[a + 1], sv[a + 2]), Sub(sv[a + 1], sv[a + 2])) \in Value
    BY <2>1, ArithmeticOnValues
  <2> QED
    BY <2>2, ArithmeticOnValues, Constants DEF IsEqual
<1>5. x = IsEqual(Sig(sv, c, 1), Sig(sv, c, 2))
  BY DEF Sig
<1> HIDE DEF x, a
<1> DEFINE sv2 == functionTable(m, sv)
<1>6. /\ sv2 \in [Signals -> Signal]
      /\ Sig(sv2, c, 0) = x
      /\ Sig(sv2, c, 1) = Sig(sv, c, 1) /\ Sig(sv2, c, 2) = Sig(sv, c, 2)
      /\ \A s \in Signals : s # Start(c) => sv2[s] = sv[s]
  <2>1. sv2 = Put(sv, Start(c), x)
    BY <1>2 DEF a, Put, Put2
  <2> HIDE DEF sv2
  <2> QED
    BY <1>1, <1>4, <2>1, OneSet
<1> HIDE DEF sv2
<1>7. Ran(sv2, c)
  BY <1>1, <1>5, <1>6 DEF Ran
<1>8. \A o \in Offsets(c) \ In(Kind(c)) : Sig(sv2, c, o) # Unset
  <2>1. x # Unset
    BY <1>4, Constants
  <2>2. \A o \in Offsets(c) \ In(Kind(c)) : o = 0
    BY <1>1
  <2> QED
    BY <1>6, <2>1, <2>2
<1>9. ASSUME NEW s \in Signals, \A o \in Offsets(c) \ In(Kind(c)) : s # Start(c) + o
      PROVE  sv2[s] = sv[s]
  <2>1. s # Start(c) + 0 /\ Start(c) + 0 = Start(c)
    BY <1>1, <1>9, InSignals
  <2> QED
    BY <1>6, <2>1
<1> QED
  BY <1>6, <1>7, <1>8, <1>9 DEF RunsRight, sv2

(* Sigma_run.                                                              *)
LEMMA SigmaRuns ==
  ASSUME NEW sv \in [Signals -> Signal], NEW m, NEW c \in 20 + RP .. 35 + 2 * RP, IsRecord(m, c),
         \A i \in In(Kind(c)) : Sig(sv, c, i) # Unset
  PROVE  RunsRight(sv, functionTable(m, sv), c)
<1>1. c \in Components /\ Kind(c) = "Sigma" /\ Offsets(c) = 0 .. 3 /\ In(Kind(c)) = {1}
  BY KindIs, Constants DEF Components, Offsets, In
<1> DEFINE a   == Start(c)
           in  == sv[a + 1]
           in2 == Mul(in, in)
           in4 == Mul(in2, in2)
           x   == Mul(in4, in)
           sv2 == [sv EXCEPT ![a + 2] = in2, ![a + 3] = in4, ![a] = x]
<1>2. functionTable(m, sv) = sv2
  BY <1>1 DEF functionTable, Sigma_run, IsRecord
<1>3. /\ a \in Nat /\ a \in Signals /\ a + 1 \in Signals
      /\ a + 2 \in Signals /\ a + 3 \in Signals
  BY <1>1, InSignals
<1>4. in \in Value
  <2>1. sv[a + 1] # Unset
    BY <1>1 DEF Sig
  <2> QED
    BY <1>3, <2>1 DEF Signal
<1>5. in2 \in Value /\ in4 \in Value /\ x \in Value
  <2>1. in2 \in Value
    BY <1>4, ArithmeticOnValues
  <2> HIDE DEF in2
  <2>2. in4 \in Value
    BY <2>1, ArithmeticOnValues
  <2> HIDE DEF in4
  <2> QED
    BY <1>4, <2>1, <2>2, ArithmeticOnValues
<1> HIDE DEF a
<1>6. /\ sv2 \in [Signals -> Signal]
      /\ sv2[a + 0] = x /\ sv2[a + 1] = in /\ sv2[a + 2] = in2 /\ sv2[a + 3] = in4
      /\ \A s \in Signals : s # a + 0 /\ s # a + 2 /\ s # a + 3 => sv2[s] = sv[s]
  <2> HIDE DEF x, in2, in4
  <2>1. a + 0 = a /\ a # a + 1 /\ a # a + 2 /\ a # a + 3 /\ a + 1 # a + 2 /\ a + 1 # a + 3 /\ a + 2 # a + 3
    BY <1>3
  <2>2. x \in Signal /\ in2 \in Signal /\ in4 \in Signal
    BY <1>5 DEF Signal
  <2> QED
    BY <1>3, <2>1, <2>2
<1> HIDE DEF sv2
<1>7. /\ Sig(sv2, c, 0) = x /\ Sig(sv2, c, 1) = in /\ Sig(sv2, c, 2) = in2 /\ Sig(sv2, c, 3) = in4
  BY <1>6 DEF Sig, a
<1>8. Ran(sv2, c)
  BY <1>1, <1>7 DEF Ran
<1>9. \A o \in Offsets(c) \ In(Kind(c)) : Sig(sv2, c, o) # Unset
  <2>1. x # Unset /\ in2 # Unset /\ in4 # Unset
    BY <1>5, Constants
  <2>2. \A o \in Offsets(c) \ In(Kind(c)) : o = 0 \/ o = 2 \/ o = 3
    BY <1>1
  <2> HIDE DEF x, in2, in4
  <2> QED
    BY <1>7, <2>1, <2>2
<1>10. ASSUME NEW s \in Signals, \A o \in Offsets(c) \ In(Kind(c)) : s # Start(c) + o
       PROVE  sv2[s] = sv[s]
  <2>1. s # a + 0 /\ s # a + 2 /\ s # a + 3
    BY <1>1, <1>10 DEF a
  <2> QED
    BY <1>6, <2>1
<1>11. sv2 \in [Signals -> Signal]
  BY <1>6
<1> QED
  BY <1>2, <1>8, <1>9, <1>10, <1>11 DEF RunsRight

(* Whichever template it is, the entry of the table does what it should.   *)
LEMMA LeafRuns ==
  ASSUME NEW sv \in [Signals -> Signal], NEW m, NEW c, Simple(c), IsRecord(m, c),
         \A i \in In(Kind(c)) : Sig(sv, c, i) # Unset
  PROVE  RunsRight(sv, functionTable(m, sv), c)
<1>1. c \in Components /\ c \notin {0, 2, 3}
  BY KindIs DEF Simple, Composite
<1>2. c \in {1, 36 + 2 * RP} => RunsRight(sv, functionTable(m, sv), c)
  BY <1>1, IsEqualRuns
<1>3. c \in 4 .. 11 => RunsRight(sv, functionTable(m, sv), c)
  BY ArkRuns
<1>4. c \in 12 .. 18 => RunsRight(sv, functionTable(m, sv), c)
  BY MixRuns
<1>5. c = 19 => RunsRight(sv, functionTable(m, sv), c)
  BY <1>1, MixLastRuns
<1>6. c \in 20 .. 19 + RP => RunsRight(sv, functionTable(m, sv), c)
  BY MixSRuns
<1>7. c \in 20 + RP .. 35 + 2 * RP => RunsRight(sv, functionTable(m, sv), c)
  BY SigmaRuns
<1> QED
  BY <1>1, <1>2, <1>3, <1>4, <1>5, <1>6, <1>7, ComponentCases
-----------------------------------------------------------------------------
(* The schedule: when a component is fed, and from where                   *)

(* The clock at which each component runs, by its role.                    *)
LEMMA RunAtIs ==
  /\ RunAt(0) = 1 /\ RunAt(1) = Feeds + 11 /\ RunAt(2) = 3 /\ RunAt(3) = 6
  /\ RunAt(36 + 2 * RP) = Feeds + 13
  /\ RunAt(4) = 9 /\ RunAt(19) = RoundAt(7) + 4
  /\ \A r \in 0 .. 6 : RunAt(5 + r) = RoundAt(r) + 4 /\ RunAt(12 + r) = RoundAt(r) + 6
  /\ \A r \in 0 .. RP - 1 : RunAt(20 + r) = 36 + 3 * r /\ RunAt(36 + RP + r) = 34 + 3 * r
  /\ \A r \in 0 .. 7, j \in T : RunAt(20 + RP + 2 * r + j) = RoundAt(r) + j + 1
<1>1. /\ RunAt(0) = 1 /\ RunAt(1) = Feeds + 11 /\ RunAt(2) = 3 /\ RunAt(3) = 6
      /\ RunAt(36 + 2 * RP) = Feeds + 13 /\ RunAt(4) = 9 /\ RunAt(19) = RoundAt(7) + 4
  BY Constants DEF RunAt
<1>2. ASSUME NEW r \in 0 .. 6
      PROVE  RunAt(5 + r) = RoundAt(r) + 4 /\ RunAt(12 + r) = RoundAt(r) + 6
  <2>1. 5 + r \in 5 .. 11 /\ (5 + r) - 5 = r /\ 12 + r \in 12 .. 18 /\ (12 + r) - 12 = r
    OBVIOUS
  <2> QED
    BY <2>1, Constants DEF RunAt
<1>3. ASSUME NEW r \in 0 .. RP - 1
      PROVE  RunAt(20 + r) = 36 + 3 * r /\ RunAt(36 + RP + r) = 34 + 3 * r
  <2>1. 20 + r \in 20 .. 19 + RP /\ 36 + RP + r \in 36 + RP .. 35 + 2 * RP
    BY Constants
  <2> QED
    BY <2>1, Constants DEF RunAt
<1>4. ASSUME NEW r \in 0 .. 7, NEW j \in T
      PROVE  RunAt(20 + RP + 2 * r + j) = RoundAt(r) + j + 1
  <2> DEFINE c == 20 + RP + 2 * r + j
  <2>1. c \in 20 + RP .. 35 + RP /\ (c - 20 - RP) \div 2 = r /\ (c - 20 - RP) % 2 = j
    BY Constants DEF T
  <2> HIDE DEF c
  <2>2. RunAt(c) = RoundAt((c - 20 - RP) \div 2) + ((c - 20 - RP) % 2) + 1
    BY <2>1, Constants DEF RunAt
  <2>3. RoundAt(r) \in Int
    BY Constants DEF RoundAt
  <2>4. RunAt(c) = RoundAt(r) + j + 1
    BY <2>1, <2>2, <2>3 DEF T
  <2> QED
    BY <2>4 DEF c
<1> QED
  BY <1>1, <1>2, <1>3, <1>4

(* The index of a leaf in mySubcomponents, by its role.                    *)
LEMMA IndexIs ==
  /\ \A r \in 0 .. 7 : Index(4 + r) = ark(r)
  /\ \A r \in 0 .. 6 : Index(12 + r) = mix(r)
  /\ Index(19) = mixLast
  /\ \A r \in 0 .. RP - 1 : Index(20 + r) = mixS(r) /\ Index(36 + RP + r) = sigmaP(r)
  /\ \A r \in 0 .. 7, j \in T : Index(20 + RP + 2 * r + j) = sigmaF(r, j)
<1>1. ASSUME NEW r \in 0 .. 7 PROVE Index(4 + r) = ark(r)
  BY Constants DEF Index, ark
<1>2. ASSUME NEW r \in 0 .. 6 PROVE Index(12 + r) = mix(r)
  BY Constants DEF Index, mix
<1>3. Index(19) = mixLast
  BY Constants DEF Index
<1>4. ASSUME NEW r \in 0 .. RP - 1
      PROVE  Index(20 + r) = mixS(r) /\ Index(36 + RP + r) = sigmaP(r)
  BY Constants DEF Index, mixS, sigmaP
<1>5. ASSUME NEW r \in 0 .. 7, NEW j \in T PROVE Index(20 + RP + 2 * r + j) = sigmaF(r, j)
  <2> DEFINE c == 20 + RP + 2 * r + j
  <2>1. c \in 20 + RP .. 35 + RP /\ c - 12 - RP = 8 + 2 * r + j
    BY Constants DEF T
  <2> HIDE DEF c
  <2>2. Index(c) = c - 12 - RP
    BY <2>1, Constants DEF Index
  <2>3. Index(c) = sigmaF(r, j)
    BY <2>1, <2>2 DEF sigmaF
  <2> QED
    BY <2>3 DEF c
<1> QED
  BY <1>1, <1>2, <1>3, <1>4, <1>5

(* When the full rounds begin.                                             *)
LEMMA RoundAtIs ==
  /\ \A r \in 0 .. 3 : RoundAt(r) = 9 + 6 * r
  /\ \A r \in 4 .. 7 : RoundAt(r) = 9 + 3 * RP + 6 * r
  /\ \A r \in 0 .. 7 : RoundAt(r) \in Nat /\ RoundAt(r) >= 9
BY Constants DEF RoundAt

(* What a source is when it is read: a constant or a signal that is set.   *)
SourceSet(c, src, t) ==
  \/ src.sub = -2 /\ src.plus \in Value
  \/ /\ src.sub = -1 /\ src.off \in Offsets(c)
     /\ SetAt(c, src.off) <= t
  \/ /\ src.sub \in DOMAIN SubIds(c, End) /\ src.sub \notin {-1, -2}
     /\ LET d == SubIds(c, End)[src.sub]
        IN  /\ d \in Components /\ MadeAt(d) <= t
            /\ src.off \in Offsets(d) /\ SetAt(d, src.off) <= t
     /\ src.plus \in Value

(* A feed of component c sets an input of a component that exists, at the  *)
(* time of that input and from a source that is set, and its assert holds. *)
GoodFeed(c, n) ==
  LET f == Body(Kind(c))[n]
      d == SubIds(c, End)[f.sub]
      t == AfterFeed(c, n)
  IN  /\ f.sub \in DOMAIN SubIds(c, End)
      /\ d \in Components /\ d # 0 /\ MadeAt(d) < t /\ t <= ReleasedAt(d)
      /\ f.in \in In(Kind(d)) /\ FedAt(d, f.in) = t
      /\ SourceSet(c, f.src, t - 1)
      /\ f.asserts = "last" => t = RunAt(d)
      /\ f.asserts = "notLast" => t = RunAt(d) - 1

(* What mySubcomponents of PoseidonEx holds.                               *)
LEMMA ExSubIds ==
  /\ \A t \in Int : t >= 7 => SubIds(3, t) = [k \in 0 .. mixLast |-> Id(k)]
  /\ SubIds(3, End) = [k \in 0 .. mixLast |-> Id(k)]
  /\ \A e \in Leaves : Index(e) \in DOMAIN SubIds(3, End) /\ SubIds(3, End)[Index(e)] = e
<1>1. \A t \in Int : t >= 7 => SubIds(3, t) = [k \in 0 .. mixLast |-> Id(k)]
  BY DEF SubIds
<1>2. End \in Int /\ End >= 7
  BY Constants DEF End, Feeds
<1>3. SubIds(3, End) = [k \in 0 .. mixLast |-> Id(k)]
  BY <1>1, <1>2
<1>4. ASSUME NEW e \in Leaves
      PROVE  Index(e) \in DOMAIN SubIds(3, End) /\ SubIds(3, End)[Index(e)] = e
  BY <1>3, LeavesAreSubs
<1> QED
  BY <1>1, <1>3, <1>4

(* A leaf is made when PoseidonEx creates it, runs during its feeds and is *)
(* released when it returns.                                               *)
LEMMA LeafFacts ==
  ASSUME NEW e \in Leaves
  PROVE  /\ e \in Components /\ e # 0 /\ Simple(e) /\ RunAt(e) \in 9 .. Feeds + 7
         /\ MadeAt(e) = 7 /\ ReleasedAt(e) = Feeds + 8
         /\ \A o \in Offsets(e) \ In(Kind(e)) : SetAt(e, o) = RunAt(e)
         /\ \A i \in In(Kind(e)) : FedAt(e, i) \in 8 .. Feeds + 7
<1> USE Constants
<1>1. e \in 4 .. 35 + 2 * RP /\ e \in Components
  BY DEF Leaves, Components
<1>2. Simple(e) /\ MadeAt(e) = 7 /\ ReleasedAt(e) = Feeds + 8
  <2>1. MadeAt(e) = 7
    BY <1>1 DEF MadeAt
  <2>2. ReleasedAt(e) = Feeds + 8
    BY <1>1 DEF ReleasedAt
  <2>3. Kind(e) \notin Composite
    BY <1>1, KindIs DEF Composite, Components
  <2> QED
    BY <1>1, <2>1, <2>2, <2>3 DEF Simple
<1>3. RunAt(e) \in 9 .. Feeds + 7
  <2>1. CASE e = 4 \/ e = 19
    BY <2>1, RunAtIs, RoundAtIs DEF Feeds
  <2>2. CASE e \in 5 .. 11
    <3>1. e - 5 \in 0 .. 6 /\ 5 + (e - 5) = e
      BY <2>2
    <3> QED
      BY <3>1, RunAtIs, RoundAtIs DEF Feeds
  <2>3. CASE e \in 12 .. 18
    <3>1. e - 12 \in 0 .. 6 /\ 12 + (e - 12) = e
      BY <2>3
    <3> QED
      BY <3>1, RunAtIs, RoundAtIs DEF Feeds
  <2>4. CASE e \in 20 .. 19 + RP
    <3>1. e - 20 \in 0 .. RP - 1 /\ 20 + (e - 20) = e
      BY <2>4
    <3> QED
      BY <3>1, RunAtIs DEF Feeds
  <2>5. CASE e \in 20 + RP .. 35 + RP
    <3> DEFINE r == (e - 20 - RP) \div 2
               j == (e - 20 - RP) % 2
    <3>1. r \in 0 .. 7 /\ j \in T /\ 20 + RP + 2 * r + j = e
      BY <2>5 DEF T
    <3> HIDE DEF r, j
    <3>2. RunAt(e) = RoundAt(r) + j + 1
      BY <3>1, RunAtIs
    <3> QED
      BY <3>1, <3>2, RoundAtIs DEF Feeds, T
  <2>6. CASE e \in 36 + RP .. 35 + 2 * RP
    <3>1. e - 36 - RP \in 0 .. RP - 1 /\ 36 + RP + (e - 36 - RP) = e
      BY <2>6
    <3> QED
      BY <3>1, RunAtIs DEF Feeds
  <2> QED
    BY <1>1, <2>1, <2>2, <2>3, <2>4, <2>5, <2>6
<1>4. \A o \in Offsets(e) \ In(Kind(e)) : SetAt(e, o) = RunAt(e)
  BY <1>1 DEF SetAt
<1>5. \A i \in In(Kind(e)) : FedAt(e, i) \in 8 .. Feeds + 7
  BY <1>3 DEF FedAt, Feeds
<1> QED
  BY <1>1, <1>2, <1>3, <1>4, <1>5

(* A signal that a leaf has set before is a source for PoseidonEx.         *)
LEMMA LeafSource ==
  ASSUME NEW e \in Leaves, NEW o \in Offsets(e), o \notin In(Kind(e)), NEW x \in Value,
         NEW t \in Int, RunAt(e) <= t
  PROVE  SourceSet(3, OutPlus(Index(e), o, x), t)
<1>1. /\ Index(e) \in DOMAIN SubIds(3, End) /\ Index(e) \in 0 .. mixLast /\ Index(e) \notin {-1, -2}
      /\ SubIds(3, End)[Index(e)] = e
  <2>1. Index(e) \in 0 .. mixLast
    BY LeavesAreSubs
  <2> QED
    BY <2>1, ExSubIds DEF mixLast
<1>2. SetAt(e, o) <= t /\ MadeAt(e) <= t /\ e \in Components
  <2>1. SetAt(e, o) = RunAt(e) /\ MadeAt(e) = 7 /\ RunAt(e) \in 9 .. Feeds + 7 /\ e \in Components
    BY LeafFacts
  <2> QED
    BY <2>1, Constants DEF Feeds
<1> DEFINE src == OutPlus(Index(e), o, x)
<1>3. src.sub = Index(e) /\ src.off = o /\ src.plus = x
  BY DEF OutPlus
<1> HIDE DEF src
<1>4. SourceSet(3, src, t)
  BY <1>1, <1>2, <1>3 DEF SourceSet
<1> QED
  BY <1>4 DEF src

(* A wire without a constant adds zero.                                    *)
LEMMA OutIsOutPlus == \A k, o : Out(k, o) = OutPlus(k, o, 0)
BY DEF Out, OutPlus

(* The feeds of PoseidonEx that belong to a full round.                    *)
LEMMA ExFeedIs ==
  /\ \A r \in 0 .. 6, i \in 1 .. 6 : PoseidonExBody[RoundAt(r) - 7 + i] = FullRound(r)[i]
  /\ \A i \in 1 .. 4 : PoseidonExBody[RoundAt(7) - 7 + i] = LastRound[i]
<1>1. ASSUME NEW r \in 0 .. 6, NEW i \in 1 .. 6
      PROVE  PoseidonExBody[RoundAt(r) - 7 + i] = FullRound(r)[i]
  <2>1. CASE r \in 0 .. 3
    <3>1. RoundAt(r) - 7 + i = 2 + 6 * r + i
      BY <2>1, RoundAtIs
    <3> QED
      BY <2>1, <3>1, BodyIs, Zenon
  <2>2. CASE r \in 4 .. 6
    <3>1. RoundAt(r) - 7 + i = 2 + 3 * RP + 6 * r + i
      BY <2>2, RoundAtIs, Constants
    <3> QED
      BY <2>2, <3>1, BodyIs, Zenon
  <2> QED
    BY <2>1, <2>2
<1>2. ASSUME NEW i \in 1 .. 4 PROVE PoseidonExBody[RoundAt(7) - 7 + i] = LastRound[i]
  <2>1. RoundAt(7) - 7 + i = 44 + 3 * RP + i
    BY RoundAtIs, Constants
  <2> QED
    BY <2>1, BodyIs
<1> QED
  BY <1>1, <1>2

(* The feed of an input of a leaf.                                         *)
FedFrom(e, i, src) ==
  /\ PoseidonExBody[FedAt(e, i) - 7] = Feed(Index(e), i, src)
  /\ SourceSet(3, src, FedAt(e, i) - 1)

(* The inputs of an Ark are fed from PoseidonEx or from the Sigma of its   *)
(* round.                                                                  *)
LEMMA ArkFed ==
  ASSUME NEW r \in 0 .. 6, NEW j \in T
  PROVE  /\ FedFrom(4, 2 + j, Own(2 - j))
         /\ FedFrom(5 + r, 2 + j, Out(sigmaF(r, j), 0))
<1>1. Kind(4) = "Ark" /\ Kind(5 + r) = "Ark"
  BY KindIs
<1>2. FedFrom(4, 2 + j, Own(2 - j))
  <2>1. FedAt(4, 2 + j) = 8 + j
    BY <1>1, RunAtIs DEF FedAt, LastIn, T
  <2>2. Index(4) = ark(0)
    BY IndexIs DEF ark
  <2>3. PoseidonExBody[1 + j] = Feed(ark(0), 2 + j, Own(2 - j))
    BY BodyIs
  <2>4. SourceSet(3, Own(2 - j), 7 + j)
    <3>1. 2 - j \in Offsets(3) /\ 2 - j \in In(Kind(3))
      BY KindIs DEF Offsets, In, T
    <3>2. \A i \in In(Kind(3)) : SetAt(3, i) = FedAt(3, i)
      BY KindIs DEF SetAt, In
    <3>3. FedAt(3, 2 - j) \in {5, 6}
      BY RunAtIs DEF FedAt
    <3>4. SetAt(3, 2 - j) <= 7 + j
      BY <3>1, <3>2, <3>3 DEF T
    <3> QED
      BY <3>1, <3>4 DEF SourceSet, Own
  <2>5. (8 + j) - 7 = 1 + j /\ (8 + j) - 1 = 7 + j
    BY DEF T
  <2> QED
    BY <2>1, <2>2, <2>3, <2>4, <2>5 DEF FedFrom
<1>3. FedFrom(5 + r, 2 + j, Out(sigmaF(r, j), 0))
  <2> DEFINE s == 20 + RP + 2 * r + j
  <2>1. FedAt(5 + r, 2 + j) = RoundAt(r) + 3 + j /\ RoundAt(r) \in Int
    BY <1>1, RunAtIs, RoundAtIs DEF FedAt, LastIn, T
  <2>2. Index(5 + r) = ark(r + 1)
    <3>1. r + 1 \in 0 .. 7 /\ 4 + (r + 1) = 5 + r
      OBVIOUS
    <3> QED
      BY <3>1, IndexIs
  <2>3. PoseidonExBody[RoundAt(r) - 7 + (3 + j)] = Feed(ark(r + 1), 2 + j, Out(sigmaF(r, j), 0))
    <3>1. 3 + j \in 1 .. 6
      BY DEF T
    <3>2. PoseidonExBody[RoundAt(r) - 7 + (3 + j)] = FullRound(r)[3 + j]
      BY <3>1, ExFeedIs
    <3> QED
      BY <3>2, FullRoundIs
  <2>4. SourceSet(3, Out(sigmaF(r, j), 0), RoundAt(r) + 2 + j)
    <3>1. s \in Leaves /\ s \in 20 + RP .. 35 + 2 * RP /\ Index(s) = sigmaF(r, j) /\ RunAt(s) = RoundAt(r) + j + 1
      BY IndexIs, RunAtIs, Constants DEF Leaves, T
    <3> HIDE DEF s
    <3>2. 0 \in Offsets(s) /\ 0 \notin In(Kind(s))
      BY <3>1, KindIs DEF Offsets, In
    <3>3. RunAt(s) <= RoundAt(r) + 2 + j /\ RoundAt(r) + 2 + j \in Int
      BY <2>1, <3>1 DEF T
    <3> QED
      BY <3>1, <3>2, <3>3, LeafSource, OutIsOutPlus, Constants
  <2>5. /\ (RoundAt(r) + 3 + j) - 7 = RoundAt(r) - 7 + (3 + j)
        /\ (RoundAt(r) + 3 + j) - 1 = RoundAt(r) + 2 + j
    BY <2>1 DEF T
  <2> QED
    BY <2>1, <2>2, <2>3, <2>4, <2>5 DEF FedFrom
<1> QED
  BY <1>2, <1>3

(* The inputs of a Mix are fed from the Ark of its round.                  *)
LEMMA MixFed ==
  ASSUME NEW r \in 0 .. 6, NEW j \in T
  PROVE  FedFrom(12 + r, 2 + j, Out(ark(r + 1), j))
<1> DEFINE s == 5 + r
<1>1. Kind(12 + r) = "Mix"
  BY KindIs
<1>2. FedAt(12 + r, 2 + j) = RoundAt(r) + 5 + j /\ RoundAt(r) \in Int
  BY <1>1, RunAtIs, RoundAtIs DEF FedAt, LastIn, T
<1>3. Index(12 + r) = mix(r)
  BY IndexIs
<1>4. PoseidonExBody[RoundAt(r) - 7 + (5 + j)] = Feed(mix(r), 2 + j, Out(ark(r + 1), j))
  <2>1. 5 + j \in 1 .. 6
    BY DEF T
  <2>2. PoseidonExBody[RoundAt(r) - 7 + (5 + j)] = FullRound(r)[5 + j]
    BY <2>1, ExFeedIs
  <2> QED
    BY <2>2, FullRoundIs
<1>5. SourceSet(3, Out(ark(r + 1), j), RoundAt(r) + 4 + j)
  <2>1. Index(s) = ark(r + 1)
    <3>1. r + 1 \in 0 .. 7 /\ 4 + (r + 1) = 5 + r
      OBVIOUS
    <3> QED
      BY <3>1, IndexIs
  <2>2. s \in Leaves /\ s \in 4 .. 11 /\ RunAt(s) = RoundAt(r) + 4
    BY RunAtIs, Constants DEF Leaves
  <2> HIDE DEF s
  <2>3. j \in Offsets(s) /\ j \notin In(Kind(s))
    BY <2>2, KindIs DEF Offsets, In, T
  <2>4. RunAt(s) <= RoundAt(r) + 4 + j /\ RoundAt(r) + 4 + j \in Int
    BY <1>2, <2>2 DEF T
  <2> QED
    BY <2>1, <2>2, <2>3, <2>4, LeafSource, OutIsOutPlus, Constants
<1>6. /\ (RoundAt(r) + 5 + j) - 7 = RoundAt(r) - 7 + (5 + j)
      /\ (RoundAt(r) + 5 + j) - 1 = RoundAt(r) + 4 + j
  BY <1>2 DEF T
<1> QED
  BY <1>2, <1>3, <1>4, <1>5, <1>6 DEF FedFrom

(* What a round begins with.                                               *)
LEMMA BeforeSet ==
  ASSUME NEW r \in 0 .. 6, NEW j \in T
  PROVE  SourceSet(3, Before(r, j), RoundAt(r) + j)
<1>1. RoundAt(r) \in Int /\ RoundAt(r) + j \in Int
  BY RoundAtIs DEF T
<1>2. ASSUME NEW s \in Leaves, Kind(s) \in {"Ark", "Mix", "MixS"}, RunAt(s) = RoundAt(r)
      PROVE  SourceSet(3, Out(Index(s), j), RoundAt(r) + j)
  <2>1. j \in Offsets(s) /\ j \notin In(Kind(s))
    BY <1>2 DEF Offsets, In, T
  <2>2. RunAt(s) <= RoundAt(r) + j
    BY <1>1, <1>2 DEF T
  <2> QED
    BY <1>1, <2>1, <2>2, LeafSource, OutIsOutPlus, Constants
<1>3. CASE r = 0
  <2>1. 4 \in Leaves /\ Kind(4) = "Ark" /\ RunAt(4) = RoundAt(r)
    BY <1>3, KindIs, RunAtIs, RoundAtIs, Constants DEF Leaves
  <2>2. Index(4) = ark(0)
    BY IndexIs DEF ark
  <2> QED
    BY <1>2, <1>3, <2>1, <2>2 DEF Before
<1>4. CASE r = 4
  <2> DEFINE s == 20 + (RP - 1)
  <2>1. RP - 1 \in 0 .. RP - 1
    BY Constants
  <2>2. s \in Leaves /\ s \in 20 .. 19 + RP
    BY Constants DEF Leaves
  <2>3. Kind(s) = "MixS"
    BY <2>2, KindIs
  <2>4. RunAt(s) = 36 + 3 * (RP - 1) /\ Index(s) = mixS(RP - 1)
    BY <2>1, RunAtIs, IndexIs
  <2>5. RunAt(s) = RoundAt(r)
    BY <1>4, <2>4, RoundAtIs, Constants
  <2> HIDE DEF s
  <2>6. Before(r, j) = Out(Index(s), j)
    BY <1>4, <2>4 DEF Before
  <2> QED
    BY <1>2, <2>2, <2>3, <2>5, <2>6
<1>5. CASE r \notin {0, 4}
  <2> DEFINE s == 12 + (r - 1)
  <2>1. r - 1 \in 0 .. 6 /\ s \in 12 .. 18 /\ s \in Leaves
    BY <1>5, Constants DEF Leaves
  <2>2. Kind(s) = "Mix" /\ RunAt(s) = RoundAt(r - 1) + 6 /\ Index(s) = mix(r - 1)
    BY <2>1, KindIs, RunAtIs, IndexIs
  <2>3. RoundAt(r - 1) + 6 = RoundAt(r)
    BY <1>5, Constants DEF RoundAt
  <2> HIDE DEF s
  <2>4. Before(r, j) = Out(Index(s), j)
    BY <1>5, <2>2 DEF Before
  <2> QED
    BY <1>2, <2>1, <2>2, <2>3, <2>4
<1> QED
  BY <1>3, <1>4, <1>5

(* The input of a Sigma is fed from the round before.                      *)
LEMMA SigmaFed ==
  ASSUME NEW j \in T
  PROVE  /\ \A r \in 0 .. 6 : FedFrom(20 + RP + 2 * r + j, 1, Before(r, j))
         /\ FedFrom(20 + RP + 14 + j, 1, Out(mix(6), j))
<1>1. ASSUME NEW r \in 0 .. 7
      PROVE  /\ FedAt(20 + RP + 2 * r + j, 1) - 7 = RoundAt(r) - 7 + (1 + j)
             /\ FedAt(20 + RP + 2 * r + j, 1) - 1 = RoundAt(r) + j
             /\ Index(20 + RP + 2 * r + j) = sigmaF(r, j)
  <2> DEFINE c == 20 + RP + 2 * r + j
  <2>1. c \in 20 + RP .. 35 + 2 * RP
    BY Constants DEF T
  <2>2. RunAt(c) = RoundAt(r) + j + 1 /\ Index(c) = sigmaF(r, j)
    BY RunAtIs, IndexIs
  <2> HIDE DEF c
  <2>3. FedAt(c, 1) = RoundAt(r) + j + 1
    BY <2>1, <2>2, KindIs DEF FedAt, LastIn
  <2>4. RoundAt(r) \in Int
    BY RoundAtIs
  <2>5. FedAt(c, 1) - 7 = RoundAt(r) - 7 + (1 + j) /\ FedAt(c, 1) - 1 = RoundAt(r) + j
    BY <2>3, <2>4 DEF T
  <2> QED
    BY <2>2, <2>5 DEF c
<1>2. ASSUME NEW r \in 0 .. 6 PROVE FedFrom(20 + RP + 2 * r + j, 1, Before(r, j))
  <2>1. PoseidonExBody[RoundAt(r) - 7 + (1 + j)] = Feed(sigmaF(r, j), 1, Before(r, j))
    BY ExFeedIs, FullRoundIs DEF T
  <2>2. SourceSet(3, Before(r, j), RoundAt(r) + j)
    BY BeforeSet
  <2> DEFINE c == 20 + RP + 2 * r + j
  <2>3. /\ FedAt(c, 1) - 7 = RoundAt(r) - 7 + (1 + j) /\ FedAt(c, 1) - 1 = RoundAt(r) + j
        /\ Index(c) = sigmaF(r, j)
    BY <1>1
  <2> HIDE DEF c
  <2>4. FedFrom(c, 1, Before(r, j))
    BY <2>1, <2>2, <2>3 DEF FedFrom
  <2> QED
    BY <2>4 DEF c
<1>3. FedFrom(20 + RP + 14 + j, 1, Out(mix(6), j))
  <2>1. PoseidonExBody[RoundAt(7) - 7 + (1 + j)] = Feed(sigmaF(7, j), 1, Out(mix(6), j))
    BY ExFeedIs, LastRoundIs DEF T
  <2>2. SourceSet(3, Out(mix(6), j), RoundAt(7) + j)
    <3>1. 18 \in Leaves /\ Kind(18) = "Mix"
      BY KindIs, Constants DEF Leaves
    <3>2. RunAt(18) = RoundAt(6) + 6 /\ Index(18) = mix(6)
      <4>1. 6 \in 0 .. 6 /\ 12 + 6 = 18
        OBVIOUS
      <4> QED
        BY <4>1, RunAtIs, IndexIs
    <3>3. RunAt(18) = RoundAt(7) /\ RoundAt(7) \in Int
      BY <3>2, RoundAtIs, Constants
    <3>4. RunAt(18) <= RoundAt(7) + j /\ RoundAt(7) + j \in Int
      BY <3>3 DEF T
    <3>5. j \in Offsets(18) /\ j \notin In(Kind(18))
      BY <3>1 DEF Offsets, In, T
    <3> QED
      BY <3>1, <3>2, <3>4, <3>5, LeafSource, OutIsOutPlus, Constants
  <2> DEFINE c == 20 + RP + 2 * 7 + j
  <2>3. 7 \in 0 .. 7 /\ c = 20 + RP + 14 + j
    BY Constants DEF T
  <2>4. /\ FedAt(c, 1) - 7 = RoundAt(7) - 7 + (1 + j) /\ FedAt(c, 1) - 1 = RoundAt(7) + j
        /\ Index(c) = sigmaF(7, j)
    BY <1>1, <2>3
  <2> HIDE DEF c
  <2>5. FedFrom(c, 1, Out(mix(6), j))
    BY <2>1, <2>2, <2>4 DEF FedFrom
  <2> QED
    BY <2>3, <2>5
<1> QED
  BY <1>2, <1>3

(* The feeds of a partial round: its Sigma, then the two inputs of its     *)
(* MixS.                                                                   *)
LEMMA PartialFed ==
  ASSUME NEW r \in 0 .. RP - 1
  PROVE  LET before(j) == IF r = 0 THEN Out(mix(3), j) ELSE Out(mixS(r - 1), j)
         IN  /\ FedFrom(36 + RP + r, 1, before(0))
             /\ FedFrom(20 + r, 2, OutPlus(sigmaP(r), 0, C[10 + r]))
             /\ FedFrom(20 + r, 3, before(1))
<1> DEFINE before(j) == IF r = 0 THEN Out(mix(3), j) ELSE Out(mixS(r - 1), j)
           c == 36 + RP + r
           d == 20 + r
<1>1. c \in 20 + RP .. 35 + 2 * RP /\ c \in Leaves /\ Kind(c) = "Sigma"
  BY KindIs, Constants DEF Leaves
<1>2. d \in 20 .. 19 + RP /\ d \in Leaves /\ Kind(d) = "MixS"
  BY KindIs, Constants DEF Leaves
<1>3. RunAt(c) = 34 + 3 * r /\ RunAt(d) = 36 + 3 * r /\ Index(c) = sigmaP(r) /\ Index(d) = mixS(r)
  BY RunAtIs, IndexIs
<1>4. ASSUME NEW j \in T, NEW t \in Int, 33 + 3 * r <= t
      PROVE  SourceSet(3, before(j), t)
  <2>1. CASE r = 0
    <3>1. 3 \in 0 .. 6 /\ 12 + 3 = 15
      OBVIOUS
    <3>2. 15 \in Leaves /\ Kind(15) = "Mix" /\ RunAt(15) = RoundAt(3) + 6 /\ Index(15) = mix(3)
      BY <3>1, KindIs, RunAtIs, IndexIs, Constants DEF Leaves
    <3>3. RunAt(15) <= t
      BY <1>4, <2>1, <3>2, RoundAtIs
    <3>4. j \in Offsets(15) /\ j \notin In(Kind(15))
      BY <3>2 DEF Offsets, In, T
    <3>5. SourceSet(3, Out(mix(3), j), t)
      BY <3>2, <3>3, <3>4, LeafSource, OutIsOutPlus, Constants
    <3> QED
      BY <2>1, <3>5
  <2>2. CASE r # 0
    <3> DEFINE s == 20 + (r - 1)
    <3>1. r - 1 \in 0 .. RP - 1 /\ s \in 20 .. 19 + RP /\ s \in Leaves
      BY <2>2, Constants DEF Leaves
    <3>2. Kind(s) = "MixS" /\ RunAt(s) = 36 + 3 * (r - 1) /\ Index(s) = mixS(r - 1)
      BY <3>1, KindIs, RunAtIs, IndexIs
    <3>3. RunAt(s) <= t
      BY <1>4, <3>2, Constants
    <3> HIDE DEF s
    <3>4. j \in Offsets(s) /\ j \notin In(Kind(s))
      BY <3>2 DEF Offsets, In, T
    <3>5. SourceSet(3, Out(mixS(r - 1), j), t)
      BY <3>1, <3>2, <3>3, <3>4, LeafSource, OutIsOutPlus, Constants
    <3> QED
      BY <2>2, <3>5
  <2> QED
    BY <2>1, <2>2
<1>5. SourceSet(3, OutPlus(sigmaP(r), 0, C[10 + r]), 34 + 3 * r)
  <2>1. 0 \in Offsets(c) /\ 0 \notin In(Kind(c))
    BY <1>1 DEF Offsets, In
  <2>2. C[10 + r] \in Value
    <3>1. 10 + r \in 0 .. 15 + RP
      BY Constants
    <3> QED
      BY <3>1, Constants
  <2>3. RunAt(c) <= 34 + 3 * r /\ 34 + 3 * r \in Int
    BY <1>3
  <2> HIDE DEF c
  <2> QED
    BY <1>1, <1>3, <2>1, <2>2, <2>3, LeafSource
<1>6. /\ FedAt(c, 1) = 34 + 3 * r /\ FedAt(d, 2) = 35 + 3 * r /\ FedAt(d, 3) = 36 + 3 * r
  BY <1>1, <1>2, <1>3 DEF FedAt, LastIn
<1>7. /\ PoseidonExBody[26 + 3 * r + 1] = PartialRound(r)[1]
      /\ PoseidonExBody[26 + 3 * r + 2] = PartialRound(r)[2]
      /\ PoseidonExBody[26 + 3 * r + 3] = PartialRound(r)[3]
  BY BodyIs
<1>8. /\ PartialRound(r)[1] = Feed(sigmaP(r), 1, before(0))
      /\ PartialRound(r)[2] = Feed(mixS(r), 2, OutPlus(sigmaP(r), 0, C[10 + r]))
      /\ PartialRound(r)[3] = Feed(mixS(r), 3, before(1))
  BY PartialRoundIs
<1>9. /\ SourceSet(3, before(0), 33 + 3 * r) /\ SourceSet(3, before(1), 35 + 3 * r)
  <2>1. 0 \in T /\ 1 \in T /\ 33 + 3 * r \in Int /\ 35 + 3 * r \in Int
        /\ 33 + 3 * r <= 33 + 3 * r /\ 33 + 3 * r <= 35 + 3 * r
    BY DEF T
  <2> HIDE DEF before
  <2> QED
    BY <1>4, <2>1
<1>10. /\ (34 + 3 * r) - 7 = 26 + 3 * r + 1 /\ (34 + 3 * r) - 1 = 33 + 3 * r
       /\ (35 + 3 * r) - 7 = 26 + 3 * r + 2 /\ (35 + 3 * r) - 1 = 34 + 3 * r
       /\ (36 + 3 * r) - 7 = 26 + 3 * r + 3 /\ (36 + 3 * r) - 1 = 35 + 3 * r
  OBVIOUS
<1> HIDE DEF before, c, d
<1>11. FedFrom(c, 1, before(0))
  BY <1>3, <1>6, <1>7, <1>8, <1>9, <1>10 DEF FedFrom
<1>12. FedFrom(d, 2, OutPlus(sigmaP(r), 0, C[10 + r]))
  BY <1>3, <1>5, <1>6, <1>7, <1>8, <1>10 DEF FedFrom
<1>13. FedFrom(d, 3, before(1))
  BY <1>3, <1>6, <1>7, <1>8, <1>9, <1>10 DEF FedFrom
<1> QED
  BY <1>11, <1>12, <1>13 DEF before, c, d

(* The inputs of MixLast are fed from the last two Sigma.                  *)
LEMMA MixLastFed ==
  ASSUME NEW j \in T
  PROVE  FedFrom(19, 1 + j, Out(sigmaF(7, j), 0))
<1> DEFINE s == 20 + RP + 2 * 7 + j
<1>1. FedAt(19, 1 + j) = RoundAt(7) + 3 + j /\ RoundAt(7) \in Int
  BY KindIs, RunAtIs, RoundAtIs DEF FedAt, LastIn, T
<1>2. Index(19) = mixLast
  BY IndexIs
<1>3. PoseidonExBody[RoundAt(7) - 7 + (3 + j)] = Feed(mixLast, 1 + j, Out(sigmaF(7, j), 0))
  BY ExFeedIs, LastRoundIs DEF T
<1>4. SourceSet(3, Out(sigmaF(7, j), 0), RoundAt(7) + 2 + j)
  <2>1. 7 \in 0 .. 7
    OBVIOUS
  <2>2. Index(s) = sigmaF(7, j) /\ RunAt(s) = RoundAt(7) + j + 1
    BY <2>1, IndexIs, RunAtIs
  <2>3. s \in Leaves /\ s \in 20 + RP .. 35 + 2 * RP
    BY Constants DEF Leaves, T
  <2> HIDE DEF s
  <2>4. 0 \in Offsets(s) /\ 0 \notin In(Kind(s))
    BY <2>3, KindIs DEF Offsets, In
  <2>5. RunAt(s) <= RoundAt(7) + 2 + j /\ RoundAt(7) + 2 + j \in Int
    BY <1>1, <2>2 DEF T
  <2> QED
    BY <2>2, <2>3, <2>4, <2>5, LeafSource, OutIsOutPlus, Constants
<1>5. /\ (RoundAt(7) + 3 + j) - 7 = RoundAt(7) - 7 + (3 + j)
      /\ (RoundAt(7) + 3 + j) - 1 = RoundAt(7) + 2 + j
  BY <1>1 DEF T
<1> QED
  BY <1>1, <1>2, <1>3, <1>4, <1>5 DEF FedFrom

IsFed(e, i) == \E src : FedFrom(e, i, src)

(* Every input of a leaf is fed, from a source that is set by then.        *)
LEMMA LeafFed ==
  ASSUME NEW e \in Leaves, NEW i \in In(Kind(e))
  PROVE  IsFed(e, i)
<1> USE Constants
<1>1. e \in 4 .. 35 + 2 * RP
  BY DEF Leaves
<1>2. CASE e \in 4 .. 18 \/ e \in 20 .. 19 + RP
  <2>1. i - 2 \in T /\ 2 + (i - 2) = i
    BY <1>2, KindIs DEF In, T
  <2>2. CASE e = 4
    <3>1. 0 \in 0 .. 6
      OBVIOUS
    <3>2. FedFrom(4, 2 + (i - 2), Own(2 - (i - 2)))
      BY <2>1, <3>1, ArkFed
    <3> QED
      BY <2>1, <2>2, <3>2 DEF IsFed
  <2>3. CASE e \in 5 .. 11
    <3>1. e - 5 \in 0 .. 6 /\ 5 + (e - 5) = e
      BY <2>3
    <3>2. FedFrom(5 + (e - 5), 2 + (i - 2), Out(sigmaF(e - 5, i - 2), 0))
      BY <2>1, <3>1, ArkFed
    <3> QED
      BY <2>1, <3>1, <3>2 DEF IsFed
  <2>4. CASE e \in 12 .. 18
    <3>1. e - 12 \in 0 .. 6 /\ 12 + (e - 12) = e
      BY <2>4
    <3>2. FedFrom(12 + (e - 12), 2 + (i - 2), Out(ark((e - 12) + 1), i - 2))
      BY <2>1, <3>1, MixFed
    <3> QED
      BY <2>1, <3>1, <3>2 DEF IsFed
  <2>5. CASE e \in 20 .. 19 + RP
    <3>1. e - 20 \in 0 .. RP - 1 /\ 20 + (e - 20) = e /\ (i = 2 \/ i = 3)
      BY <2>1, <2>5 DEF T
    <3>2. IsFed(20 + (e - 20), 2) /\ IsFed(20 + (e - 20), 3)
      BY <3>1, PartialFed DEF IsFed
    <3> QED
      BY <3>1, <3>2
  <2> QED
    BY <1>2, <2>2, <2>3, <2>4, <2>5
<1>3. CASE e = 19
  <2>1. i - 1 \in T /\ 1 + (i - 1) = i
    BY <1>3, KindIs DEF In, T
  <2>2. FedFrom(19, 1 + (i - 1), Out(sigmaF(7, i - 1), 0))
    BY <2>1, MixLastFed
  <2> QED
    BY <1>3, <2>1, <2>2 DEF IsFed
<1>4. CASE e \in 20 + RP .. 35 + RP
  <2> DEFINE r == (e - 20 - RP) \div 2
             j == (e - 20 - RP) % 2
  <2>1. r \in 0 .. 7 /\ j \in T /\ 20 + RP + 2 * r + j = e
    BY <1>4 DEF T
  <2>2. i = 1
    <3>1. e \in 20 + RP .. 35 + 2 * RP
      BY <1>4
    <3> QED
      BY <3>1, KindIs DEF In
  <2> HIDE DEF r, j
  <2>3. CASE r = 7
    <3>1. 20 + RP + 14 + j = e
      BY <2>1, <2>3 DEF T
    <3>2. FedFrom(20 + RP + 14 + j, 1, Out(mix(6), j))
      BY <2>1, SigmaFed
    <3> QED
      BY <2>2, <3>1, <3>2 DEF IsFed
  <2>4. CASE r # 7
    <3>1. r \in 0 .. 6
      BY <2>1, <2>4
    <3>2. FedFrom(20 + RP + 2 * r + j, 1, Before(r, j))
      BY <2>1, <3>1, SigmaFed
    <3> QED
      BY <2>1, <2>2, <3>2 DEF IsFed
  <2> QED
    BY <2>3, <2>4
<1>5. CASE e \in 36 + RP .. 35 + 2 * RP
  <2>1. e - 36 - RP \in 0 .. RP - 1 /\ 36 + RP + (e - 36 - RP) = e
    BY <1>5
  <2>2. i = 1
    <3>1. e \in 20 + RP .. 35 + 2 * RP
      BY <1>5
    <3> QED
      BY <3>1, KindIs DEF In
  <2>3. IsFed(36 + RP + (e - 36 - RP), 1)
    BY <2>1, PartialFed DEF IsFed
  <2> QED
    BY <2>1, <2>2, <2>3
<1> QED
  BY <1>1, <1>2, <1>3, <1>4, <1>5

(* Every feed of PoseidonEx is one of these.                               *)
IsFeedOf(n, e, i) == e \in Leaves /\ i \in In(Kind(e)) /\ FedAt(e, i) = n + 7

(* Every feed of PoseidonEx is that of an input of a leaf.                 *)
LEMMA EveryFeed ==
  ASSUME NEW n \in 1 .. Feeds
  PROVE  \E e, i : IsFeedOf(n, e, i)
<1> USE Constants
<1>1. n \in Int /\ 1 <= n /\ n <= 48 + 3 * RP
  BY DEF Feeds
<1>2. CASE n \in 1 .. 2
  <2>1. Kind(4) = "Ark" /\ FedAt(4, n + 1) = n + 7
    BY <1>2, KindIs, RunAtIs DEF FedAt, LastIn
  <2>2. IsFeedOf(n, 4, n + 1)
    BY <1>2, <2>1 DEF IsFeedOf, In, Leaves
  <2> QED
    BY <2>2
<1>3. ASSUME NEW r \in 0 .. 6, NEW k \in 1 .. 6, n = RoundAt(r) - 7 + k
      PROVE  \E e, i : IsFeedOf(n, e, i)
  <2>1. RoundAt(r) \in Int
    BY RoundAtIs
  <2>2. CASE k \in 1 .. 2
    <3> DEFINE c == 20 + RP + 2 * r + (k - 1)
    <3>1. k - 1 \in T /\ r \in 0 .. 7 /\ c \in 20 + RP .. 35 + 2 * RP /\ c \in Leaves
      BY <2>2 DEF T, Leaves
    <3>2. RunAt(c) = RoundAt(r) + (k - 1) + 1 /\ Kind(c) = "Sigma"
      BY <3>1, RunAtIs, KindIs
    <3> HIDE DEF c
    <3>3. FedAt(c, 1) = n + 7
      BY <1>3, <2>1, <3>2 DEF FedAt, LastIn
    <3>4. IsFeedOf(n, c, 1)
      BY <3>1, <3>2, <3>3 DEF IsFeedOf, In
    <3> QED
      BY <3>4
  <2>3. CASE k \in 3 .. 4
    <3> DEFINE c == 5 + r
    <3>1. c \in 4 .. 11 /\ c \in Leaves
      BY DEF Leaves
    <3>2. RunAt(c) = RoundAt(r) + 4 /\ Kind(c) = "Ark"
      BY <3>1, RunAtIs, KindIs
    <3> HIDE DEF c
    <3>3. FedAt(c, k - 1) = n + 7
      BY <1>3, <2>1, <2>3, <3>2 DEF FedAt, LastIn
    <3>4. IsFeedOf(n, c, k - 1)
      BY <2>3, <3>1, <3>2, <3>3 DEF IsFeedOf, In
    <3> QED
      BY <3>4
  <2>4. CASE k \in 5 .. 6
    <3> DEFINE c == 12 + r
    <3>1. c \in 12 .. 18 /\ c \in Leaves
      BY DEF Leaves
    <3>2. RunAt(c) = RoundAt(r) + 6 /\ Kind(c) = "Mix"
      BY <3>1, RunAtIs, KindIs
    <3> HIDE DEF c
    <3>3. FedAt(c, k - 3) = n + 7
      BY <1>3, <2>1, <2>4, <3>2 DEF FedAt, LastIn
    <3>4. IsFeedOf(n, c, k - 3)
      BY <2>4, <3>1, <3>2, <3>3 DEF IsFeedOf, In
    <3> QED
      BY <3>4
  <2> QED
    BY <2>2, <2>3, <2>4
<1>4. CASE n \in 3 .. 26
  <2> DEFINE r == (n - 3) \div 6
             k == ((n - 3) % 6) + 1
  <2>1. r \in 0 .. 3 /\ k \in 1 .. 6 /\ n = 2 + 6 * r + k
    BY <1>4
  <2> HIDE DEF r, k
  <2>2. n = RoundAt(r) - 7 + k /\ r \in 0 .. 6
    BY <2>1, RoundAtIs
  <2> QED
    BY <1>3, <2>1, <2>2
<1>5. CASE n \in 27 .. 26 + 3 * RP
  <2> DEFINE r == (n - 27) \div 3
             k == ((n - 27) % 3) + 1
             c == 36 + RP + r
             d == 20 + r
  <2>1. r \in 0 .. RP - 1 /\ k \in 1 .. 3 /\ n = 26 + 3 * r + k
    BY <1>5
  <2> HIDE DEF r, k
  <2>2. /\ c \in 20 + RP .. 35 + 2 * RP /\ c \in Leaves /\ RunAt(c) = 34 + 3 * r
        /\ d \in 20 .. 19 + RP /\ d \in Leaves /\ RunAt(d) = 36 + 3 * r
    BY <2>1, RunAtIs DEF Leaves
  <2> HIDE DEF c, d
  <2>3. Kind(c) = "Sigma" /\ Kind(d) = "MixS"
    BY <2>2, KindIs
  <2>4. FedAt(c, 1) = 34 + 3 * r /\ FedAt(d, 2) = 35 + 3 * r /\ FedAt(d, 3) = 36 + 3 * r
    BY <2>1, <2>2, <2>3 DEF FedAt, LastIn
  <2>5. k = 1 => IsFeedOf(n, c, 1)
    BY <2>1, <2>2, <2>3, <2>4 DEF IsFeedOf, In
  <2>6. k = 2 => IsFeedOf(n, d, 2)
    BY <2>1, <2>2, <2>3, <2>4 DEF IsFeedOf, In
  <2>7. k = 3 => IsFeedOf(n, d, 3)
    BY <2>1, <2>2, <2>3, <2>4 DEF IsFeedOf, In
  <2> QED
    BY <2>1, <2>5, <2>6, <2>7
<1>6. CASE n \in 27 + 3 * RP .. 44 + 3 * RP
  <2> DEFINE r == 4 + (n - 27 - 3 * RP) \div 6
             k == ((n - 27 - 3 * RP) % 6) + 1
  <2>1. r \in 4 .. 6 /\ k \in 1 .. 6 /\ n = 2 + 3 * RP + 6 * r + k
    BY <1>6
  <2> HIDE DEF r, k
  <2>2. n = RoundAt(r) - 7 + k /\ r \in 0 .. 6
    BY <2>1, RoundAtIs
  <2> QED
    BY <1>3, <2>1, <2>2
<1>7. CASE n \in 45 + 3 * RP .. 46 + 3 * RP
  <2> DEFINE j == n - 45 - 3 * RP
             c == 20 + RP + 2 * 7 + j
  <2>1. j \in T /\ 7 \in 0 .. 7 /\ c \in 20 + RP .. 35 + 2 * RP /\ c \in Leaves
    BY <1>7 DEF T, Leaves
  <2>2. RunAt(c) = RoundAt(7) + j + 1 /\ Kind(c) = "Sigma"
    BY <2>1, RunAtIs, KindIs
  <2> HIDE DEF c
  <2>3. FedAt(c, 1) = n + 7
    BY <1>7, <2>2, RoundAtIs DEF FedAt, LastIn
  <2>4. IsFeedOf(n, c, 1)
    BY <2>1, <2>2, <2>3 DEF IsFeedOf, In
  <2> QED
    BY <2>4
<1>8. CASE n \in 47 + 3 * RP .. 48 + 3 * RP
  <2> DEFINE i == n - 46 - 3 * RP
  <2>1. i \in {1, 2} /\ 19 \in Leaves /\ Kind(19) = "MixLast" /\ RunAt(19) = RoundAt(7) + 4
    BY <1>8, RunAtIs, KindIs DEF Leaves
  <2>2. FedAt(19, i) = n + 7
    BY <1>8, <2>1, RoundAtIs DEF FedAt, LastIn
  <2>3. IsFeedOf(n, 19, i)
    BY <2>1, <2>2 DEF IsFeedOf, In
  <2> QED
    BY <2>3
<1> QED
  BY <1>1, <1>2, <1>4, <1>5, <1>6, <1>7, <1>8

(* When the inputs of the components that are not leaves are fed.          *)
LEMMA OthersFed ==
  /\ In(Kind(2)) = {1} /\ FedAt(2, 1) = 3
  /\ In(Kind(3)) = {1, 2} /\ FedAt(3, 1) = 6 /\ FedAt(3, 2) = 5
  /\ In(Kind(1)) = {1, 2} /\ FedAt(1, 1) = Feeds + 10 /\ FedAt(1, 2) = Feeds + 11
  /\ In(Kind(36 + 2 * RP)) = {1, 2}
  /\ FedAt(36 + 2 * RP, 1) = Feeds + 12 /\ FedAt(36 + 2 * RP, 2) = Feeds + 13
<1>1. Feeds \in Nat
  BY Constants DEF Feeds
<1> QED
  BY <1>1, KindIs, RunAtIs DEF In, FedAt, LastIn

(* Those components.                                                       *)
LEMMA OtherComponents ==
  ASSUME NEW c \in Components
  PROVE  c \in {0, 1, 2, 3, 36 + 2 * RP} \/ c \in Leaves
BY Constants DEF Components, Leaves

(* The feeds of the three run functions that have subcomponents.           *)
LEMMA BodyLengths ==
  /\ Body(Kind(0)) = AuthBody /\ Len(AuthBody) = 5
  /\ Body(Kind(2)) = << Feed(0, 2, Constant(0)), Feed(0, 1, Own(1)) >> /\ Len(Body(Kind(2))) = 2
  /\ Body(Kind(3)) = PoseidonExBody /\ Len(Body(Kind(3))) = Feeds
<1>1. Body(Kind(0)) = AuthBody /\ Body(Kind(3)) = PoseidonExBody
      /\ Body(Kind(2)) = << Feed(0, 2, Constant(0)), Feed(0, 1, Own(1)) >>
  BY KindIs DEF Body
<1> QED
  BY <1>1, BodyIs DEF AuthBody

(* What mySubcomponents of Auth and of Poseidon hold.                      *)
LEMMA ChildrenAre ==
  /\ SubIds(0, End) = [k \in 0 .. 2 |-> IF k = 2 THEN 36 + 2 * RP ELSE 2 - k]
  /\ SubIds(2, End) = [k \in {0} |-> 3]
<1>1. End >= 2 /\ End >= 4
  BY Constants DEF End, Feeds
<1> QED
  BY <1>1 DEF SubIds

(* No other input is set by the same feed.                                 *)
OnlyFeed(c, n) ==
  LET f == Body(Kind(c))[n]
  IN  \A e \in Components \ {0} : \A i \in In(Kind(e)) :
        FedAt(e, i) = AfterFeed(c, n) => e = SubIds(c, End)[f.sub] /\ i = f.in

(* The feeds of PoseidonEx come after what they read, one input each.      *)
LEMMA ExFeeds ==
  ASSUME NEW n \in 1 .. Feeds
  PROVE  GoodFeed(3, n) /\ OnlyFeed(3, n)
<1>1. n \in Int /\ 1 <= n /\ n <= Feeds /\ Feeds \in Nat /\ AfterFeed(3, n) = n + 7
  BY Constants DEF Feeds, AfterFeed
<1>2. PICK e, i : IsFeedOf(n, e, i)
  BY EveryFeed, Zenon
<1>3. e \in Leaves /\ i \in In(Kind(e)) /\ FedAt(e, i) = n + 7
  BY <1>2 DEF IsFeedOf
<1>4. PICK src : FedFrom(e, i, src)
  BY <1>3, LeafFed, Zenon DEF IsFed
<1>5. (n + 7) - 7 = n /\ (n + 7) - 1 = n + 6
  BY <1>1
<1>6. PoseidonExBody[n] = Feed(Index(e), i, src) /\ SourceSet(3, src, n + 6)
  BY <1>3, <1>4, <1>5 DEF FedFrom
<1> DEFINE f == Body(Kind(3))[n]
<1>7. f.sub = Index(e) /\ f.in = i /\ f.src = src /\ f.asserts = "nothing"
  BY <1>6, BodyLengths DEF Feed
<1>8. Index(e) \in DOMAIN SubIds(3, End) /\ SubIds(3, End)[Index(e)] = e
  BY <1>3, ExSubIds
<1> HIDE DEF f
<1>9. e \in Components /\ e # 0 /\ MadeAt(e) = 7 /\ ReleasedAt(e) = Feeds + 8
  BY <1>3, LeafFacts
<1>10. GoodFeed(3, n)
  <2>1. 7 < n + 7 /\ n + 7 <= Feeds + 8
    BY <1>1
  <2> QED
    BY <1>1, <1>3, <1>5, <1>6, <1>7, <1>8, <1>9, <2>1 DEF GoodFeed, f
<1>11. ASSUME NEW d \in Components \ {0}, NEW k \in In(Kind(d)), FedAt(d, k) = n + 7
       PROVE  d = e /\ k = i
  <2>1. d \in Leaves
    <3>1. d \notin {1, 2, 3, 36 + 2 * RP}
      BY <1>1, <1>11, OthersFed
    <3> QED
      BY <3>1, OtherComponents
  <2>2. PICK s : FedFrom(d, k, s)
    BY <2>1, LeafFed, Zenon DEF IsFed
  <2>3. PoseidonExBody[n] = Feed(Index(d), k, s)
    BY <1>5, <1>11, <2>2 DEF FedFrom
  <2>4. Index(d) = Index(e) /\ k = i
    BY <1>6, <2>3 DEF Feed
  <2>5. Id(Index(d)) = d /\ Id(Index(e)) = e
    BY <1>3, <2>1, LeavesAreSubs
  <2> QED
    BY <2>4, <2>5
<1> QED
  BY <1>1, <1>7, <1>8, <1>10, <1>11 DEF OnlyFeed, f

(* So do those of Poseidon.                                                *)
LEMMA PoseidonFeeds ==
  ASSUME NEW n \in 1 .. 2
  PROVE  GoodFeed(2, n) /\ OnlyFeed(2, n)
<1> DEFINE f == Body(Kind(2))[n]
<1>1. Feeds \in Nat /\ Feeds >= 48
  BY Constants DEF Feeds
<1>2. AfterFeed(2, n) = 4 + n
  BY DEF AfterFeed
<1>3. f.sub = 0 /\ f.in = 3 - n /\ f.asserts = "nothing" /\ f.src = IF n = 1 THEN Constant(0) ELSE Own(1)
  BY BodyLengths DEF Feed
<1> HIDE DEF f
<1>4. 0 \in DOMAIN SubIds(2, End) /\ SubIds(2, End)[0] = 3 /\ 3 \in Components
  BY ChildrenAre, Constants DEF Components
<1>5. MadeAt(3) = 4 /\ ReleasedAt(3) = Feeds + 9
  BY Constants DEF MadeAt, ReleasedAt, Leaves
<1>6. 3 - n \in In(Kind(3)) /\ FedAt(3, 3 - n) = 4 + n
  BY OthersFed
<1>7. SourceSet(2, f.src, (4 + n) - 1)
  <2>1. CASE n = 1
    BY <1>3, <2>1, Constants DEF SourceSet, Constant
  <2>2. CASE n = 2
    <3>1. 1 \in Offsets(2) /\ SetAt(2, 1) = 3
      BY KindIs, OthersFed DEF Offsets, SetAt
    <3> QED
      BY <1>3, <2>2, <3>1 DEF SourceSet, Own
  <2> QED
    BY <2>1, <2>2
<1>8. GoodFeed(2, n)
  <2>1. 4 < 4 + n /\ 4 + n <= Feeds + 9
    BY <1>1
  <2> QED
    BY <1>2, <1>3, <1>4, <1>5, <1>6, <1>7, <2>1 DEF GoodFeed, f
<1>9. ASSUME NEW d \in Components \ {0}, NEW k \in In(Kind(d)), FedAt(d, k) = 4 + n
      PROVE  d = 3 /\ k = 3 - n
  <2>1. d \notin Leaves
    BY <1>9, LeafFacts
  <2>2. d \in {1, 2, 3, 36 + 2 * RP}
    BY <2>1, OtherComponents
  <2> QED
    BY <1>1, <1>9, <2>2, OthersFed
<1> QED
  BY <1>2, <1>3, <1>4, <1>8, <1>9 DEF OnlyFeed, f

(* So do those of Auth.                                                    *)
LEMMA AuthFeeds ==
  ASSUME NEW n \in 1 .. 5
  PROVE  GoodFeed(0, n) /\ OnlyFeed(0, n)
<1> DEFINE f    == Body(Kind(0))[n]
           d    == IF n = 1 THEN 2 ELSE IF n <= 3 THEN 1 ELSE 36 + 2 * RP
           in   == IF n \in {3, 5} THEN 2 ELSE 1
           src  == CASE n = 1 -> Own(4) [] n = 2 -> Out(hasher, 0) [] n = 3 -> Own(1)
                     [] n = 4 -> Own(3) [] n = 5 -> Own(2)
           t    == IF n = 1 THEN 3 ELSE Feeds + 8 + n
<1>1. Feeds \in Nat /\ Feeds >= 48 /\ RP \in Nat \ {0}
  BY Constants DEF Feeds
<1>2. AfterFeed(0, n) = t
  BY DEF AfterFeed
<1>3. /\ f.sub = (IF n = 1 THEN 0 ELSE IF n <= 3 THEN 1 ELSE 2) /\ f.in = in /\ f.src = src
      /\ f.asserts = IF n \in {1, 3, 5} THEN "last" ELSE "notLast"
  <2>1. /\ AuthBody[1] = FeedLast(0, 1, Own(4))
        /\ AuthBody[2] = FeedFirst(1, 1, Out(hasher, 0)) /\ AuthBody[3] = FeedLast(1, 2, Own(1))
        /\ AuthBody[4] = FeedFirst(2, 1, Own(3)) /\ AuthBody[5] = FeedLast(2, 2, Own(2))
    BY DEF AuthBody, hasher, hashCheck, roleCheck
  <2>2. f = AuthBody[n]
    BY BodyLengths
  <2> HIDE DEF f
  <2>3. CASE n = 1
    BY <2>1, <2>2, <2>3 DEF FeedLast
  <2>4. CASE n = 2
    BY <2>1, <2>2, <2>4 DEF FeedFirst
  <2>5. CASE n = 3
    BY <2>1, <2>2, <2>5 DEF FeedLast
  <2>6. CASE n = 4
    BY <2>1, <2>2, <2>6 DEF FeedFirst
  <2>7. CASE n = 5
    BY <2>1, <2>2, <2>7 DEF FeedLast
  <2> QED
    BY <2>3, <2>4, <2>5, <2>6, <2>7
<1> HIDE DEF f
<1>4. /\ f.sub \in DOMAIN SubIds(0, End) /\ SubIds(0, End)[f.sub] = d
      /\ d \in Components /\ d # 0
  BY <1>1, <1>3, ChildrenAre DEF Components
<1>5. MadeAt(d) = 2 /\ ReleasedAt(d) = End /\ 2 < t /\ t <= End
  <2>1. MadeAt(d) = 2
    BY <1>1 DEF MadeAt, Leaves
  <2>2. ReleasedAt(d) = End
    BY <1>1 DEF ReleasedAt, Leaves
  <2> QED
    BY <1>1, <2>1, <2>2 DEF End
<1>6. in \in In(Kind(d)) /\ FedAt(d, in) = t
  BY <1>1, OthersFed
<1>7. SourceSet(0, src, t - 1)
  <2>1. \A o \in 1 .. 4 : o \in Offsets(0) /\ SetAt(0, o) = 0
    BY KindIs DEF Offsets, SetAt
  <2>2. \A o \in 1 .. 4 : SourceSet(0, Own(o), t - 1)
    <3>1. 0 <= t - 1
      BY <1>1
    <3> QED
      BY <2>1, <3>1 DEF SourceSet, Own
  <2>3. n = 2 => SourceSet(0, Out(hasher, 0), t - 1)
    <3>1. 0 \in DOMAIN SubIds(0, End) /\ SubIds(0, End)[0] = 2 /\ 2 \in Components
      BY <1>1, ChildrenAre DEF Components
    <3>2. 0 \in Offsets(2) /\ SetAt(2, 0) = Feeds + 9 /\ MadeAt(2) = 2
      <4>1. 0 \notin In(Kind(2))
        BY OthersFed
      <4> QED
        BY <4>1, <1>1, KindIs DEF Offsets, SetAt, MadeAt, Leaves
    <3> QED
      BY <1>1, <3>1, <3>2, Constants DEF SourceSet, Out, hasher
  <2> QED
    BY <2>2, <2>3
<1>8. GoodFeed(0, n)
  <2>1. f.asserts = "last" => t = RunAt(d)
    BY <1>1, <1>3, RunAtIs
  <2>2. f.asserts = "notLast" => t = RunAt(d) - 1
    BY <1>1, <1>3, RunAtIs
  <2> HIDE DEF d, in, src, t
  <2> QED
    BY <1>2, <1>3, <1>4, <1>5, <1>6, <1>7, <2>1, <2>2 DEF GoodFeed, f
<1>9. ASSUME NEW e \in Components \ {0}, NEW k \in In(Kind(e)), FedAt(e, k) = t
      PROVE  e = d /\ k = in
  <2>1. e \notin Leaves
    BY <1>1, <1>9, LeafFacts
  <2>2. e \in {1, 2, 3, 36 + 2 * RP}
    BY <2>1, OtherComponents
  <2> QED
    BY <1>1, <1>9, <2>2, OthersFed
<1> HIDE DEF d, in, src, t
<1> QED
  BY <1>2, <1>3, <1>4, <1>8, <1>9 DEF OnlyFeed, f

Callers == {0, 2, 3}

(* Every feed comes after what it reads, and feeds one input.              *)
LEMMA Scheduled ==
  ASSUME NEW c \in Callers, NEW n \in 1 .. Len(Body(Kind(c)))
  PROVE  GoodFeed(c, n) /\ OnlyFeed(c, n)
<1>1. CASE c = 0
  BY <1>1, BodyLengths, AuthFeeds
<1>2. CASE c = 2
  BY <1>2, BodyLengths, PoseidonFeeds
<1>3. CASE c = 3
  BY <1>3, BodyLengths, ExFeeds
<1> QED
  BY <1>1, <1>2, <1>3 DEF Callers
-----------------------------------------------------------------------------
(* The clock and the signals                                               *)

(* Every component runs while run does.                                    *)
LEMMA RunAtRange ==
  /\ Feeds \in Nat /\ Feeds >= 48 /\ End = Feeds + 14
  /\ \A c \in Components : RunAt(c) \in 1 .. End - 1 /\ (c # 0 => RunAt(c) >= 3)
<1>1. Feeds \in Nat /\ Feeds >= 48 /\ End = Feeds + 14
  BY Constants DEF Feeds, End
<1>2. ASSUME NEW c \in Components PROVE RunAt(c) \in 1 .. End - 1 /\ (c # 0 => RunAt(c) >= 3)
  <2>1. CASE c \in Leaves
    <3>1. RunAt(c) \in 9 .. Feeds + 7
      BY <2>1, LeafFacts
    <3> QED
      BY <1>1, <3>1
  <2>2. CASE c \in {0, 1, 2, 3, 36 + 2 * RP}
    BY <1>1, <2>2, RunAtIs
  <2> QED
    BY <2>1, <2>2, OtherComponents
<1> QED
  BY <1>1, <1>2

(* The components with subcomponents are the first, the third and the      *)
(* fourth.                                                                 *)
LEMMA SimpleIs ==
  ASSUME NEW c \in Components
  PROVE  /\ Simple(c) <=> c \notin {0, 2, 3}
         /\ Kind(c) \in Composite <=> c \in {0, 2, 3}
         /\ Kind(c) = "Auth" <=> c = 0
         /\ Kind(c) = "Poseidon" <=> c = 2
         /\ Kind(c) = "PoseidonEx" <=> c = 3
BY ComponentCases, KindIs, Constants DEF Simple, Composite

(* An input is fed by the run of its component or just before it.          *)
LEMMA FedAtRange ==
  ASSUME NEW c \in Components \ {0}, NEW i \in In(Kind(c))
  PROVE  FedAt(c, i) \in {RunAt(c) - 1, RunAt(c)} /\ FedAt(c, i) \in 2 .. End - 1
BY RunAtRange DEF FedAt

(* When a signal is set, by what sets it.                                  *)
LEMMA SetAtIs ==
  ASSUME NEW c \in Components, NEW o \in Offsets(c)
  PROVE  /\ c = 0 /\ o # 0 => SetAt(c, o) = 0
         /\ c = 0 /\ o = 0 => SetAt(c, o) = End
         /\ c # 0 /\ o \in In(Kind(c)) => SetAt(c, o) = FedAt(c, o)
         /\ c = 2 /\ o \notin In(Kind(c)) => o = 0 /\ SetAt(c, o) = Feeds + 9
         /\ c = 3 /\ o \notin In(Kind(c)) => o = 0 /\ SetAt(c, o) = Feeds + 8
         /\ Simple(c) /\ o \notin In(Kind(c)) => SetAt(c, o) = RunAt(c)
         /\ SetAt(c, o) \in 0 .. End
<1>1. CASE c = 0
  BY <1>1, RunAtRange, SimpleIs DEF SetAt
<1>2. CASE c # 0 /\ o \in In(Kind(c))
  <2>1. SetAt(c, o) = FedAt(c, o)
    <3>1. (c = 2 \/ c = 3) => o # 0
      BY <1>2, OthersFed
    <3> QED
      BY <1>2, <3>1 DEF SetAt
  <2> QED
    BY <1>2, <2>1, FedAtRange, RunAtRange, SimpleIs
<1>3. CASE c = 2 /\ o \notin In(Kind(c))
  <2>1. o = 0
    BY <1>3, StartIs, OthersFed
  <2> QED
    BY <1>3, <2>1, RunAtRange, SimpleIs DEF SetAt
<1>4. CASE c = 3 /\ o \notin In(Kind(c))
  <2>1. o = 0
    BY <1>4, StartIs, OthersFed
  <2> QED
    BY <1>4, <2>1, RunAtRange, SimpleIs DEF SetAt
<1>5. CASE c \notin {0, 2, 3} /\ o \notin In(Kind(c))
  BY <1>5, RunAtRange, SimpleIs DEF SetAt
<1> QED
  BY <1>1, <1>2, <1>3, <1>4, <1>5

(* No two feeds end at the same time, nor a feed and a create or a return. *)
LEMMA AfterFeedIs ==
  ASSUME NEW c \in Callers, NEW n \in 1 .. Len(Body(Kind(c)))
  PROVE  /\ AfterFeed(c, n) \in 3 .. End - 1
         /\ AfterFeed(c, n) \notin {1, 2, 4, 7, Feeds + 8, Feeds + 9, End}
         /\ \A d \in Callers : AfterFeed(c, n) # AfterReturn(d)
         /\ \A d \in Callers : \A m \in 1 .. Len(Body(Kind(d))) :
              AfterFeed(d, m) = AfterFeed(c, n) => d = c /\ m = n
<1>1. ASSUME NEW d \in Callers, NEW m \in 1 .. Len(Body(Kind(d)))
      PROVE  /\ d = 0 => m \in 1 .. 5 /\ AfterFeed(d, m) = IF m = 1 THEN 3 ELSE Feeds + 8 + m
             /\ d = 2 => m \in 1 .. 2 /\ AfterFeed(d, m) = 4 + m
             /\ d = 3 => m \in 1 .. Feeds /\ AfterFeed(d, m) = 7 + m
  <2>1. CASE d = 0
    <3>1. m \in 1 .. 5
      BY <2>1, BodyLengths
    <3>2. AfterFeed(d, m) = IF m = 1 THEN 3 ELSE Feeds + 8 + m
      BY <2>1, <3>1 DEF AfterFeed
    <3> QED
      BY <2>1, <3>1, <3>2
  <2>2. CASE d = 2
    <3>1. m \in 1 .. 2
      BY <2>2, BodyLengths
    <3> QED
      BY <2>2, <3>1 DEF AfterFeed
  <2>3. CASE d = 3
    <3>1. m \in 1 .. Feeds
      BY <2>3, BodyLengths
    <3> QED
      BY <2>3, <3>1 DEF AfterFeed
  <2> QED
    BY <2>1, <2>2, <2>3 DEF Callers
<1>2. /\ c = 0 => n \in 1 .. 5 /\ AfterFeed(c, n) = IF n = 1 THEN 3 ELSE Feeds + 8 + n
      /\ c = 2 => n \in 1 .. 2 /\ AfterFeed(c, n) = 4 + n
      /\ c = 3 => n \in 1 .. Feeds /\ AfterFeed(c, n) = 7 + n
  BY <1>1
<1>3. ASSUME NEW d \in Callers, NEW m \in 1 .. Len(Body(Kind(d)))
      PROVE  /\ d = 0 => m \in 1 .. 5 /\ AfterFeed(d, m) = IF m = 1 THEN 3 ELSE Feeds + 8 + m
             /\ d = 2 => m \in 1 .. 2 /\ AfterFeed(d, m) = 4 + m
             /\ d = 3 => m \in 1 .. Feeds /\ AfterFeed(d, m) = 7 + m
  BY <1>1
<1>4. \A d \in Callers : AfterReturn(d) \in {Feeds + 8, Feeds + 9, End}
  BY DEF AfterReturn, Callers
<1>5. c = 0 \/ c = 2 \/ c = 3
  BY DEF Callers
<1>6. /\ AfterFeed(c, n) \in 3 .. End - 1
      /\ AfterFeed(c, n) \notin {1, 2, 4, 7, Feeds + 8, Feeds + 9, End}
  BY <1>2, <1>5, RunAtRange
<1>7. ASSUME NEW d \in Callers, NEW m \in 1 .. Len(Body(Kind(d))), AfterFeed(d, m) = AfterFeed(c, n)
      PROVE  d = c /\ m = n
  <2>1. d = 0 \/ d = 2 \/ d = 3
    BY DEF Callers
  <2>2. n \in Int /\ m \in Int
    OBVIOUS
  <2> QED
    BY <1>2, <1>3, <1>5, <1>7, <2>1, <2>2, RunAtRange
<1> QED
  BY <1>4, <1>6, <1>7

-----------------------------------------------------------------------------
(* What is in a signal stays there                                         *)

Keeps(sv, sv2) == \A s \in Signals : sv[s] # Unset => sv2[s] = sv[s]

(* Signals that are set are kept.                                          *)
LEMMA KeepsSig ==
  ASSUME NEW sv, NEW sv2, NEW t \in Int, SetRight(sv, t), Keeps(sv, sv2),
         NEW c \in Components, NEW o \in Offsets(c), SetAt(c, o) <= t
  PROVE  Sig(sv2, c, o) = Sig(sv, c, o) /\ Sig(sv, c, o) \in Value
<1>1. Sig(sv, c, o) # Unset
  <2>1. SetAt(c, o) \in Int
    BY SetAtIs
  <2>2. t >= SetAt(c, o)
    BY <2>1
  <2> QED
    BY <2>2 DEF SetRight
<1>2. Start(c) + o \in Signals
  BY InSignals
<1> QED
  BY <1>1, <1>2 DEF SetRight, Keeps, Sig

(* A component that has run has still run when its signals are the same.   *)
LEMMA SameRan ==
  ASSUME NEW sv, NEW sv2, NEW c, Simple(c), Ran(sv, c),
         \A o \in Offsets(c) : Sig(sv2, c, o) = Sig(sv, c, o)
  PROVE  Ran(sv2, c)
<1>1. Kind(c) \in {"Ark", "Mix", "MixS", "MixLast", "IsEqual", "Sigma"}
  BY ComponentCases, KindIs DEF Simple, Composite
<1>2. CASE Kind(c) \in {"Ark", "Mix", "MixS", "Sigma"}
  <2>1. /\ Sig(sv2, c, 0) = Sig(sv, c, 0) /\ Sig(sv2, c, 1) = Sig(sv, c, 1)
        /\ Sig(sv2, c, 2) = Sig(sv, c, 2) /\ Sig(sv2, c, 3) = Sig(sv, c, 3)
    <3>1. Offsets(c) = 0 .. 3
      BY <1>2 DEF Offsets
    <3> QED
      BY <3>1
  <2>2. CASE Kind(c) = "Ark"
    BY <2>1, <2>2 DEF Ran
  <2>3. CASE Kind(c) = "Mix"
    <3>1. \A n \in T : Sig(sv2, c, n) = Sig(sv, c, n)
      BY <2>1 DEF T
    <3> QED
      BY <2>1, <2>3, <3>1 DEF Ran
  <2>4. CASE Kind(c) = "MixS"
    BY <2>1, <2>4 DEF Ran
  <2>5. CASE Kind(c) = "Sigma"
    BY <2>1, <2>5 DEF Ran
  <2> QED
    BY <1>2, <2>2, <2>3, <2>4, <2>5
<1>3. CASE Kind(c) \in {"MixLast", "IsEqual"}
  <2>1. /\ Sig(sv2, c, 0) = Sig(sv, c, 0) /\ Sig(sv2, c, 1) = Sig(sv, c, 1)
        /\ Sig(sv2, c, 2) = Sig(sv, c, 2)
    <3>1. Offsets(c) = 0 .. 2
      BY <1>3 DEF Offsets
    <3> QED
      BY <3>1
  <2>2. CASE Kind(c) = "MixLast"
    BY <2>1, <2>2 DEF Ran
  <2>3. CASE Kind(c) = "IsEqual"
    BY <2>1, <2>3 DEF Ran
  <2> QED
    BY <1>3, <2>2, <2>3
<1> QED
  BY <1>1, <1>2, <1>3

(* A source that is set is read as a value.                                *)
LEMMA SourceIsValue ==
  ASSUME NEW sv, NEW sv2, NEW t \in Int, SetRight(sv, t), Keeps(sv, sv2),
         NEW c \in Components, NEW src, SourceSet(c, src, t)
  PROVE  Source(sv2, c, src) = Source(sv, c, src) /\ Source(sv, c, src) \in Value
<1>1. CASE src.sub = -2 /\ src.plus \in Value
  BY <1>1 DEF Source
<1>2. CASE src.sub = -1 /\ src.off \in Offsets(c) /\ SetAt(c, src.off) <= t
  BY <1>2, KeepsSig DEF Source
<1>3. CASE /\ src.sub \in DOMAIN SubIds(c, End) /\ src.sub \notin {-1, -2}
           /\ LET d == SubIds(c, End)[src.sub]
              IN  d \in Components /\ src.off \in Offsets(d) /\ SetAt(d, src.off) <= t
           /\ src.plus \in Value
  <2> DEFINE d == SubIds(c, End)[src.sub]
  <2>1. Sig(sv2, d, src.off) = Sig(sv, d, src.off) /\ Sig(sv, d, src.off) \in Value
    BY <1>3, KeepsSig
  <2>2. Add(Sig(sv, d, src.off), src.plus) \in Value
    BY <1>3, <2>1, ArithmeticOnValues
  <2> QED
    BY <1>3, <2>1, <2>2 DEF Source
<1> QED
  BY <1>1, <1>2, <1>3 DEF SourceSet

(* What was established of the values stays true when set signals are      *)
(* kept.                                                                   *)
LEMMA KeptValues ==
  ASSUME NEW sv, NEW sv2, NEW t \in Int, ValuesAt(sv, t), Keeps(sv, sv2)
  PROVE  /\ \A c \in Components : Simple(c) /\ RunAt(c) <= t => Ran(sv2, c)
         /\ \A c \in Callers : \A n \in 1 .. Len(Body(Kind(c))) :
              AfterFeed(c, n) <= t => Wired(sv2, c, n)
         /\ \A c \in Callers : AfterReturn(c) <= t => Returned(sv2, c)
<1>1. SetRight(sv, t) /\ RanRight(sv, t) /\ WiredRight(sv, t)
  BY DEF ValuesAt
<1>2. ASSUME NEW c \in Components, Simple(c), RunAt(c) <= t
      PROVE  Ran(sv2, c)
  <2>1. ASSUME NEW o \in Offsets(c) PROVE Sig(sv2, c, o) = Sig(sv, c, o)
    <3>1. SetAt(c, o) <= RunAt(c)
      <4>1. c # 0
        BY <1>2, SimpleIs
      <4>2. CASE o \in In(Kind(c))
        BY <4>1, <4>2, SetAtIs, FedAtRange, RunAtRange
      <4>3. CASE o \notin In(Kind(c))
        BY <1>2, <4>3, SetAtIs, RunAtRange
      <4> QED
        BY <4>2, <4>3
    <3>2. SetAt(c, o) \in Int /\ RunAt(c) \in Int
      BY SetAtIs, RunAtRange
    <3>3. SetAt(c, o) <= t
      BY <1>2, <3>1, <3>2
    <3> QED
      BY <1>1, <3>3, KeepsSig
  <2>2. Ran(sv, c)
    <3>1. RunAt(c) \in Int
      BY RunAtRange
    <3>2. t >= RunAt(c)
      BY <1>2, <3>1
    <3> QED
      BY <1>1, <1>2, <3>2 DEF RanRight, Simple
  <2> QED
    BY <1>2, <2>1, <2>2, SameRan
<1>3. ASSUME NEW c \in Callers, NEW n \in 1 .. Len(Body(Kind(c))), AfterFeed(c, n) <= t
      PROVE  Wired(sv2, c, n)
  <2> DEFINE f == Body(Kind(c))[n]
             d == SubIds(c, End)[f.sub]
             u == AfterFeed(c, n)
  <2>1. u \in Int /\ u <= t /\ t >= u
    BY <1>3, AfterFeedIs
  <2>2. /\ d \in Components /\ d # 0 /\ f.in \in In(Kind(d)) /\ FedAt(d, f.in) = u
        /\ SourceSet(c, f.src, u - 1)
    BY Scheduled DEF GoodFeed
  <2>3. SourceSet(c, f.src, t)
    <3> HIDE DEF f, u
    <3>1. \A e \in Components : \A o \in Offsets(e) : SetAt(e, o) <= u - 1 => SetAt(e, o) <= t
      BY <2>1, SetAtIs
    <3>2. \A e \in Components : MadeAt(e) <= u - 1 => MadeAt(e) <= t
      <4>1. \A e \in Components : MadeAt(e) \in Int
        BY OtherComponents, Constants DEF MadeAt, Leaves
      <4> QED
        BY <2>1, <4>1
    <3>3. c \in Components
      BY Constants DEF Callers, Components
    <3> QED
      BY <2>2, <3>1, <3>2, <3>3 DEF SourceSet
  <2>4. c \in Components
    BY Constants DEF Callers, Components
  <2>5. f.in \in Offsets(d) /\ SetAt(d, f.in) <= t
    <3> HIDE DEF f, d, u
    <3> QED
      BY <2>1, <2>2, InIsOffsets, SetAtIs
  <2>6. Wired(sv, c, n)
    BY <1>1, <2>1 DEF WiredRight, Callers
  <2>7. Sig(sv, d, f.in) = Source(sv, c, f.src)
    BY <2>6 DEF Wired
  <2>8. Sig(sv2, d, f.in) = Sig(sv, d, f.in)
    <3> HIDE DEF f, d, u
    <3> QED
      BY <1>1, <2>2, <2>5, KeepsSig
  <2>9. Source(sv2, c, f.src) = Source(sv, c, f.src)
    <3> HIDE DEF f, d, u
    <3> QED
      BY <1>1, <2>3, <2>4, SourceIsValue
  <2>10. Sig(sv2, d, f.in) = Source(sv2, c, f.src)
    BY <2>7, <2>8, <2>9
  <2> QED
    BY <2>10 DEF Wired
<1>4. ASSUME NEW c \in Callers, AfterReturn(c) <= t
      PROVE  Returned(sv2, c)
  <2>1. Returned(sv, c)
    <3>1. AfterReturn(c) \in Int
      BY RunAtRange DEF AfterReturn, Callers
    <3>2. t >= AfterReturn(c)
      BY <1>4, <3>1
    <3> QED
      BY <1>1, <3>2 DEF WiredRight, Callers
  <2>2. ASSUME NEW d \in Components, SetAt(d, 0) <= t PROVE Sig(sv2, d, 0) = Sig(sv, d, 0)
    BY <1>1, <2>2, KeepsSig, InIsOffsets
  <2>3. /\ 0 \in Components /\ 1 \in Components /\ 2 \in Components /\ 3 \in Components
        /\ 19 \in Components /\ 36 + 2 * RP \in Components
    BY Constants DEF Components
  <2>4. /\ SetAt(0, 0) = End /\ SetAt(1, 0) = Feeds + 11 /\ SetAt(36 + 2 * RP, 0) = Feeds + 13
        /\ SetAt(2, 0) = Feeds + 9 /\ SetAt(3, 0) = Feeds + 8 /\ SetAt(19, 0) <= Feeds + 7
    <3>1. /\ 0 \notin In(Kind(1)) /\ 0 \notin In(Kind(2)) /\ 0 \notin In(Kind(3))
          /\ 0 \notin In(Kind(36 + 2 * RP))
      BY OthersFed
    <3>2. 19 \in Leaves /\ 0 \notin In(Kind(19)) /\ Simple(19)
      BY <2>3, KindIs, SimpleIs, Constants DEF Leaves, In
    <3>3. RunAt(19) \in 9 .. Feeds + 7
      BY <3>2, LeafFacts
    <3>4. Simple(1) /\ Simple(36 + 2 * RP)
      BY <2>3, SimpleIs, Constants
    <3>5. SetAt(0, 0) = End
      BY <2>3, InIsOffsets, SetAtIs
    <3>6. SetAt(1, 0) = Feeds + 11 /\ SetAt(36 + 2 * RP, 0) = Feeds + 13
      BY <2>3, <3>1, <3>4, InIsOffsets, SetAtIs, RunAtIs
    <3>7. SetAt(2, 0) = Feeds + 9 /\ SetAt(3, 0) = Feeds + 8
      BY <2>3, <3>1, InIsOffsets, SetAtIs
    <3>8. SetAt(19, 0) = RunAt(19)
      BY <2>3, <3>2, InIsOffsets, SetAtIs
    <3> QED
      BY <3>3, <3>5, <3>6, <3>7, <3>8, RunAtRange
  <2>5. CASE c = 0
    <3>1. SetAt(0, 0) <= t /\ SetAt(1, 0) <= t /\ SetAt(36 + 2 * RP, 0) <= t
      BY <1>4, <2>4, <2>5, RunAtRange DEF AfterReturn
    <3>2. /\ Sig(sv2, 0, 0) = Sig(sv, 0, 0) /\ Sig(sv2, 1, 0) = Sig(sv, 1, 0)
          /\ Sig(sv2, 36 + 2 * RP, 0) = Sig(sv, 36 + 2 * RP, 0)
      BY <2>2, <2>3, <3>1
    <3> QED
      BY <2>1, <2>5, <3>2 DEF Returned
  <2>6. CASE c = 2
    <3>1. SetAt(2, 0) <= t /\ SetAt(3, 0) <= t
      BY <1>4, <2>4, <2>6, RunAtRange DEF AfterReturn
    <3>2. Sig(sv2, 2, 0) = Sig(sv, 2, 0) /\ Sig(sv2, 3, 0) = Sig(sv, 3, 0)
      BY <2>2, <2>3, <3>1
    <3> QED
      BY <2>1, <2>6, <3>2 DEF Returned
  <2>7. CASE c = 3
    <3>1. SetAt(3, 0) <= t /\ SetAt(19, 0) <= t
      <4>1. SetAt(19, 0) \in Int
        BY <2>3, InIsOffsets, SetAtIs
      <4> QED
        BY <1>4, <2>4, <2>7, <4>1, RunAtRange DEF AfterReturn
    <3>2. Sig(sv2, 3, 0) = Sig(sv, 3, 0) /\ Sig(sv2, 19, 0) = Sig(sv, 19, 0)
      BY <2>2, <2>3, <3>1
    <3> QED
      BY <2>1, <2>7, <3>2 DEF Returned
  <2> QED
    BY <2>5, <2>6, <2>7 DEF Callers
<1> QED
  BY <1>2, <1>3, <1>4
-----------------------------------------------------------------------------
(* A feed                                                                  *)

(* What else is set by a feed: the other signals of the component that is  *)
(* fed, if that component has no subcomponents and this was its last input.*)
LEMMA SetByFeed ==
  ASSUME NEW c \in Callers, NEW n \in 1 .. Len(Body(Kind(c))),
         NEW e \in Components, NEW o \in Offsets(e), SetAt(e, o) = AfterFeed(c, n)
  PROVE  LET f == Body(Kind(c))[n]
             d == SubIds(c, End)[f.sub]
         IN  /\ e = d
             /\ \/ o = f.in
                \/ o \notin In(Kind(d)) /\ Simple(d) /\ RunAt(d) = AfterFeed(c, n)
<1> DEFINE f == Body(Kind(c))[n]
           d == SubIds(c, End)[f.sub]
           u == AfterFeed(c, n)
<1>1. u \in 3 .. End - 1 /\ u \notin {Feeds + 8, Feeds + 9, End}
  BY AfterFeedIs
<1>2. \A x \in Components \ {0} : \A i \in In(Kind(x)) : FedAt(x, i) = u => x = d /\ i = f.in
  BY Scheduled DEF OnlyFeed
<1> HIDE DEF f, d, u
<1>3. SetAt(e, o) = u
  BY DEF u
<1>4. CASE e = 0
  BY <1>1, <1>3, <1>4, SetAtIs
<1>5. CASE e # 0 /\ o \in In(Kind(e))
  <2>1. FedAt(e, o) = u
    BY <1>3, <1>5, SetAtIs
  <2> QED
    BY <1>2, <1>5, <2>1 DEF d, f, u
<1>6. CASE e # 0 /\ o \notin In(Kind(e))
  <2>1. e # 2 /\ e # 3
    BY <1>1, <1>3, <1>6, SetAtIs
  <2>2. Simple(e)
    BY <1>6, <2>1, SimpleIs
  <2>3. RunAt(e) = u
    BY <1>3, <1>6, <2>2, SetAtIs
  <2>4. FedAt(e, LastIn(Kind(e))) = u
    BY <2>3 DEF FedAt
  <2>5. e = d
    BY <1>2, <1>6, <2>4, InIsOffsets
  <2> QED
    BY <1>6, <2>2, <2>3, <2>5 DEF d, f, u
<1> QED
  BY <1>4, <1>5, <1>6

(* A component that runs at the end of a feed is the one that is fed.      *)
LEMMA RunByFeed ==
  ASSUME NEW c \in Callers, NEW n \in 1 .. Len(Body(Kind(c))),
         NEW e \in Components, RunAt(e) = AfterFeed(c, n)
  PROVE  e = SubIds(c, End)[Body(Kind(c))[n].sub]
<1>1. e # 0
  BY AfterFeedIs, RunAtIs
<1>2. FedAt(e, LastIn(Kind(e))) = AfterFeed(c, n)
  BY DEF FedAt
<1> QED
  BY <1>1, <1>2, InIsOffsets, Scheduled DEF OnlyFeed

(* The signals after a feed, and after the run of the component that it    *)
(* may complete.                                                           *)
Fed(sv, c, n) ==
  LET f == Body(Kind(c))[n]
  IN  Put(sv, Start(SubIds(c, End)[f.sub]) + f.in, Source(sv, c, f.src))

(* A feed sets one input to a value, and no other signal.                  *)
LEMMA FedValues ==
  ASSUME NEW c \in Callers, NEW n \in 1 .. Len(Body(Kind(c))), NEW sv, NEW t \in Int,
         t + 1 = AfterFeed(c, n), ValuesAt(sv, t)
  PROVE  LET f == Body(Kind(c))[n]
             d == SubIds(c, End)[f.sub]
         IN  /\ Source(sv, c, f.src) \in Value
             /\ Fed(sv, c, n) \in [Signals -> Signal]
             /\ Keeps(sv, Fed(sv, c, n))
             /\ Sig(Fed(sv, c, n), d, f.in) = Source(sv, c, f.src)
             /\ \A e \in Components : \A o \in Offsets(e) :
                  e # d \/ o # f.in => Sig(Fed(sv, c, n), e, o) = Sig(sv, e, o)
             /\ t + 1 = RunAt(d) <=> \A i \in In(Kind(d)) : Sig(Fed(sv, c, n), d, i) # Unset
<1> DEFINE f  == Body(Kind(c))[n]
           d  == SubIds(c, End)[f.sub]
           x  == Source(sv, c, f.src)
           s  == Start(d) + f.in
           sv1 == Put(sv, s, x)
<1>1. SetRight(sv, t) /\ c \in Components /\ (t + 1) - 1 = t
  BY Constants DEF ValuesAt, Callers, Components
<1>2. /\ d \in Components /\ d # 0 /\ f.in \in In(Kind(d)) /\ FedAt(d, f.in) = t + 1
      /\ SourceSet(c, f.src, t)
  BY <1>1, Scheduled DEF GoodFeed
<1>3. \A e \in Components \ {0} : \A i \in In(Kind(e)) : FedAt(e, i) = t + 1 => e = d /\ i = f.in
  BY Scheduled DEF OnlyFeed
<1>4. Fed(sv, c, n) = sv1
  BY DEF Fed
<1> HIDE DEF f, d
<1>5. x \in Value
  BY <1>1, <1>2, SourceIsValue DEF Keeps
<1>6. f.in \in Offsets(d) /\ s \in Signals
  BY <1>2, InIsOffsets, InSignals
<1>7. Sig(sv, d, f.in) = Unset
  <2>1. SetAt(d, f.in) = t + 1
    BY <1>2, <1>6, SetAtIs
  <2>2. ~(t >= SetAt(d, f.in))
    BY <2>1
  <2> QED
    BY <1>1, <1>2, <1>6, <2>2 DEF SetRight
<1> HIDE DEF x
<1>8. /\ sv1 \in [Signals -> Signal] /\ sv1[s] = x
      /\ \A k \in Signals : k # s => sv1[k] = sv[k]
  <2>1. sv \in [Signals -> Signal]
    BY <1>1 DEF SetRight, Signal
  <2>2. x \in Signal
    BY <1>5 DEF Signal
  <2> HIDE DEF s
  <2> QED
    BY <1>6, <2>1, <2>2 DEF Put
<1> HIDE DEF sv1
<1>9. Keeps(sv, sv1)
  <2>1. sv[s] = Unset
    BY <1>7 DEF Sig
  <2> HIDE DEF s
  <2> QED
    BY <1>8, <2>1 DEF Keeps
<1>10. Sig(sv1, d, f.in) = x
  BY <1>8 DEF Sig
<1>11. ASSUME NEW e \in Components, NEW o \in Offsets(e), e # d \/ o # f.in
       PROVE  Sig(sv1, e, o) = Sig(sv, e, o)
  <2>1. Start(e) + o # s
    BY <1>2, <1>6, <1>11, Apart
  <2>2. Start(e) + o \in Signals
    BY InSignals
  <2> HIDE DEF s
  <2> QED
    BY <1>8, <2>1, <2>2 DEF Sig
<1>12. ASSUME t + 1 = RunAt(d), NEW i \in In(Kind(d)) PROVE Sig(sv1, d, i) # Unset
  <2>1. CASE i = f.in
    BY <1>5, <1>10, <2>1, Constants
  <2>2. CASE i # f.in
    <3>1. i \in Offsets(d) /\ SetAt(d, i) = FedAt(d, i)
      BY <1>2, InIsOffsets, SetAtIs
    <3>2. FedAt(d, i) \in {RunAt(d) - 1, RunAt(d)} /\ FedAt(d, i) # t + 1
      BY <1>2, <1>3, <2>2, FedAtRange
    <3>3. FedAt(d, i) = t
      BY <1>1, <1>12, <3>2
    <3>4. Sig(sv, d, i) # Unset
      BY <1>1, <1>2, <3>1, <3>3 DEF SetRight
    <3>5. Sig(sv1, d, i) = Sig(sv, d, i)
      BY <1>2, <1>11, <2>2, <3>1
    <3> QED
      BY <3>4, <3>5
  <2> QED
    BY <2>1, <2>2
<1>13. ASSUME t + 1 # RunAt(d) PROVE \E i \in In(Kind(d)) : Sig(sv1, d, i) = Unset
  <2> DEFINE i == LastIn(Kind(d))
  <2>1. i \in In(Kind(d)) /\ i \in Offsets(d) /\ FedAt(d, i) = RunAt(d)
    BY <1>2, InIsOffsets DEF FedAt
  <2> HIDE DEF i
  <2>2. i # f.in
    BY <1>2, <1>13, <2>1
  <2>3. FedAt(d, f.in) \in {RunAt(d) - 1, RunAt(d)} /\ RunAt(d) \in Int
    BY <1>2, FedAtRange, RunAtRange
  <2>4. RunAt(d) = t + 2
    BY <1>2, <1>13, <2>3
  <2>5. SetAt(d, i) = t + 2
    BY <1>2, <2>1, <2>4, SetAtIs
  <2>6. ~(t >= SetAt(d, i))
    BY <2>5
  <2>7. Sig(sv, d, i) = Unset
    BY <1>1, <1>2, <2>1, <2>6 DEF SetRight
  <2>8. Sig(sv1, d, i) = Sig(sv, d, i)
    BY <1>2, <1>11, <2>1, <2>2
  <2> QED
    BY <2>1, <2>7, <2>8
<1> QED
  BY <1>4, <1>5, <1>8, <1>9, <1>10, <1>11, <1>12, <1>13 DEF f, d, x

(* The signals when the feed has been made.                                *)
AfterFed(sv, c, n, m) ==
  LET d == SubIds(c, End)[Body(Kind(c))[n].sub]
  IN  IF AfterFeed(c, n) = RunAt(d) /\ Simple(d)
      THEN functionTable(m, Fed(sv, c, n)) ELSE Fed(sv, c, n)

(* After a feed, with the run of a leaf that it may complete, the values   *)
(* are those of the next tick.                                             *)
LEMMA FeedKeepsValues ==
  ASSUME NEW c \in Callers, NEW n \in 1 .. Len(Body(Kind(c))), NEW sv, NEW t \in Int,
         t + 1 = AfterFeed(c, n), ValuesAt(sv, t),
         NEW m, IsRecord(m, SubIds(c, End)[Body(Kind(c))[n].sub])
  PROVE  ValuesAt(AfterFed(sv, c, n, m), t + 1) /\ Keeps(sv, AfterFed(sv, c, n, m))
<1> DEFINE f   == Body(Kind(c))[n]
           d   == SubIds(c, End)[f.sub]
           x   == Source(sv, c, f.src)
           sv1 == Fed(sv, c, n)
           sv2 == AfterFed(sv, c, n, m)
<1>1. SetRight(sv, t) /\ c \in Components /\ (t + 1) - 1 = t
  BY Constants DEF ValuesAt, Callers, Components
<1>2. /\ d \in Components /\ d # 0 /\ f.in \in In(Kind(d)) /\ FedAt(d, f.in) = t + 1
      /\ SourceSet(c, f.src, t)
  BY <1>1, Scheduled DEF GoodFeed
<1>3. /\ x \in Value /\ sv1 \in [Signals -> Signal] /\ Keeps(sv, sv1) /\ Sig(sv1, d, f.in) = x
      /\ \A e \in Components : \A o \in Offsets(e) :
           e # d \/ o # f.in => Sig(sv1, e, o) = Sig(sv, e, o)
      /\ t + 1 = RunAt(d) => \A i \in In(Kind(d)) : Sig(sv1, d, i) # Unset
  <2>1. /\ x \in Value /\ sv1 \in [Signals -> Signal] /\ Keeps(sv, sv1)
        /\ Sig(sv1, d, f.in) = x
        /\ \A e \in Components : \A o \in Offsets(e) :
             e # d \/ o # f.in => Sig(sv1, e, o) = Sig(sv, e, o)
        /\ t + 1 = RunAt(d) <=> \A i \in In(Kind(d)) : Sig(sv1, d, i) # Unset
    BY FedValues
  <2> HIDE DEF x, sv1, d, f
  <2> QED
    BY <2>1
<1>4. ASSUME NEW e \in Components, NEW o \in Offsets(e), SetAt(e, o) = t + 1
      PROVE  e = d /\ (o = f.in \/ (o \notin In(Kind(d)) /\ Simple(d) /\ RunAt(d) = t + 1))
  BY <1>4, SetByFeed
<1> DEFINE runs_d == t + 1 = RunAt(d) /\ Simple(d)
<1>5. sv2 = IF runs_d THEN functionTable(m, sv1) ELSE sv1
  BY DEF AfterFed
<1>6. IsRecord(m, d)
  OBVIOUS
<1>7. ASSUME NEW e \in Components, RunAt(e) = t + 1 PROVE e = d
  BY <1>7, RunByFeed
<1>8. ASSUME NEW e \in Callers, NEW k \in 1 .. Len(Body(Kind(e))), AfterFeed(e, k) = t + 1
      PROVE  e = c /\ k = n
  BY <1>8, AfterFeedIs
<1>9. ASSUME NEW e \in Callers PROVE AfterReturn(e) # t + 1
  BY AfterFeedIs
<1>10. \A w : Wired(w, c, n) <=> Sig(w, d, f.in) = Source(w, c, f.src)
  BY DEF Wired
<1> HIDE DEF f, d, x, sv1, sv2
<1>11. f.in \in Offsets(d)
  BY <1>2, InIsOffsets
(* The signals after the run, if there is one.                             *)
<1>12. /\ sv2 \in [Signals -> Signal]
       /\ \A s \in Signals :
            (runs_d => \A o \in Offsets(d) \ In(Kind(d)) : s # Start(d) + o) => sv2[s] = sv1[s]
       /\ runs_d => /\ Ran(sv2, d)
                    /\ \A o \in Offsets(d) \ In(Kind(d)) : Sig(sv2, d, o) # Unset
  <2>1. CASE runs_d
    <3>1. RunsRight(sv1, functionTable(m, sv1), d)
      BY <1>3, <1>6, <2>1, LeafRuns
    <3> QED
      BY <1>5, <2>1, <3>1 DEF RunsRight
  <2>2. CASE ~runs_d
    BY <1>3, <1>5, <2>2
  <2> QED
    BY <2>1, <2>2
<1>13. ASSUME NEW e \in Components, NEW o \in Offsets(e),
              ~(runs_d /\ e = d /\ o \notin In(Kind(d)))
       PROVE  Sig(sv2, e, o) = Sig(sv1, e, o)
  <2>1. Start(e) + o \in Signals
    BY InSignals
  <2>2. ASSUME runs_d, NEW p \in Offsets(d) \ In(Kind(d)) PROVE Start(e) + o # Start(d) + p
    BY <1>2, <1>13, <2>2, Apart
  <2> QED
    BY <1>12, <2>1, <2>2 DEF Sig
(* An output of the component that runs was not set.                       *)
<1>14. ASSUME runs_d, NEW o \in Offsets(d) \ In(Kind(d))
       PROVE  SetAt(d, o) = t + 1 /\ Sig(sv, d, o) = Unset
  <2>1. SetAt(d, o) = t + 1
    BY <1>2, <1>14, SetAtIs
  <2>2. ~(t >= SetAt(d, o))
    BY <2>1
  <2> QED
    BY <1>1, <1>2, <2>1, <2>2 DEF SetRight
<1>15. Keeps(sv, sv2)
  <2> SUFFICES ASSUME NEW s \in Signals, sv[s] # Unset PROVE sv2[s] = sv[s]
    BY DEF Keeps
  <2>1. sv1[s] = sv[s]
    BY <1>3 DEF Keeps
  <2>2. ASSUME runs_d, NEW o \in Offsets(d) \ In(Kind(d)) PROVE s # Start(d) + o
    BY <1>14, <2>2 DEF Sig
  <2>3. sv2[s] = sv1[s]
    BY <1>12, <2>2
  <2> QED
    BY <2>1, <2>3
<1>16. SetRight(sv2, t + 1)
  <2>1. sv2[0] = 1
    <3>1. 0 \in Signals /\ sv[0] = 1 /\ 1 # Unset
      BY <1>1, Constants DEF SetRight, Signals
    <3> QED
      BY <1>15, <3>1 DEF Keeps
  <2>2. ASSUME NEW e \in Components, NEW o \in Offsets(e)
        PROVE  Sig(sv2, e, o) # Unset <=> t + 1 >= SetAt(e, o)
    <3>1. SetAt(e, o) \in Int
      BY SetAtIs
    <3>2. CASE runs_d /\ e = d /\ o \notin In(Kind(d))
      <4>1. Sig(sv2, e, o) # Unset
        BY <1>12, <3>2
      <4>2. SetAt(e, o) = t + 1
        BY <1>14, <3>2
      <4>3. t + 1 >= SetAt(e, o)
        BY <4>2
      <4> QED
        BY <4>1, <4>3
    <3>3. CASE ~(runs_d /\ e = d /\ o \notin In(Kind(d)))
      <4>1. Sig(sv2, e, o) = Sig(sv1, e, o)
        BY <1>13, <3>3
      <4>2. CASE e = d /\ o = f.in
        <5>1. Sig(sv1, e, o) # Unset
          BY <1>3, <4>2, Constants
        <5>2. SetAt(e, o) = t + 1
          BY <1>2, <1>11, <4>2, SetAtIs
        <5>3. t + 1 >= SetAt(e, o)
          BY <5>2
        <5> QED
          BY <4>1, <5>1, <5>3
      <4>3. CASE ~(e = d /\ o = f.in)
        <5>1. Sig(sv1, e, o) = Sig(sv, e, o)
          BY <1>3, <4>3
        <5>2. SetAt(e, o) # t + 1
          <6> SUFFICES ASSUME SetAt(e, o) = t + 1 PROVE FALSE
            OBVIOUS
          <6>1. e = d /\ (o = f.in \/ (o \notin In(Kind(d)) /\ Simple(d) /\ RunAt(d) = t + 1))
            BY <1>4
          <6> QED
            BY <3>3, <4>3, <6>1
        <5>3. Sig(sv, e, o) # Unset <=> t >= SetAt(e, o)
          BY <1>1 DEF SetRight
        <5>4. t >= SetAt(e, o) <=> t + 1 >= SetAt(e, o)
          BY <3>1, <5>2
        <5> QED
          BY <4>1, <5>1, <5>3, <5>4
      <4> QED
        BY <4>2, <4>3
    <3> QED
      BY <3>2, <3>3
  <2> QED
    BY <1>12, <2>1, <2>2 DEF SetRight, Signal
<1>17. /\ \A e \in Components : Simple(e) /\ RunAt(e) <= t => Ran(sv2, e)
       /\ \A e \in Callers : \A k \in 1 .. Len(Body(Kind(e))) :
            AfterFeed(e, k) <= t => Wired(sv2, e, k)
       /\ \A e \in Callers : AfterReturn(e) <= t => Returned(sv2, e)
  BY <1>15, KeptValues
<1>18. RanRight(sv2, t + 1)
  <2> SUFFICES ASSUME NEW e \in Components, Kind(e) \notin Composite, t + 1 >= RunAt(e)
               PROVE  Ran(sv2, e)
    BY DEF RanRight
  <2>1. RunAt(e) \in Int /\ Simple(e)
    BY RunAtRange DEF Simple
  <2>2. CASE RunAt(e) = t + 1
    <3>1. e = d
      BY <1>7, <2>2
    <3> QED
      BY <1>12, <2>1, <2>2, <3>1
  <2>3. CASE RunAt(e) # t + 1
    <3>1. RunAt(e) <= t
      BY <2>1, <2>3
    <3> QED
      BY <1>17, <2>1, <3>1
  <2> QED
    BY <2>2, <2>3
<1>19. Wired(sv2, c, n)
  <2>1. Sig(sv2, d, f.in) = x
    BY <1>2, <1>3, <1>11, <1>13
  <2>2. Source(sv2, c, f.src) = x
    BY <1>1, <1>2, <1>15, SourceIsValue DEF x
  <2> QED
    BY <1>10, <2>1, <2>2
<1>20. WiredRight(sv2, t + 1)
  <2>1. ASSUME NEW e \in Callers, NEW k \in 1 .. Len(Body(Kind(e))), t + 1 >= AfterFeed(e, k)
        PROVE  Wired(sv2, e, k)
    <3>1. CASE AfterFeed(e, k) = t + 1
      <4>1. e = c /\ k = n
        BY <1>8, <3>1
      <4> QED
        BY <1>19, <4>1
    <3>2. CASE AfterFeed(e, k) # t + 1
      <4>1. AfterFeed(e, k) \in Int
        BY AfterFeedIs
      <4>2. AfterFeed(e, k) <= t
        BY <2>1, <3>2, <4>1
      <4> QED
        BY <1>17, <4>2
    <3> QED
      BY <3>1, <3>2
  <2>2. ASSUME NEW e \in Callers, t + 1 >= AfterReturn(e) PROVE Returned(sv2, e)
    <3>1. AfterReturn(e) \in Int
      BY RunAtRange DEF AfterReturn, Callers
    <3>2. AfterReturn(e) <= t
      BY <1>9, <2>2, <3>1
    <3> QED
      BY <1>17, <3>2
  <2> QED
    BY <2>1, <2>2 DEF WiredRight, Callers
<1> QED
  BY <1>15, <1>16, <1>18, <1>20 DEF ValuesAt, sv2

(* A component with one input is complete after one feed, the others after *)
(* two.                                                                    *)
LEMMA CounterIs ==
  ASSUME NEW c \in Components \ {0}
  PROVE  /\ Counter(Kind(c)) \in {1, 2}
         /\ Counter(Kind(c)) = 1 <=> In(Kind(c)) = {LastIn(Kind(c))}
BY ComponentCases, KindIs DEF Counter, In, LastIn

(* The counter by the clock.                                               *)
LEMMA LeftIs ==
  ASSUME NEW c \in Components \ {0}, NEW t \in Int
  PROVE  /\ t < RunAt(c) - 1 => Left(c, t) = Counter(Kind(c))
         /\ t = RunAt(c) - 1 => Left(c, t) = 1
         /\ t >= RunAt(c) => Left(c, t) = 0
BY RunAtRange DEF Left

(* Components are made and released at a few times only.                   *)
LEMMA LifeIs ==
  /\ \A c \in Components : MadeAt(c) \in {1, 2, 4, 7}
  /\ \A c \in Components : ReleasedAt(c) \in {End + 1, End, Feeds + 8, Feeds + 9}
BY OtherComponents, Constants DEF MadeAt, ReleasedAt, Leaves

(* A feed counts down the component that is fed, and no other.             *)
LEMMA FeedMemory ==
  ASSUME NEW c \in Callers, NEW n \in 1 .. Len(Body(Kind(c))), NEW t \in Int,
         t + 1 = AfterFeed(c, n)
  PROVE  LET d == SubIds(c, End)[Body(Kind(c))[n].sub]
         IN  /\ MemoryAt(d, t + 1) = [MemoryAt(d, t) EXCEPT !.inputCounter = @ - 1]
             /\ \A e \in Components \ {d} : MemoryAt(e, t + 1) = MemoryAt(e, t)
             /\ MemoryAt(d, t).inputCounter - 1 \in {0, 1}
             /\ MemoryAt(d, t).inputCounter - 1 = 0 <=> t + 1 = RunAt(d)
             /\ MemoryAt(d, t).live /\ IsRecord(MemoryAt(d, t), d)
<1> DEFINE f == Body(Kind(c))[n]
           d == SubIds(c, End)[f.sub]
<1>1. /\ d \in Components /\ d # 0 /\ MadeAt(d) < t + 1 /\ t + 1 <= ReleasedAt(d)
      /\ f.in \in In(Kind(d)) /\ FedAt(d, f.in) = t + 1
  BY Scheduled DEF GoodFeed
<1>2. \A e \in Components \ {0} : \A i \in In(Kind(e)) : FedAt(e, i) = t + 1 => e = d /\ i = f.in
  BY Scheduled DEF OnlyFeed
<1>3. t + 1 \in 3 .. End - 1 /\ t + 1 \notin {1, 2, 4, 7, Feeds + 8, Feeds + 9, End}
  BY AfterFeedIs
<1> HIDE DEF f, d
<1>4. ASSUME NEW e \in Components
      PROVE  /\ t + 1 < MadeAt(e) <=> t < MadeAt(e)
             /\ t + 1 < ReleasedAt(e) <=> t < ReleasedAt(e)
             /\ SubIds(e, t + 1) = SubIds(e, t)
  <2>1. t + 1 < MadeAt(e) <=> t < MadeAt(e)
    BY <1>3, LifeIs
  <2>2. t + 1 < ReleasedAt(e) <=> t < ReleasedAt(e)
    BY <1>3, LifeIs, RunAtRange
  <2>3. SubIds(e, t + 1) = SubIds(e, t)
    BY <1>3 DEF SubIds
  <2> QED
    BY <2>1, <2>2, <2>3
<1>5. ASSUME NEW e \in Components \ {d} PROVE Left(e, t + 1) = Left(e, t)
  <2>1. CASE e = 0
    BY <2>1 DEF Left
  <2>2. CASE e # 0
    <3>1. e \in Components \ {0} /\ RunAt(e) \in Int
      BY <2>2, RunAtRange
    <3>2. t + 1 # RunAt(e)
      <4>1. FedAt(e, LastIn(Kind(e))) # t + 1
        BY <1>2, <3>1, InIsOffsets
      <4> QED
        BY <4>1 DEF FedAt
    <3>3. CASE t + 1 = RunAt(e) - 1
      <4>1. In(Kind(e)) = {LastIn(Kind(e))}
        <5> SUFFICES ASSUME NEW i \in In(Kind(e)), i # LastIn(Kind(e)) PROVE FALSE
          BY <3>1, InIsOffsets
        <5>1. FedAt(e, i) = t + 1
          BY <3>3 DEF FedAt
        <5> QED
          BY <1>2, <3>1, <5>1
      <4>2. Counter(Kind(e)) = 1
        BY <3>1, <4>1, CounterIs
      <4>3. t < RunAt(e) - 1
        BY <3>1, <3>3
      <4> QED
        BY <3>1, <3>3, <4>2, <4>3, LeftIs
    <3>4. CASE t + 1 < RunAt(e) - 1
      <4>1. t < RunAt(e) - 1
        BY <3>1, <3>4
      <4> QED
        BY <3>1, <3>4, <4>1, LeftIs
    <3>5. CASE t + 1 > RunAt(e)
      <4>1. t >= RunAt(e) /\ t + 1 >= RunAt(e)
        BY <3>1, <3>5
      <4> QED
        BY <3>1, <4>1, LeftIs
    <3> QED
      BY <3>1, <3>2, <3>3, <3>4, <3>5
  <2> QED
    BY <2>1, <2>2
<1>6. /\ Left(d, t) - 1 = Left(d, t + 1) /\ Left(d, t + 1) \in {0, 1}
      /\ Left(d, t + 1) = 0 <=> t + 1 = RunAt(d)
  <2>1. d \in Components \ {0} /\ RunAt(d) \in Int /\ FedAt(d, f.in) \in {RunAt(d) - 1, RunAt(d)}
    BY <1>1, RunAtRange, FedAtRange
  <2>2. CASE t + 1 = RunAt(d)
    <3>1. t = RunAt(d) - 1 /\ t + 1 >= RunAt(d)
      BY <2>1, <2>2
    <3> QED
      BY <2>1, <2>2, <3>1, LeftIs
  <2>3. CASE t + 1 # RunAt(d)
    <3>1. t + 1 = RunAt(d) - 1 /\ t < RunAt(d) - 1 /\ f.in # LastIn(Kind(d))
      BY <1>1, <2>1, <2>3 DEF FedAt
    <3>2. Counter(Kind(d)) = 2
      BY <1>1, <2>1, <3>1, CounterIs
    <3> QED
      BY <2>1, <2>3, <3>1, <3>2, LeftIs
  <2> QED
    BY <2>2, <2>3
<1>7. ASSUME NEW e \in Components \ {d} PROVE MemoryAt(e, t + 1) = MemoryAt(e, t)
  <2>1. e \in Components
    OBVIOUS
  <2> QED
    BY <1>4, <1>5, <2>1 DEF MemoryAt
<1>8. MadeAt(d) \in Int /\ ReleasedAt(d) \in Int
  BY <1>1, LifeIs, RunAtRange
<1>9. /\ ~(t < MadeAt(d)) /\ ~(t + 1 < MadeAt(d))
      /\ t < ReleasedAt(d) /\ t + 1 < ReleasedAt(d)
  BY <1>1, <1>4, <1>8
<1>10. MemoryAt(d, t) = [kind |-> Kind(d), arg |-> Arg(d), signalStart |-> Start(d),
                         inputCounter |-> Left(d, t), subcomponents |-> SubIds(d, t),
                         live |-> t < ReleasedAt(d)]
  BY <1>9 DEF MemoryAt
<1>11. MemoryAt(d, t + 1) = [kind |-> Kind(d), arg |-> Arg(d), signalStart |-> Start(d),
                             inputCounter |-> Left(d, t + 1), subcomponents |-> SubIds(d, t),
                             live |-> t < ReleasedAt(d)]
  BY <1>1, <1>4, <1>9 DEF MemoryAt
<1>12. MemoryAt(d, t + 1) = [MemoryAt(d, t) EXCEPT !.inputCounter = @ - 1]
  BY <1>6, <1>10, <1>11
<1>13. MemoryAt(d, t).inputCounter = Left(d, t) /\ IsRecord(MemoryAt(d, t), d)
  BY <1>10 DEF IsRecord
<1>14. MemoryAt(d, t).live
  <2> DEFINE live == t < ReleasedAt(d)
  <2>1. live
    BY <1>9
  <2> HIDE DEF live
  <2>2. MemoryAt(d, t).live = live
    BY <1>10 DEF live
  <2> QED
    BY <2>1, <2>2
<1> QED
  BY <1>6, <1>7, <1>12, <1>13, <1>14 DEF d, f

(* Who runs, and where it is.                                              *)
CtxAt(t) ==
  CASE t \in 1 .. 2 \cup Feeds + 9 .. Feeds + 13 -> 0
    [] t \in 3 .. 5 \cup {Feeds + 8}             -> 2
    [] t \in 6 .. Feeds + 7                      -> 3

PosAt(t) ==
  CASE t \in 1 .. 2                -> t - 1
    [] t \in 3 .. 5                -> t - 3
    [] t \in 6 .. Feeds + 7        -> t - 6
    [] t = Feeds + 8               -> 3
    [] t \in Feeds + 9 .. Feeds + 13 -> t - Feeds - 7

(* The phases of the clock.                                                *)
LEMMA ClockCases ==
  ASSUME NEW t \in 0 .. End
  PROVE  \/ t \in {0, End} \/ t \in 1 .. 2 \/ t \in 3 .. 5 \/ t \in 6 .. Feeds + 7
         \/ t = Feeds + 8 \/ t \in Feeds + 9 .. Feeds + 13
BY RunAtRange

(* The stack in each phase.                                                *)
LEMMA StackIs ==
  ASSUME NEW t \in 0 .. End
  PROVE  /\ t \in {0, End} => StackAt(t) = << >>
         /\ t \in 1 .. 2 => StackAt(t) = << Frame(0, t - 1) >>
         /\ t \in 3 .. 5 => StackAt(t) = << Frame(0, 2), Frame(2, t - 3) >>
         /\ t \in 6 .. Feeds + 7 => StackAt(t) = << Frame(0, 2), Frame(2, 3), Frame(3, t - 6) >>
         /\ t = Feeds + 8 => StackAt(t) = << Frame(0, 2), Frame(2, 3) >>
         /\ t \in Feeds + 9 .. Feeds + 13 => StackAt(t) = << Frame(0, t - Feeds - 7) >>
<1>1. t \in {0, End} => StackAt(t) = << >>
  BY RunAtRange DEF StackAt
<1>2. t \in 1 .. 2 => StackAt(t) = << Frame(0, t - 1) >>
  BY RunAtRange DEF StackAt
<1>3. t \in 3 .. 5 => StackAt(t) = << Frame(0, 2), Frame(2, t - 3) >>
  BY RunAtRange DEF StackAt
<1>4. t \in 6 .. Feeds + 7 => StackAt(t) = << Frame(0, 2), Frame(2, 3), Frame(3, t - 6) >>
  BY RunAtRange DEF StackAt
<1>5. t = Feeds + 8 => StackAt(t) = << Frame(0, 2), Frame(2, 3) >>
  BY RunAtRange DEF StackAt
<1>6. t \in Feeds + 9 .. Feeds + 13 => StackAt(t) = << Frame(0, t - Feeds - 7) >>
  BY RunAtRange DEF StackAt
<1> QED
  BY <1>1, <1>2, <1>3, <1>4, <1>5, <1>6

(* The top of the stack in each phase.                                     *)
LEMMA CtxIs ==
  ASSUME NEW t \in 0 .. End
  PROVE  /\ t \in 1 .. 2 => CtxAt(t) = 0 /\ PosAt(t) = t - 1
         /\ t \in 3 .. 5 => CtxAt(t) = 2 /\ PosAt(t) = t - 3
         /\ t \in 6 .. Feeds + 7 => CtxAt(t) = 3 /\ PosAt(t) = t - 6
         /\ t = Feeds + 8 => CtxAt(t) = 2 /\ PosAt(t) = 3
         /\ t \in Feeds + 9 .. Feeds + 13 => CtxAt(t) = 0 /\ PosAt(t) = t - Feeds - 7
<1>1. Feeds \in Nat /\ Feeds >= 48
  BY RunAtRange
<1>2. t \in 1 .. 2 => CtxAt(t) = 0 /\ PosAt(t) = t - 1
  BY <1>1 DEF CtxAt, PosAt
<1>3. t \in 3 .. 5 => CtxAt(t) = 2 /\ PosAt(t) = t - 3
  BY <1>1 DEF CtxAt, PosAt
<1>4. t \in 6 .. Feeds + 7 => CtxAt(t) = 3 /\ PosAt(t) = t - 6
  BY <1>1 DEF CtxAt, PosAt
<1>5. t = Feeds + 8 => CtxAt(t) = 2 /\ PosAt(t) = 3
  BY <1>1 DEF CtxAt, PosAt
<1>6. t \in Feeds + 9 .. Feeds + 13 => CtxAt(t) = 0 /\ PosAt(t) = t - Feeds - 7
  BY <1>1 DEF CtxAt, PosAt
<1> QED
  BY <1>2, <1>3, <1>4, <1>5, <1>6

(* The last element of a short sequence.                                   *)
LEMMA LastOfStack ==
  ASSUME NEW a, NEW b, NEW c
  PROVE  /\ <<a>> # << >> /\ <<a>>[Len(<<a>>)] = a
         /\ <<a, b>> # << >> /\ <<a, b>>[Len(<<a, b>>)] = b
         /\ <<a, b, c>> # << >> /\ <<a, b, c>>[Len(<<a, b, c>>)] = c
OBVIOUS

(* The top of the stack says which statement comes next, and when.         *)
LEMMA TopIs ==
  ASSUME NEW t \in 1 .. End - 1
  PROVE  LET s == StackAt(t)
         IN  /\ s # << >> /\ s[Len(s)] = Frame(CtxAt(t), PosAt(t))
             /\ CtxAt(t) \in Callers /\ PosAt(t) \in Nat
             /\ MadeAt(CtxAt(t)) <= t
             /\ PosAt(t) = 0 <=> t \in {1, 3, 6}
             /\ PosAt(t) \in 1 .. Len(Body(Kind(CtxAt(t)))) => AfterFeed(CtxAt(t), PosAt(t)) = t + 1
             /\ PosAt(t) = Len(Body(Kind(CtxAt(t)))) + 1 => AfterReturn(CtxAt(t)) = t + 1
<1>1. t \in 0 .. End /\ t # 0 /\ t # End /\ Feeds \in Nat /\ Feeds >= 48
  BY RunAtRange
<1>2. CASE t \in 1 .. 2
  <2>1. CtxAt(t) = 0 /\ PosAt(t) = t - 1
    BY <1>1, <1>2, CtxIs
  <2>2. StackAt(t) = << Frame(0, t - 1) >>
    BY <1>1, <1>2, StackIs
  <2>3. MadeAt(0) = 1 /\ AfterReturn(0) = End /\ Len(Body(Kind(0))) = 5 /\ AfterFeed(0, 1) = 3
    BY BodyLengths, Constants DEF MadeAt, AfterReturn, AfterFeed, Leaves
  <2> QED
    BY <1>1, <1>2, <2>1, <2>2, <2>3 DEF Callers
<1>3. CASE t \in 3 .. 5
  <2>1. CtxAt(t) = 2 /\ PosAt(t) = t - 3
    BY <1>1, <1>3, CtxIs
  <2>2. StackAt(t) = << Frame(0, 2), Frame(2, t - 3) >>
    BY <1>1, <1>3, StackIs
  <2>3. MadeAt(2) = 2 /\ Len(Body(Kind(2))) = 2 /\ AfterFeed(2, 1) = 5 /\ AfterFeed(2, 2) = 6
    BY BodyLengths, Constants DEF MadeAt, AfterFeed, Leaves
  <2>4. StackAt(t) # << >> /\ StackAt(t)[Len(StackAt(t))] = Frame(2, t - 3)
    BY <2>2, LastOfStack
  <2>5. PosAt(t) \in 1 .. 2 => AfterFeed(2, t - 3) = t + 1
    BY <1>3, <2>1 DEF AfterFeed
  <2>6. CtxAt(t) \in Callers /\ PosAt(t) \in Nat /\ MadeAt(CtxAt(t)) <= t
    BY <1>3, <2>1, <2>3 DEF Callers
  <2>7. PosAt(t) = 0 <=> t \in {1, 3, 6}
    BY <1>3, <2>1
  <2>8. PosAt(t) \in 1 .. Len(Body(Kind(CtxAt(t)))) => AfterFeed(CtxAt(t), PosAt(t)) = t + 1
    BY <2>1, <2>3, <2>5
  <2>9. PosAt(t) # Len(Body(Kind(CtxAt(t)))) + 1
    BY <1>3, <2>1, <2>3
  <2> QED
    BY <2>1, <2>4, <2>6, <2>7, <2>8, <2>9
<1>4. CASE t \in 6 .. Feeds + 7
  <2>1. CtxAt(t) = 3 /\ PosAt(t) = t - 6
    BY <1>1, <1>4, CtxIs
  <2>2. StackAt(t) = << Frame(0, 2), Frame(2, 3), Frame(3, t - 6) >>
    BY <1>1, <1>4, StackIs
  <2>3. MadeAt(3) = 4 /\ AfterReturn(3) = Feeds + 8 /\ Len(Body(Kind(3))) = Feeds
    BY BodyLengths, Constants DEF MadeAt, AfterReturn, Leaves
  <2>4. AfterFeed(3, t - 6) = t + 1
    BY <1>4 DEF AfterFeed
  <2> QED
    BY <1>1, <1>4, <2>1, <2>2, <2>3, <2>4 DEF Callers
<1>5. CASE t = Feeds + 8
  <2>1. CtxAt(t) = 2 /\ PosAt(t) = 3
    BY <1>1, <1>5, CtxIs
  <2>2. StackAt(t) = << Frame(0, 2), Frame(2, 3) >>
    BY <1>1, <1>5, StackIs
  <2>3. MadeAt(2) = 2 /\ AfterReturn(2) = Feeds + 9 /\ Len(Body(Kind(2))) = 2
    BY BodyLengths, Constants DEF MadeAt, AfterReturn, Leaves
  <2>4. StackAt(t) # << >> /\ StackAt(t)[Len(StackAt(t))] = Frame(2, 3)
    BY <2>2, LastOfStack
  <2>5. CtxAt(t) \in Callers /\ PosAt(t) \in Nat /\ MadeAt(CtxAt(t)) <= t
    BY <1>1, <1>5, <2>1, <2>3 DEF Callers
  <2>6. ~(PosAt(t) = 0) /\ t \notin {1, 3, 6}
    BY <1>1, <1>5, <2>1
  <2>7. PosAt(t) \notin 1 .. Len(Body(Kind(CtxAt(t))))
    <3>1. Len(Body(Kind(CtxAt(t)))) = 2
      BY <2>1, <2>3
    <3>2. 3 \notin 1 .. 2
      OBVIOUS
    <3> QED
      BY <2>1, <3>1, <3>2
  <2>8. AfterReturn(CtxAt(t)) = t + 1
    BY <1>1, <1>5, <2>1, <2>3
  <2> QED
    BY <2>1, <2>4, <2>5, <2>6, <2>7, <2>8
<1>6. CASE t \in Feeds + 9 .. Feeds + 13
  <2>1. CtxAt(t) = 0 /\ PosAt(t) = t - Feeds - 7
    BY <1>1, <1>6, CtxIs
  <2>2. StackAt(t) = << Frame(0, t - Feeds - 7) >>
    BY <1>1, <1>6, StackIs
  <2>3. MadeAt(0) = 1 /\ AfterReturn(0) = End /\ Len(Body(Kind(0))) = 5
    BY BodyLengths, Constants DEF MadeAt, AfterReturn, Leaves
  <2>4. t - Feeds - 7 # 1 => AfterFeed(0, t - Feeds - 7) = t + 1
    BY <1>1, <1>6 DEF AfterFeed
  <2>5. StackAt(t) # << >> /\ StackAt(t)[Len(StackAt(t))] = Frame(0, t - Feeds - 7)
    BY <2>2, LastOfStack
  <2>6. CtxAt(t) \in Callers /\ PosAt(t) \in Nat /\ MadeAt(CtxAt(t)) <= t
    BY <1>1, <1>6, <2>1, <2>3 DEF Callers
  <2>7. ~(PosAt(t) = 0) /\ t \notin {1, 3, 6} /\ PosAt(t) # 1
    BY <1>1, <1>6, <2>1
  <2>8. PosAt(t) \in 1 .. Len(Body(Kind(CtxAt(t)))) => AfterFeed(CtxAt(t), PosAt(t)) = t + 1
    BY <2>1, <2>4, <2>7
  <2>9. PosAt(t) = Len(Body(Kind(CtxAt(t)))) + 1 => AfterReturn(CtxAt(t)) = t + 1
    BY <1>1, <1>6, <2>1, <2>3, RunAtRange
  <2> QED
    BY <2>1, <2>5, <2>6, <2>7, <2>8, <2>9
<1> QED
  BY <1>1, <1>2, <1>3, <1>4, <1>5, <1>6, ClockCases

(* The stack after a step.                                                 *)
AdvancedStack(s) == [s EXCEPT ![Len(s)].pos = @ + 1]

(* Advancing the top of a stack of one, of two and of three.               *)
LEMMA AdvancesOne ==
  ASSUME NEW c, NEW p \in Int
  PROVE  AdvancedStack(<<Frame(c, p)>>) = <<Frame(c, p + 1)>>
BY DEF AdvancedStack, Frame

LEMMA AdvancesTwo ==
  ASSUME NEW a, NEW c, NEW p \in Int
  PROVE  AdvancedStack(<<a, Frame(c, p)>>) = <<a, Frame(c, p + 1)>>
BY DEF AdvancedStack, Frame

LEMMA AdvancesThree ==
  ASSUME NEW a, NEW b, NEW c, NEW p \in Int
  PROVE  AdvancedStack(<<a, b, Frame(c, p)>>) = <<a, b, Frame(c, p + 1)>>
BY DEF AdvancedStack, Frame

(* A sequence with one more element.                                       *)
LEMMA AppendTo ==
  ASSUME NEW X, NEW s \in Seq(X), NEW t \in Seq(X), NEW c \in X, Len(t) = Len(s) + 1,
         \A i \in 1 .. Len(s) : t[i] = s[i], t[Len(s) + 1] = c
  PROVE  Append(s, c) = t
<1> DEFINE u == Append(s, c)
<1>1. u \in Seq(X)
  BY AppendProperties
<1>2. Len(u) = Len(s) + 1
  BY AppendProperties
<1>3. \A i \in 1 .. Len(s) : u[i] = s[i]
  BY AppendProperties
<1>4. u[Len(s) + 1] = c
  BY AppendProperties
<1>5. Len(s) \in Nat
  BY LenProperties
<1> HIDE DEF u
<1>6. \A i \in 1 .. Len(u) : u[i] = t[i]
  BY <1>2, <1>3, <1>4, <1>5
<1>7. u = t
  BY <1>1, <1>2, <1>6, SeqEqual
<1> QED
  BY <1>7 DEF u

LEMMA AppendsToOne ==
  ASSUME NEW a, NEW c
  PROVE  Append(<<a>>, c) = <<a, c>>
<1> DEFINE X == {a, c}
           s == <<a>>
           t == <<a, c>>
<1>1. s \in Seq(X) /\ c \in X /\ Len(s) = 1 /\ s[1] = a
  OBVIOUS
<1>2. t \in Seq(X) /\ Len(t) = 2 /\ t[1] = a /\ t[2] = c
  OBVIOUS
<1> HIDE DEF s, t, X
<1>3. Len(t) = Len(s) + 1 /\ (\A i \in 1 .. Len(s) : t[i] = s[i]) /\ t[Len(s) + 1] = c
  BY <1>1, <1>2
<1>4. s \in Seq(X) /\ t \in Seq(X) /\ c \in X
  BY <1>1, <1>2
<1>5. Append(s, c) = t
  BY <1>3, <1>4, AppendTo
<1> QED
  BY <1>5 DEF s, t

LEMMA AppendsToTwo ==
  ASSUME NEW a, NEW b, NEW c
  PROVE  Append(<<a, b>>, c) = <<a, b, c>>
<1> DEFINE X == {a, b, c}
           s == <<a, b>>
           t == <<a, b, c>>
<1>1. s \in Seq(X) /\ c \in X /\ Len(s) = 2 /\ s[1] = a /\ s[2] = b
  OBVIOUS
<1>2. t \in Seq(X) /\ Len(t) = 3 /\ t[1] = a /\ t[2] = b /\ t[3] = c
  OBVIOUS
<1> HIDE DEF s, t, X
<1>3. Len(t) = Len(s) + 1 /\ (\A i \in 1 .. Len(s) : t[i] = s[i]) /\ t[Len(s) + 1] = c
  BY <1>1, <1>2
<1>4. s \in Seq(X) /\ t \in Seq(X) /\ c \in X
  BY <1>1, <1>2
<1>5. Append(s, c) = t
  BY <1>3, <1>4, AppendTo
<1> QED
  BY <1>5 DEF s, t

(* The stack after a feed: it grows by a component with subcomponents that *)
(* has its last input.                                                     *)
LEMMA FeedStack ==
  ASSUME NEW t \in 1 .. End - 1, PosAt(t) \in 1 .. Len(Body(Kind(CtxAt(t))))
  PROVE  LET d == SubIds(CtxAt(t), End)[Body(Kind(CtxAt(t)))[PosAt(t)].sub]
         IN  StackAt(t + 1) = IF t + 1 = RunAt(d) /\ Kind(d) \in Composite
                              THEN Append(AdvancedStack(StackAt(t)), Frame(d, 0))
                              ELSE AdvancedStack(StackAt(t))
<1> DEFINE c == CtxAt(t)
           n == PosAt(t)
           d == SubIds(c, End)[Body(Kind(c))[n].sub]
<1>1. t \in 0 .. End /\ t + 1 \in 0 .. End /\ t # 0 /\ t # End /\ Feeds \in Nat /\ Feeds >= 48 /\ End = Feeds + 14
  BY RunAtRange
<1>2. c \in Callers /\ n \in 1 .. Len(Body(Kind(c))) /\ AfterFeed(c, n) = t + 1
  BY TopIs
<1>3. /\ d \in Components /\ d # 0
  BY <1>2, Scheduled DEF GoodFeed
<1>4. ASSUME NEW e \in Components, RunAt(e) = t + 1 PROVE e = d
  BY <1>2, <1>4, RunByFeed
<1> HIDE DEF d
<1>5. t + 1 = RunAt(d) /\ Kind(d) \in Composite <=> (t + 1 = 3 /\ d = 2) \/ (t + 1 = 6 /\ d = 3)
  <2>1. 2 \in Components /\ 3 \in Components
    BY Constants DEF Components
  <2> QED
    BY <1>3, <1>4, <2>1, RunAtIs, SimpleIs
<1>6. CASE t \in 1 .. 2
  <2>1. t = 2
    <3>1. c = 0 /\ n = t - 1
      BY <1>1, <1>6, CtxIs
    <3> QED
      BY <1>2, <1>6, <3>1
  <2>2. StackAt(2) = << Frame(0, 1) >> /\ StackAt(3) = << Frame(0, 2), Frame(2, 0) >>
    BY <1>1, <2>1, StackIs
  <2>3. d = 2
    <3>1. 2 \in Components
      BY Constants DEF Components
    <3> QED
      BY <1>4, <2>1, <3>1, RunAtIs
  <2> QED
    <3>1. AdvancedStack(StackAt(t)) = << Frame(0, 1 + 1) >>
      BY <2>1, <2>2, AdvancesOne
    <3>2. Append(<< Frame(0, 2) >>, Frame(2, 0)) = << Frame(0, 2), Frame(2, 0) >>
      BY AppendsToOne
    <3>3. t + 1 = 3 /\ 1 + 1 = 2
      BY <2>1
    <3> QED
      BY <1>5, <2>2, <2>3, <3>1, <3>2, <3>3 DEF d
<1>7. CASE t \in 3 .. 5
  <2>1. t = 4 \/ t = 5
    <3>1. c = 2 /\ n = t - 3
      BY <1>1, <1>7, CtxIs
    <3> QED
      BY <1>2, <1>7, <3>1
  <2>2. /\ StackAt(4) = << Frame(0, 2), Frame(2, 1) >> /\ StackAt(5) = << Frame(0, 2), Frame(2, 2) >>
        /\ StackAt(6) = << Frame(0, 2), Frame(2, 3), Frame(3, 0) >>
    BY <1>1, StackIs
  <2>3. CASE t = 4
    <3>1. ~(t + 1 = RunAt(d) /\ Kind(d) \in Composite)
      BY <1>5, <2>3
    <3> QED
      <4>1. AdvancedStack(StackAt(t)) = << Frame(0, 2), Frame(2, 1 + 1) >>
        BY <2>2, <2>3, AdvancesTwo
      <4>2. t + 1 = 5 /\ 1 + 1 = 2
        BY <2>3
      <4> QED
        BY <2>2, <3>1, <4>1, <4>2 DEF d
  <2>4. CASE t = 5
    <3>1. d = 3
      <4>1. 3 \in Components
        BY Constants DEF Components
      <4> QED
        BY <1>4, <2>4, <4>1, RunAtIs
    <3>2. t + 1 = RunAt(d) /\ Kind(d) \in Composite
      BY <1>5, <2>4, <3>1
    <3> QED
      <4>1. AdvancedStack(StackAt(t)) = << Frame(0, 2), Frame(2, 2 + 1) >>
        BY <2>2, <2>4, AdvancesTwo
      <4>2. Append(<< Frame(0, 2), Frame(2, 3) >>, Frame(3, 0)) = << Frame(0, 2), Frame(2, 3), Frame(3, 0) >>
        BY AppendsToTwo
      <4>3. t + 1 = 6 /\ 2 + 1 = 3
        BY <2>4
      <4> QED
        BY <2>2, <3>1, <3>2, <4>1, <4>2, <4>3 DEF d
  <2> QED
    BY <2>1, <2>3, <2>4
<1>8. CASE t \in 6 .. Feeds + 7
  <2>1. t \in 7 .. Feeds + 6
    <3>1. c = 3 /\ n = t - 6
      BY <1>1, <1>8, CtxIs
    <3> QED
      BY <1>2, <1>8, <3>1, BodyLengths
  <2>2. /\ StackAt(t) = << Frame(0, 2), Frame(2, 3), Frame(3, t - 6) >>
        /\ StackAt(t + 1) = << Frame(0, 2), Frame(2, 3), Frame(3, t + 1 - 6) >>
    BY <1>1, <2>1, StackIs
  <2>3. ~(t + 1 = RunAt(d) /\ Kind(d) \in Composite)
    BY <1>5, <2>1
  <2>4. AdvancedStack(StackAt(t)) = << Frame(0, 2), Frame(2, 3), Frame(3, t - 6 + 1) >>
    BY <1>1, <2>2, AdvancesThree
  <2>5. t - 6 + 1 = t + 1 - 6
    BY <1>1
  <2> QED
    BY <2>2, <2>3, <2>4, <2>5 DEF d
<1>9. CASE t = Feeds + 8
  <2>1. c = 2 /\ n = 3
    BY <1>1, <1>9, CtxIs
  <2> QED
    BY <1>2, <2>1, BodyLengths
<1>10. CASE t \in Feeds + 9 .. Feeds + 13
  <2>1. t \in Feeds + 9 .. Feeds + 12
    <3>1. c = 0 /\ n = t - Feeds - 7
      BY <1>1, <1>10, CtxIs
    <3> QED
      <4>1. t - Feeds - 7 <= 5
        <5>1. Len(Body(Kind(c))) = 5
          BY <3>1, BodyLengths
        <5>2. n <= 5
          BY <1>2, <5>1
        <5> QED
          BY <3>1, <5>2
      <4> QED
        BY <1>1, <1>10, <4>1
  <2>2. /\ StackAt(t) = << Frame(0, t - Feeds - 7) >>
        /\ StackAt(t + 1) = << Frame(0, t + 1 - Feeds - 7) >>
    BY <1>1, <2>1, StackIs
  <2>3. ~(t + 1 = RunAt(d) /\ Kind(d) \in Composite)
    BY <1>1, <1>5, <2>1
  <2>4. AdvancedStack(StackAt(t)) = << Frame(0, t - Feeds - 7 + 1) >>
    BY <1>1, <2>2, AdvancesOne
  <2>5. t - Feeds - 7 + 1 = t + 1 - Feeds - 7
    BY <1>1
  <2> QED
    BY <2>2, <2>3, <2>4, <2>5 DEF d
<1> QED
  BY <1>1, <1>6, <1>7, <1>8, <1>9, <1>10, ClockCases

-----------------------------------------------------------------------------
(* The steps                                                               *)

(* Who is at the top of the stack, and what it has in componentMemory.     *)
LEMMA AtState ==
  ASSUME NEW t \in 1 .. End - 1, StateAt(t)
  PROVE  LET c == CtxAt(t)
         IN  /\ stack # << >> /\ Top.ctx = c /\ Top.pos = PosAt(t)
             /\ Self = MemoryAt(c, t)
             /\ Self.kind = Kind(c) /\ Self.signalStart = Start(c)
             /\ Self.subcomponents = SubIds(c, t)
             /\ PosAt(t) # 0 => SubIds(c, t) = SubIds(c, End)
             /\ Advanced = AdvancedStack(StackAt(t))
             /\ c \in Components
<1> DEFINE c == CtxAt(t)
<1>1. /\ stack = StackAt(t) /\ componentMemory = [d \in Components |-> MemoryAt(d, t)]
  BY DEF StateAt
<1>2. /\ StackAt(t) # << >> /\ StackAt(t)[Len(StackAt(t))] = Frame(c, PosAt(t))
      /\ c \in Callers /\ MadeAt(c) <= t
  BY TopIs
<1>3. c \in Components
  BY <1>2, Constants DEF Callers, Components
<1>4. stack # << >> /\ Top = Frame(c, PosAt(t))
  BY <1>1, <1>2 DEF Top
<1>5. Top.ctx = c /\ Top.pos = PosAt(t)
  BY <1>4 DEF Frame
<1>6. Self = MemoryAt(c, t)
  BY <1>1, <1>3, <1>5 DEF Self
<1>7. MadeAt(c) \in Int /\ ~(t < MadeAt(c))
  BY <1>2, <1>3, LifeIs
<1>8. /\ MemoryAt(c, t).kind = Kind(c) /\ MemoryAt(c, t).signalStart = Start(c)
      /\ MemoryAt(c, t).subcomponents = SubIds(c, t)
  <2> DEFINE live == t < ReleasedAt(c)
  <2>1. MemoryAt(c, t) = [kind |-> Kind(c), arg |-> Arg(c), signalStart |-> Start(c),
                          inputCounter |-> Left(c, t), subcomponents |-> SubIds(c, t),
                          live |-> live]
    BY <1>7 DEF MemoryAt
  <2> HIDE DEF live, c
  <2> QED
    BY <2>1
<1>9. ASSUME PosAt(t) # 0 PROVE SubIds(c, t) = SubIds(c, End)
  <2>1. t \in 0 .. End /\ End >= 62 /\ End \in Int
    BY RunAtRange
  <2>2. t \in 2 .. End
    BY <1>9, <2>1, TopIs
  <2>3. t \notin {3, 6}
    BY <1>9, TopIs
  <2>4. CASE c = 0
    <3>1. SubIds(0, t) = SubIds(0, End)
      BY <2>1, <2>2 DEF SubIds
    <3> QED
      BY <2>4, <3>1
  <2>5. CASE c = 2
    <3>1. t >= 4
      <4>1. ~(t \in 1 .. 2)
        BY <2>1, <2>5, CtxIs
      <4> QED
        BY <2>2, <2>3, <4>1
    <3> QED
      BY <2>1, <2>5, <3>1 DEF SubIds
  <2>6. CASE c = 3
    <3>1. t >= 7 /\ t \in Int
      <4>1. ~(t \in 1 .. 2) /\ ~(t \in 3 .. 5)
        BY <2>1, <2>6, CtxIs
      <4> QED
        BY <2>2, <2>3, <4>1
    <3>2. SubIds(3, t) = SubIds(3, End)
      BY <2>1, <3>1, ExSubIds
    <3> QED
      BY <2>6, <3>2
  <2> QED
    BY <1>2, <2>4, <2>5, <2>6 DEF Callers
<1>10. Advanced = AdvancedStack(StackAt(t))
  BY <1>1 DEF Advanced, AdvancedStack
<1> QED
  BY <1>3, <1>4, <1>5, <1>6, <1>8, <1>9, <1>10

(* The record of a component that was made.                                *)
LEMMA MemoryOf ==
  ASSUME NEW t \in Int, StateAt(t), NEW d \in Components, MadeAt(d) <= t
  PROVE  /\ componentMemory[d] = MemoryAt(d, t)
         /\ componentMemory[d].kind = Kind(d) /\ componentMemory[d].signalStart = Start(d)
         /\ componentMemory[d].inputCounter = Left(d, t)
<1> DEFINE live == t < ReleasedAt(d)
<1>1. MadeAt(d) \in Int /\ ~(t < MadeAt(d))
  BY LifeIs
<1>2. MemoryAt(d, t) = [kind |-> Kind(d), arg |-> Arg(d), signalStart |-> Start(d),
                        inputCounter |-> Left(d, t), subcomponents |-> SubIds(d, t),
                        live |-> live]
  BY <1>1 DEF MemoryAt
<1>3. componentMemory[d] = MemoryAt(d, t)
  BY DEF StateAt
<1> HIDE DEF live
<1> QED
  BY <1>2, <1>3

(* Read reads the source of a wire.                                        *)
LEMMA ReadsSource ==
  ASSUME NEW t \in 1 .. End - 1, StateAt(t), PosAt(t) # 0, NEW src, SourceSet(CtxAt(t), src, t)
  PROVE  Read(src) = Source(signalValues, CtxAt(t), src)
<1> DEFINE c == CtxAt(t)
<1>1. Self.signalStart = Start(c) /\ Self.subcomponents = SubIds(c, End) /\ c \in Components
  BY AtState
<1> HIDE DEF c
<1>2. SourceSet(c, src, t)
  BY DEF c
<1>3. CASE src.sub = -2
  BY <1>3 DEF Read, Source, c
<1>4. CASE src.sub = -1
  BY <1>1, <1>4 DEF Read, Source, Sig, c
<1>5. CASE src.sub \notin {-1, -2}
  <2> DEFINE d == SubIds(c, End)[src.sub]
  <2>1. d \in Components /\ MadeAt(d) <= t
    BY <1>2, <1>5 DEF SourceSet
  <2>2. SubOf(src.sub).signalStart = Start(d)
    <3>1. SubOf(src.sub) = componentMemory[d]
      BY <1>1 DEF SubOf
    <3> HIDE DEF d
    <3> QED
      BY <2>1, <3>1, MemoryOf
  <2>3. Read(src) = Add(signalValues[Start(d) + src.off], src.plus)
    BY <1>5, <2>2 DEF Read
  <2>4. Source(signalValues, c, src) = Add(signalValues[Start(d) + src.off], src.plus)
    BY <1>5 DEF Source, Sig
  <2> QED
    BY <2>3, <2>4 DEF c
<1> QED
  BY <1>3, <1>4, <1>5

(* What a feed does, in terms of the clock.                                *)
LEMMA FeedIs ==
  ASSUME NEW t \in 1 .. End - 1, StateAt(t), FeedNext
  PROVE  LET c  == CtxAt(t)
             n  == PosAt(t)
             f  == Body(Kind(c))[n]
             d  == SubIds(c, End)[f.sub]
             sv == Fed(signalValues, c, n)
         IN  /\ n \in 1 .. Len(Body(Kind(c))) /\ AfterFeed(c, n) = t + 1 /\ d \in Components
             /\ componentMemory' =
                  [componentMemory EXCEPT ![d] = [MemoryAt(d, t) EXCEPT !.inputCounter = @ - 1]]
             /\ failed' = "no"
             /\ runs' = IF t + 1 = RunAt(d) THEN [runs EXCEPT ![d] = @ + 1] ELSE runs
             /\ IF t + 1 = RunAt(d) /\ Kind(d) \in Composite
                THEN /\ stack' = Append(AdvancedStack(StackAt(t)), Frame(d, 0))
                     /\ signalValues' = sv
                ELSE /\ stack' = AdvancedStack(StackAt(t))
                     /\ signalValues' = IF t + 1 = RunAt(d) THEN functionTable(MemoryAt(d, t), sv)
                                        ELSE sv
<1> DEFINE c    == CtxAt(t)
           n    == PosAt(t)
           f    == Body(Kind(c))[n]
           d    == SubIds(c, End)[f.sub]
           sv   == Fed(signalValues, c, n)
           left == MemoryAt(d, t).inputCounter - 1
           ready == \A i \in In(Kind(d)) : Sig(sv, d, i) # Unset
<1>1. /\ Top.pos = n /\ Top.ctx = c /\ Self.kind = Kind(c) /\ Self.signalStart = Start(c)
      /\ Self.subcomponents = SubIds(c, t) /\ (n # 0 => SubIds(c, t) = SubIds(c, End))
      /\ Advanced = AdvancedStack(StackAt(t)) /\ c \in Components
  BY AtState
<1>2. n \in 1 .. Len(Body(Kind(c)))
  BY <1>1 DEF FeedNext
<1>3. c \in Callers /\ AfterFeed(c, n) = t + 1
  BY <1>2, TopIs
<1>4. Self.subcomponents = SubIds(c, End) /\ n # 0
  BY <1>1, <1>2
<1>5. /\ d \in Components /\ d # 0 /\ MadeAt(d) < t + 1 /\ SourceSet(c, f.src, (t + 1) - 1)
      /\ f.asserts = "last" => t + 1 = RunAt(d)
      /\ f.asserts = "notLast" => t + 1 = RunAt(d) - 1
  BY <1>2, <1>3, Scheduled DEF GoodFeed
<1>6. t \in Int /\ (t + 1) - 1 = t /\ RunAt(d) \in Int
  BY <1>5, RunAtRange
<1>7. MadeAt(d) <= t
  <2>1. MadeAt(d) \in Int
    BY <1>5, LifeIs
  <2> HIDE DEF d
  <2> QED
    BY <1>5, <1>6, <2>1
<1>8. SubOf(f.sub) = MemoryAt(d, t) /\ Self.subcomponents[f.sub] = d
  <2>1. componentMemory[d] = MemoryAt(d, t)
    BY <1>5, <1>6, <1>7, MemoryOf
  <2> QED
    BY <1>4, <2>1 DEF SubOf
<1>9. /\ left \in {0, 1}
      /\ left = 0 <=> t + 1 = RunAt(d)
      /\ MemoryAt(d, t).live /\ IsRecord(MemoryAt(d, t), d)
  <2>1. t + 1 = AfterFeed(c, n) /\ t \in Int
    BY <1>3, <1>6
  <2>2. /\ MemoryAt(d, t + 1) = [MemoryAt(d, t) EXCEPT !.inputCounter = @ - 1]
        /\ \A e \in Components \ {d} : MemoryAt(e, t + 1) = MemoryAt(e, t)
        /\ MemoryAt(d, t).inputCounter - 1 \in {0, 1}
        /\ MemoryAt(d, t).inputCounter - 1 = 0 <=> t + 1 = RunAt(d)
        /\ MemoryAt(d, t).live /\ IsRecord(MemoryAt(d, t), d)
    BY <1>2, <1>3, <2>1, FeedMemory
  <2> HIDE DEF d
  <2> QED
    BY <2>2
<1>10. ValuesAt(signalValues, t)
  BY DEF StateAt
<1>11. /\ Source(signalValues, c, f.src) \in Value
       /\ t + 1 = RunAt(d) <=> ready
  BY <1>2, <1>3, <1>6, <1>10, FedValues
<1>12. Read(f.src) = Source(signalValues, c, f.src)
  BY <1>4, <1>5, <1>6, ReadsSource
<1>13. sv = [signalValues EXCEPT ![Start(d) + f.in] = Read(f.src)]
  BY <1>12 DEF Fed, Put
<1>14. MemoryAt(d, t).kind = Kind(d) /\ MemoryAt(d, t).signalStart = Start(d)
  BY <1>9 DEF IsRecord
<1>15. Body(Self.kind)[Top.pos] = f
  BY <1>1
<1> DEFINE m == MemoryAt(d, t)
<1>16. /\ componentMemory' = [componentMemory EXCEPT ![d].inputCounter = left]
       /\ failed' = CASE Read(f.src) = Unset \/ ~m.live -> "undefined"
                        [] f.asserts = "last" /\ left # 0 -> "assert"
                        [] f.asserts = "notLast" /\ left = 0 -> "assert"
                        [] left = 0 /\ ~ready -> "undefined"
                        [] OTHER -> "no"
       /\ runs' = IF left = 0 THEN [runs EXCEPT ![d] = @ + 1] ELSE runs
       /\ IF left = 0 /\ Kind(d) \in Composite
          THEN /\ stack' = Append(Advanced, [ctx |-> d, pos |-> 0])
               /\ signalValues' = sv
          ELSE /\ stack' = Advanced
               /\ signalValues' = IF left = 0 THEN functionTable(m, sv) ELSE sv
  <2> DEFINE sub == SubOf(f.sub)
             sv3 == [signalValues EXCEPT ![sub.signalStart + f.in] = Read(f.src)]
             rdy == \A i \in In(sub.kind) : sv3[sub.signalStart + i] # Unset
  <2>1. sub = m /\ sv3 = sv
    BY <1>8, <1>13, <1>14
  <2>2. rdy <=> ready
    BY <1>8, <1>14, <2>1 DEF Sig
  <2>3. sub.kind = Kind(d) /\ Self.subcomponents[f.sub] = d /\ sub.inputCounter - 1 = left
    BY <1>8, <1>14
  <2>4. /\ componentMemory' = [componentMemory EXCEPT ![Self.subcomponents[f.sub]].inputCounter = sub.inputCounter - 1]
        /\ failed' = CASE Read(f.src) = Unset \/ ~sub.live -> "undefined"
                         [] f.asserts = "last" /\ sub.inputCounter - 1 # 0 -> "assert"
                         [] f.asserts = "notLast" /\ sub.inputCounter - 1 = 0 -> "assert"
                         [] sub.inputCounter - 1 = 0 /\ ~rdy -> "undefined"
                         [] OTHER -> "no"
        /\ runs' = IF sub.inputCounter - 1 = 0 THEN [runs EXCEPT ![Self.subcomponents[f.sub]] = @ + 1] ELSE runs
        /\ IF sub.inputCounter - 1 = 0 /\ sub.kind \in Composite
           THEN /\ stack' = Append(Advanced, [ctx |-> Self.subcomponents[f.sub], pos |-> 0])
                /\ signalValues' = sv3
           ELSE /\ stack' = Advanced
                /\ signalValues' = IF sub.inputCounter - 1 = 0 THEN functionTable(sub, sv3) ELSE sv3
    BY <1>15 DEF FeedNext
  <2> HIDE DEF sub, sv3, rdy, ready, f, d, left, sv, m
  <2> QED
    BY <2>1, <2>2, <2>3, <2>4
<1>17. failed' = "no"
  <2>1. Read(f.src) # Unset
    BY <1>11, <1>12, Constants
  <2>2. f.asserts = "last" => left = 0
    BY <1>5, <1>9
  <2>3. f.asserts = "notLast" => left # 0
    <3> HIDE DEF f, d, left
    <3> QED
      BY <1>5, <1>6, <1>9
  <2>4. left = 0 => ready
    BY <1>9, <1>11
  <2> HIDE DEF f, d, left, sv, m, ready
  <2> QED
    BY <1>9, <1>16, <2>1, <2>2, <2>3, <2>4 DEF m
<1>18. componentMemory' = [componentMemory EXCEPT ![d] = [MemoryAt(d, t) EXCEPT !.inputCounter = @ - 1]]
  <2>1. componentMemory[d] = MemoryAt(d, t)
    BY <1>5, <1>6, <1>7, MemoryOf
  <2> HIDE DEF d
  <2> QED
    BY <1>16, <2>1
<1>19. Frame(d, 0) = [ctx |-> d, pos |-> 0]
  BY DEF Frame
<1>20. runs' = IF t + 1 = RunAt(d) THEN [runs EXCEPT ![d] = @ + 1] ELSE runs
  <2> HIDE DEF f, d, left, sv, m
  <2> QED
    BY <1>9, <1>16
<1>21. IF t + 1 = RunAt(d) /\ Kind(d) \in Composite
       THEN /\ stack' = Append(AdvancedStack(StackAt(t)), Frame(d, 0))
            /\ signalValues' = sv
       ELSE /\ stack' = AdvancedStack(StackAt(t))
            /\ signalValues' = IF t + 1 = RunAt(d) THEN functionTable(MemoryAt(d, t), sv) ELSE sv
  <2> HIDE DEF f, d, left, sv
  <2> QED
    BY <1>1, <1>9, <1>16, <1>19
<1> HIDE DEF f, d, left, sv, m, ready
<1> QED
  BY <1>2, <1>3, <1>5, <1>17, <1>18, <1>20, <1>21 DEF f, d, sv

(* A feed takes the state of one tick to that of the next.                 *)
LEMMA FeedStep ==
  ASSUME NEW t \in 1 .. End - 1, StateAt(t), FeedNext
  PROVE  StateAt(t + 1)' /\ Keeps(signalValues, signalValues')
<1> DEFINE c  == CtxAt(t)
           n  == PosAt(t)
           d  == SubIds(c, End)[Body(Kind(c))[n].sub]
           sv == Fed(signalValues, c, n)
           m  == MemoryAt(d, t)
<1>1. /\ n \in 1 .. Len(Body(Kind(c))) /\ AfterFeed(c, n) = t + 1 /\ d \in Components
      /\ componentMemory' = [componentMemory EXCEPT ![d] = [m EXCEPT !.inputCounter = @ - 1]]
      /\ failed' = "no"
      /\ runs' = IF t + 1 = RunAt(d) THEN [runs EXCEPT ![d] = @ + 1] ELSE runs
      /\ IF t + 1 = RunAt(d) /\ Kind(d) \in Composite
         THEN /\ stack' = Append(AdvancedStack(StackAt(t)), Frame(d, 0))
              /\ signalValues' = sv
         ELSE /\ stack' = AdvancedStack(StackAt(t))
              /\ signalValues' = IF t + 1 = RunAt(d) THEN functionTable(m, sv) ELSE sv
  BY FeedIs
<1>2. c \in Callers
  BY TopIs
<1>3. stack' = StackAt(t + 1)
  <2>1. StackAt(t + 1) = IF t + 1 = RunAt(d) /\ Kind(d) \in Composite
                         THEN Append(AdvancedStack(StackAt(t)), Frame(d, 0))
                         ELSE AdvancedStack(StackAt(t))
    BY <1>1, FeedStack
  <2> DEFINE a == Append(AdvancedStack(StackAt(t)), Frame(d, 0))
             b == AdvancedStack(StackAt(t))
             in == t + 1 = RunAt(d) /\ Kind(d) \in Composite
  <2>2. (in => stack' = a) /\ (~in => stack' = b)
    BY <1>1
  <2>3. StackAt(t + 1) = IF in THEN a ELSE b
    BY <2>1
  <2> HIDE DEF a, b, in
  <2> QED
    BY <2>2, <2>3
<1>4. /\ MemoryAt(d, t + 1) = [m EXCEPT !.inputCounter = @ - 1]
      /\ \A e \in Components \ {d} : MemoryAt(e, t + 1) = MemoryAt(e, t)
      /\ IsRecord(m, d)
  BY <1>1, <1>2, FeedMemory, SMTT(30)
<1>5. /\ componentMemory = [e \in Components |-> MemoryAt(e, t)]
      /\ runs = [e \in Components |-> IF t >= RunAt(e) THEN 1 ELSE 0]
      /\ ValuesAt(signalValues, t)
  BY DEF StateAt
<1>6. componentMemory' = [e \in Components |-> MemoryAt(e, t + 1)]
  <2> HIDE DEF d, m
  <2>1. componentMemory' = [componentMemory EXCEPT ![d] = MemoryAt(d, t + 1)]
    BY <1>1, <1>4
  <2> QED
    BY <1>1, <1>4, <1>5, <2>1
<1>7. runs' = [e \in Components |-> IF t + 1 >= RunAt(e) THEN 1 ELSE 0]
  <2>1. \A e \in Components : RunAt(e) = t + 1 => e = d
    BY <1>1, <1>2, RunByFeed
  <2>2. \A e \in Components : RunAt(e) \in Int
    BY RunAtRange
  <2> HIDE DEF d, m
  <2>3. CASE t + 1 = RunAt(d)
    <3>1. runs' = [runs EXCEPT ![d] = @ + 1] /\ runs[d] = 0
      BY <1>1, <1>5, <2>3
    <3>2. \A e \in Components : e # d => (t + 1 >= RunAt(e) <=> t >= RunAt(e))
      BY <2>1, <2>2
    <3>3. runs' = [runs EXCEPT ![d] = 1]
      BY <3>1
    <3> QED
      BY <1>1, <1>5, <2>3, <3>2, <3>3
  <2>4. CASE t + 1 # RunAt(d)
    <3>1. \A e \in Components : t + 1 >= RunAt(e) <=> t >= RunAt(e)
      BY <2>1, <2>2, <2>4
    <3> QED
      BY <1>1, <1>5, <2>4, <3>1
  <2> QED
    BY <2>3, <2>4
<1>8. signalValues' = AfterFed(signalValues, c, n, m)
  <2>1. Kind(d) \in Composite <=> ~Simple(d)
    BY <1>1 DEF Simple
  <2>2. AfterFed(signalValues, c, n, m) =
          IF t + 1 = RunAt(d) /\ Simple(d) THEN functionTable(m, sv) ELSE sv
    BY <1>1 DEF AfterFed
  <2> HIDE DEF d, sv, m, n, c
  <2> QED
    BY <1>1, <2>1, <2>2
<1>9. ValuesAt(signalValues', t + 1) /\ Keeps(signalValues, signalValues')
  BY <1>1, <1>2, <1>4, <1>5, <1>8, FeedKeepsValues, SMTT(30)
<1> QED
  BY <1>1, <1>3, <1>6, <1>7, <1>9 DEF StateAt

(* When the components that are not leaves are made and released.          *)
LEMMA MadeIs ==
  /\ MadeAt(0) = 1 /\ MadeAt(1) = 2 /\ MadeAt(2) = 2 /\ MadeAt(3) = 4 /\ MadeAt(36 + 2 * RP) = 2
  /\ ReleasedAt(0) = End + 1 /\ ReleasedAt(1) = End /\ ReleasedAt(2) = End
  /\ ReleasedAt(3) = Feeds + 9 /\ ReleasedAt(36 + 2 * RP) = End
<1>1. MadeAt(0) = 1 /\ MadeAt(1) = 2 /\ MadeAt(2) = 2 /\ MadeAt(3) = 4 /\ MadeAt(36 + 2 * RP) = 2
  BY Constants DEF MadeAt, Leaves
<1>2. /\ ReleasedAt(0) = End + 1 /\ ReleasedAt(1) = End /\ ReleasedAt(2) = End
      /\ ReleasedAt(3) = Feeds + 9 /\ ReleasedAt(36 + 2 * RP) = End
  BY Constants DEF ReleasedAt, Leaves
<1> QED
  BY <1>1, <1>2

(* Nothing is set, run or fed at the times of Run and Create.              *)
Quiet(u) ==
  /\ \A c \in Components : RunAt(c) = u => c = 0
  /\ \A c \in Components : \A o \in Offsets(c) : SetAt(c, o) # u
  /\ \A c \in Callers : \A n \in 1 .. Len(Body(Kind(c))) : AfterFeed(c, n) # u
  /\ \A c \in Callers : AfterReturn(c) # u

(* At the calls of create, and of run, no feed or return ends.             *)
LEMMA QuietTimes ==
  ASSUME NEW u \in {1, 2, 4, 7}
  PROVE  Quiet(u) /\ \A c \in Components \ {0, 2} : RunAt(c) # u /\ RunAt(c) - 1 # u
<1>1. Feeds \in Nat /\ Feeds >= 48 /\ End = Feeds + 14
  BY RunAtRange
<1>2. ASSUME NEW c \in Components, c # 0
      PROVE  /\ RunAt(c) # u /\ (c # 2 => RunAt(c) - 1 # u)
             /\ \A i \in In(Kind(c)) : FedAt(c, i) # u
  <2>1. CASE c \in Leaves
    <3>1. RunAt(c) \in 9 .. Feeds + 7 /\ \A i \in In(Kind(c)) : FedAt(c, i) \in 8 .. Feeds + 7
      BY <2>1, LeafFacts
    <3> QED
      BY <1>1, <3>1
  <2>2. CASE c = 1
    BY <1>1, <2>2, OthersFed, RunAtIs
  <2>3. CASE c = 2
    BY <1>1, <2>3, OthersFed, RunAtIs
  <2>4. CASE c = 3
    BY <1>1, <2>4, OthersFed, RunAtIs
  <2>5. CASE c = 36 + 2 * RP
    <3>1. RunAt(36 + 2 * RP) = Feeds + 13
      BY RunAtIs
    <3>2. \A i \in In(Kind(36 + 2 * RP)) : FedAt(36 + 2 * RP, i) \in {Feeds + 12, Feeds + 13}
      BY OthersFed
    <3> QED
      BY <1>1, <2>5, <3>1, <3>2
  <2> QED
    BY <1>2, <2>1, <2>2, <2>3, <2>4, <2>5, OtherComponents
<1>3. ASSUME NEW c \in Components, NEW o \in Offsets(c) PROVE SetAt(c, o) # u
  <2>1. CASE c = 0
    BY <1>1, <2>1, SetAtIs
  <2>2. CASE c # 0 /\ o \in In(Kind(c))
    BY <1>2, <2>2, SetAtIs
  <2>3. CASE c \in {2, 3} /\ o \notin In(Kind(c))
    BY <1>1, <2>3, SetAtIs
  <2>4. CASE Simple(c) /\ o \notin In(Kind(c))
    <3>1. c # 0
      BY <2>4, SimpleIs
    <3> QED
      BY <1>2, <2>4, <3>1, SetAtIs
  <2> QED
    BY <2>1, <2>2, <2>3, <2>4, SimpleIs
<1>4. ASSUME NEW c \in Callers, NEW n \in 1 .. Len(Body(Kind(c))) PROVE AfterFeed(c, n) # u
  BY AfterFeedIs
<1>5. ASSUME NEW c \in Callers PROVE AfterReturn(c) # u
  BY <1>1 DEF AfterReturn, Callers
<1>6. Quiet(u)
  BY <1>2, <1>3, <1>4, <1>5 DEF Quiet
<1> QED
  BY <1>2, <1>6

(* There the values stay as they are.                                      *)
LEMMA QuietValues ==
  ASSUME NEW sv, NEW t \in Int, ValuesAt(sv, t), Quiet(t + 1)
  PROVE  ValuesAt(sv, t + 1)
<1>1. SetRight(sv, t) /\ RanRight(sv, t) /\ WiredRight(sv, t)
  BY DEF ValuesAt
<1>2. SetRight(sv, t + 1)
  <2>1. ASSUME NEW c \in Components, NEW o \in Offsets(c)
        PROVE  Sig(sv, c, o) # Unset <=> t + 1 >= SetAt(c, o)
    <3>1. SetAt(c, o) \in Int /\ SetAt(c, o) # t + 1
      BY SetAtIs DEF Quiet
    <3>2. Sig(sv, c, o) # Unset <=> t >= SetAt(c, o)
      BY <1>1 DEF SetRight
    <3> QED
      BY <3>1, <3>2
  <2> QED
    BY <1>1, <2>1 DEF SetRight
<1>3. RanRight(sv, t + 1)
  <2> SUFFICES ASSUME NEW c \in Components, Kind(c) \notin Composite, t + 1 >= RunAt(c)
               PROVE  Ran(sv, c)
    BY DEF RanRight
  <2>1. RunAt(c) \in Int /\ RunAt(c) # t + 1
    BY RunAtRange, SimpleIs DEF Quiet
  <2>2. t >= RunAt(c)
    BY <2>1
  <2> QED
    BY <1>1, <2>2 DEF RanRight
<1>4. WiredRight(sv, t + 1)
  <2>1. ASSUME NEW c \in Callers, NEW n \in 1 .. Len(Body(Kind(c))), t + 1 >= AfterFeed(c, n)
        PROVE  Wired(sv, c, n)
    <3>1. AfterFeed(c, n) \in Int /\ AfterFeed(c, n) # t + 1
      BY AfterFeedIs DEF Quiet
    <3>2. t >= AfterFeed(c, n)
      BY <2>1, <3>1
    <3> QED
      BY <1>1, <3>2 DEF WiredRight, Callers
  <2>2. ASSUME NEW c \in Callers, t + 1 >= AfterReturn(c) PROVE Returned(sv, c)
    <3>1. AfterReturn(c) \in Int /\ AfterReturn(c) # t + 1
      BY RunAtRange DEF Quiet, AfterReturn, Callers
    <3>2. t >= AfterReturn(c)
      BY <2>2, <3>1
    <3> QED
      BY <1>1, <3>2 DEF WiredRight, Callers
  <2> QED
    BY <2>1, <2>2 DEF WiredRight, Callers
<1> QED
  BY <1>2, <1>3, <1>4 DEF ValuesAt

(* A component that is neither made nor released nor counted down.         *)
LEMMA SameMemory ==
  ASSUME NEW e \in Components, NEW t \in Int, MadeAt(e) # t + 1, ReleasedAt(e) # t + 1,
         Left(e, t + 1) = Left(e, t), SubIds(e, t + 1) = SubIds(e, t)
  PROVE  MemoryAt(e, t + 1) = MemoryAt(e, t)
<1>1. MadeAt(e) \in Int /\ ReleasedAt(e) \in Int
  BY LifeIs, RunAtRange
<1>2. /\ t + 1 < MadeAt(e) <=> t < MadeAt(e)
      /\ t + 1 < ReleasedAt(e) <=> t < ReleasedAt(e)
  BY <1>1
<1> QED
  BY <1>2 DEF MemoryAt

(* The counter of a component that is not fed stays as it is.              *)
LEMMA SameLeft ==
  ASSUME NEW e \in Components \ {0}, NEW t \in Int, RunAt(e) # t + 1, RunAt(e) - 1 # t + 1
  PROVE  Left(e, t + 1) = Left(e, t)
<1>1. RunAt(e) \in Int
  BY RunAtRange
<1>2. CASE t + 1 < RunAt(e) - 1
  <2>1. t < RunAt(e) - 1
    BY <1>1, <1>2
  <2> QED
    BY <1>2, <2>1, LeftIs
<1>3. CASE t + 1 > RunAt(e)
  <2>1. t >= RunAt(e) /\ t + 1 >= RunAt(e)
    BY <1>1, <1>3
  <2> QED
    BY <2>1, LeftIs
<1> QED
  BY <1>1, <1>2, <1>3

(* run takes the first state to that of the first tick.                    *)
LEMMA RunStep ==
  ASSUME StateAt(0), Run
  PROVE  StateAt(1)' /\ Keeps(signalValues, signalValues')
<1>1. 0 \in Components /\ RunAt(0) = 1 /\ Kind(0) = "Auth" /\ Start(0) = 1 /\ Arg(0) = 0 /\ MadeAt(0) = 1
      /\ ReleasedAt(0) = End + 1 /\ SubIds(0, 1) = << >> /\ Left(0, 1) = Counter("Auth")
  <2>1. 0 \in Components /\ Kind(0) = "Auth"
    BY KindIs, Constants DEF Components
  <2>2. RunAt(0) = 1 /\ Start(0) = 1
    BY <2>1, RunAtIs, StartIs
  <2>3. Arg(0) = 0
    BY <2>1 DEF Arg
  <2>4. MadeAt(0) = 1 /\ ReleasedAt(0) = End + 1
    BY MadeIs
  <2>5. SubIds(0, 1) = << >>
    BY DEF SubIds
  <2>6. Left(0, 1) = Counter("Auth")
    BY <2>1, <2>2 DEF Left
  <2> QED
    BY <2>1, <2>2, <2>3, <2>4, <2>5, <2>6
<1>2. /\ componentMemory = [c \in Components |-> MemoryAt(c, 0)]
      /\ runs = [c \in Components |-> IF 0 >= RunAt(c) THEN 1 ELSE 0]
      /\ failed = "no" /\ ValuesAt(signalValues, 0)
  BY DEF StateAt
<1>3. /\ componentMemory' = [componentMemory EXCEPT ![0] = NewComponent(Place("Auth", 0, 1, 0), 1)]
      /\ stack' = << [ctx |-> 0, pos |-> 0] >> /\ runs' = [runs EXCEPT ![0] = 1]
      /\ signalValues' = signalValues /\ failed' = failed
  BY DEF Run
<1>4. stack' = StackAt(1)
  <2>1. StackAt(1) = << Frame(0, 1 - 1) >>
    BY RunAtRange, StackIs
  <2> QED
    BY <1>3, <2>1 DEF Frame
<1>5. componentMemory' = [c \in Components |-> MemoryAt(c, 1)]
  <2>1. ASSUME NEW c \in Components, c # 0 PROVE MemoryAt(c, 1) = MemoryAt(c, 0)
    <3>1. MadeAt(c) \in {2, 4, 7}
      BY <2>1, OtherComponents, Constants DEF MadeAt, Leaves
    <3> QED
      BY <3>1 DEF MemoryAt
  <2>2. NewComponent(Place("Auth", 0, 1, 0), 1) = MemoryAt(0, 1)
    <3>1. (1 < ReleasedAt(0)) = TRUE /\ ~(1 < MadeAt(0))
      BY <1>1, RunAtRange
    <3> QED
      BY <1>1, <3>1 DEF NewComponent, Place, MemoryAt
  <2> QED
    BY <1>1, <1>2, <1>3, <2>1, <2>2
<1>6. runs' = [c \in Components |-> IF 1 >= RunAt(c) THEN 1 ELSE 0]
  <2>1. \A c \in Components : RunAt(c) \in Int /\ (c # 0 => RunAt(c) >= 3)
    BY RunAtRange
  <2>2. \A c \in Components : c # 0 => ~(0 >= RunAt(c)) /\ ~(1 >= RunAt(c))
    BY <2>1
  <2> QED
    BY <1>1, <1>2, <1>3, <2>2
<1>7. ValuesAt(signalValues, 0 + 1)
  <2>1. Quiet(0 + 1)
    BY QuietTimes
  <2> QED
    BY <1>2, <2>1, QuietValues
<1>8. ValuesAt(signalValues', 1)
  BY <1>3, <1>7
<1>9. Keeps(signalValues, signalValues')
  BY <1>3 DEF Keeps
<1> QED
  BY <1>2, <1>3, <1>4, <1>5, <1>6, <1>8, <1>9 DEF StateAt

(* The subcomponents that a run function creates, at the clock t.          *)
MadeId(c, k) == c + 1 + Subs(Kind(c))[k].c

MakesRight(c, t) ==
  LET subs == Subs(Kind(c))
  IN  /\ SubIds(c, t + 1) = [k \in DOMAIN subs |-> MadeId(c, k)]
      /\ \A k \in DOMAIN subs :
           /\ MadeId(c, k) \in Components \ {0} /\ MadeId(c, k) # c /\ MadeAt(MadeId(c, k)) = t + 1
           /\ subs[k].kind = Kind(MadeId(c, k)) /\ subs[k].arg = Arg(MadeId(c, k))
           /\ Start(c) + subs[k].s = Start(MadeId(c, k))
      /\ \A e \in Components : MadeAt(e) = t + 1 => \E k \in DOMAIN subs : MadeId(c, k) = e

(* The components that Auth creates.                                       *)
LEMMA AuthMakes == MakesRight(0, 1)
<1>1. Subs(Kind(0)) = AuthSubs
  BY KindIs DEF Subs
<1>2. /\ DOMAIN AuthSubs = 0 .. 2
      /\ AuthSubs[0] = Place("Poseidon", 0, 8, 1) /\ AuthSubs[1] = Place("IsEqual", 0, 5, 0)
      /\ AuthSubs[2] = Place("IsEqual", 0, 140 + 8 * RP, 35 + 2 * RP)
  BY DEF AuthSubs, hasher, hashCheck, roleCheck
<1>3. MadeId(0, 0) = 2 /\ MadeId(0, 1) = 1 /\ MadeId(0, 2) = 36 + 2 * RP
  BY <1>1, <1>2, Constants DEF MadeId, Place
<1>4. SubIds(0, 2) = [k \in 0 .. 2 |-> IF k = 2 THEN 36 + 2 * RP ELSE 2 - k]
  BY DEF SubIds
<1>5. SubIds(0, 1 + 1) = [k \in DOMAIN Subs(Kind(0)) |-> MadeId(0, k)]
  <2>1. \A k \in 0 .. 2 : MadeId(0, k) = IF k = 2 THEN 36 + 2 * RP ELSE 2 - k
    BY <1>3
  <2> QED
    BY <1>1, <1>2, <1>4, <2>1
<1>6. /\ 1 \in Components /\ 2 \in Components /\ 36 + 2 * RP \in Components /\ 36 + 2 * RP # 0
      /\ MadeAt(1) = 2 /\ MadeAt(2) = 2 /\ MadeAt(36 + 2 * RP) = 2
  BY MadeIs, Constants DEF Components
<1>7. /\ Kind(1) = "IsEqual" /\ Kind(2) = "Poseidon" /\ Kind(36 + 2 * RP) = "IsEqual"
      /\ Arg(1) = 0 /\ Arg(2) = 0 /\ Arg(36 + 2 * RP) = 0
  BY KindIs DEF Arg
<1>8. /\ Start(0) = 1 /\ Start(1) = 6 /\ Start(2) = 9
      /\ Start(36 + 2 * RP) = 1 + (140 + 8 * RP)
  <2>1. Start(36 + 2 * RP) = 4 * (36 + 2 * RP) - 3
    BY <1>6, StartIs
  <2>2. 0 \in Components
    BY Constants DEF Components
  <2> QED
    BY <1>6, <2>1, <2>2, StartIs, Constants
<1>9. ASSUME NEW e \in Components, MadeAt(e) = 2 PROVE e \in {1, 2, 36 + 2 * RP}
  <2>1. e \notin Leaves
    BY <1>9, LeafFacts
  <2>2. e # 0 /\ e # 3
    BY <1>9, MadeIs
  <2> QED
    BY <2>1, <2>2, OtherComponents
<1>10. ASSUME NEW k \in 0 .. 2
       PROVE  /\ MadeId(0, k) \in Components \ {0} /\ MadeAt(MadeId(0, k)) = 1 + 1
              /\ AuthSubs[k].kind = Kind(MadeId(0, k)) /\ AuthSubs[k].arg = Arg(MadeId(0, k))
              /\ Start(0) + AuthSubs[k].s = Start(MadeId(0, k))
  <2>1. CASE k = 0
    BY <1>2, <1>3, <1>6, <1>7, <1>8, <2>1 DEF Place
  <2>2. CASE k = 1
    BY <1>2, <1>3, <1>6, <1>7, <1>8, <2>2 DEF Place
  <2>3. CASE k = 2
    BY <1>2, <1>3, <1>6, <1>7, <1>8, <2>3 DEF Place
  <2> QED
    BY <2>1, <2>2, <2>3
<1>11. ASSUME NEW e \in Components, MadeAt(e) = 1 + 1
       PROVE  \E k \in 0 .. 2 : MadeId(0, k) = e
  BY <1>3, <1>9, <1>11
<1> QED
  BY <1>1, <1>2, <1>5, <1>10, <1>11 DEF MakesRight

(* The one that Poseidon creates.                                          *)
LEMMA PoseidonMakes == MakesRight(2, 3)
<1>1. Subs(Kind(2)) = [k \in {0} |-> Place("PoseidonEx", 0, 2, 0)]
  BY KindIs DEF Subs
<1>2. MadeId(2, 0) = 3
  BY <1>1 DEF MadeId, Place
<1>3. SubIds(2, 3 + 1) = [k \in {0} |-> 3]
  BY DEF SubIds
<1>4. SubIds(2, 3 + 1) = [k \in DOMAIN Subs(Kind(2)) |-> MadeId(2, k)]
  BY <1>1, <1>2, <1>3
<1>5. 3 \in Components /\ 2 \in Components /\ MadeAt(3) = 4 /\ Kind(3) = "PoseidonEx" /\ Arg(3) = 0
  BY KindIs, MadeIs, Constants DEF Components, Arg
<1>6. Start(2) = 9 /\ Start(3) = 11
  BY <1>5, StartIs
<1>7. ASSUME NEW e \in Components, MadeAt(e) = 3 + 1 PROVE e = 3
  <2>1. e \notin Leaves
    BY <1>7, LeafFacts
  <2>2. e \notin {0, 1, 2, 36 + 2 * RP}
    BY <1>7, MadeIs
  <2> QED
    BY <2>1, <2>2, OtherComponents
<1> QED
  BY <1>1, <1>2, <1>4, <1>5, <1>6, <1>7 DEF MakesRight, Place

(* Those that PoseidonEx creates.                                          *)
LEMMA PoseidonExMakes == MakesRight(3, 6)
<1>1. Subs(Kind(3)) = PoseidonExSubs /\ DOMAIN PoseidonExSubs = 0 .. mixLast
  BY KindIs, SubsAre DEF Subs
<1>2. ASSUME NEW k \in 0 .. mixLast PROVE MadeId(3, k) = Id(k)
  <2> DEFINE e == Id(k)
  <2>1. e \in Leaves /\ Index(e) = k
    BY SubsAreLeaves
  <2> HIDE DEF e
  <2>2. PoseidonExSubs[k] = Place(Kind(e), Arg(e), Start(e) - 11, e - 4) /\ e \in Int
    BY <2>1, LeavesAreSubs DEF Leaves
  <2>3. PoseidonExSubs[k].c = e - 4
    BY <2>2 DEF Place
  <2>4. MadeId(3, k) = 3 + 1 + PoseidonExSubs[k].c
    BY <1>1 DEF MadeId
  <2> QED
    BY <2>2, <2>3, <2>4 DEF e
<1>3. SubIds(3, 6 + 1) = [k \in DOMAIN Subs(Kind(3)) |-> MadeId(3, k)]
  <2>1. SubIds(3, 6 + 1) = [k \in 0 .. mixLast |-> Id(k)]
    BY ExSubIds
  <2> QED
    BY <1>1, <1>2, <2>1
<1>4. ASSUME NEW k \in 0 .. mixLast
      PROVE  /\ MadeId(3, k) \in Components \ {0} /\ MadeId(3, k) # 3 /\ MadeAt(MadeId(3, k)) = 6 + 1
             /\ PoseidonExSubs[k].kind = Kind(MadeId(3, k)) /\ PoseidonExSubs[k].arg = Arg(MadeId(3, k))
             /\ Start(3) + PoseidonExSubs[k].s = Start(MadeId(3, k))
  <2> DEFINE e == Id(k)
  <2>1. MadeId(3, k) = e /\ e \in Leaves /\ Index(e) = k
    BY <1>2, SubsAreLeaves
  <2> HIDE DEF e
  <2>2. PoseidonExSubs[k] = Place(Kind(e), Arg(e), Start(e) - 11, e - 4)
    BY <2>1, LeavesAreSubs
  <2>3. e \in Components /\ e # 0 /\ MadeAt(e) = 7 /\ e # 3
    BY <2>1, LeafFacts, Constants DEF Leaves
  <2>4. Start(3) = 11 /\ Start(e) \in Int
    <3>1. 3 \in Components
      BY Constants DEF Components
    <3> QED
      BY <2>3, <3>1, StartIs, InSignals, InIsOffsets
  <2>5. 11 + (Start(e) - 11) = Start(e)
    BY <2>4
  <2> QED
    BY <2>1, <2>2, <2>3, <2>4, <2>5 DEF Place
<1>5. ASSUME NEW e \in Components, MadeAt(e) = 6 + 1
      PROVE  \E k \in 0 .. mixLast : MadeId(3, k) = e
  <2>1. e \in Leaves
    <3>1. e \notin {0, 1, 2, 3, 36 + 2 * RP}
      BY <1>5, MadeIs
    <3> QED
      BY <3>1, OtherComponents
  <2>2. Index(e) \in 0 .. mixLast /\ Id(Index(e)) = e
    BY <2>1, LeavesAreSubs
  <2> QED
    BY <1>2, <2>2
<1> QED
  BY <1>1, <1>3, <1>4, <1>5 DEF MakesRight

(* What create leaves in componentMemory.                                  *)
LEMMA CreateMemory ==
  ASSUME NEW c \in Callers, NEW t \in {1, 3, 6}, MakesRight(c, t),
         (c = 0 /\ t = 1) \/ (c = 2 /\ t = 3) \/ (c = 3 /\ t = 6), NEW e \in Components
  PROVE  /\ e = c => MemoryAt(e, t + 1) = [MemoryAt(c, t) EXCEPT !.subcomponents = SubIds(c, t + 1)]
         /\ \A k \in DOMAIN Subs(Kind(c)) : MadeId(c, k) = e =>
              MemoryAt(e, t + 1) = NewComponent(Subs(Kind(c))[k], Start(c) + Subs(Kind(c))[k].s)
         /\ e # c /\ MadeAt(e) # t + 1 => MemoryAt(e, t + 1) = MemoryAt(e, t)
<1> DEFINE subs == Subs(Kind(c))
<1>1. /\ Feeds \in Nat /\ Feeds >= 48 /\ End = Feeds + 14 /\ t + 1 \in {2, 4, 7} /\ t \in Int
      /\ c \in Components /\ MadeAt(c) <= t /\ (c = 0 \/ RunAt(c) <= t)
  <2>1. /\ Feeds \in Nat /\ Feeds >= 48 /\ End = Feeds + 14 /\ t + 1 \in {2, 4, 7} /\ t \in Int
        /\ c \in Components
    BY RunAtRange, Constants DEF Callers, Components
  <2>2. MadeAt(c) <= t /\ (c = 0 \/ RunAt(c) <= t)
    BY <2>1, MadeIs, RunAtIs
  <2> QED
    BY <2>1, <2>2
<1>2. \A d \in Components : MadeAt(d) \in Int /\ ReleasedAt(d) \in Int /\ ReleasedAt(d) > t + 1
  BY <1>1, LifeIs
<1>3. ASSUME e = c
      PROVE  MemoryAt(e, t + 1) = [MemoryAt(c, t) EXCEPT !.subcomponents = SubIds(c, t + 1)]
  <2>1. Left(c, t + 1) = Left(c, t)
    <3>1. CASE c = 0
      BY <3>1 DEF Left
    <3>2. CASE c # 0
      <4>1. RunAt(c) \in Int /\ RunAt(c) <= t /\ t >= RunAt(c) /\ t + 1 >= RunAt(c)
        BY <1>1, <3>2, RunAtRange
      <4> QED
        BY <1>1, <3>2, <4>1, LeftIs
    <3> QED
      BY <3>1, <3>2
  <2>2. ~(t < MadeAt(c)) /\ ~(t + 1 < MadeAt(c)) /\ t < ReleasedAt(c) /\ t + 1 < ReleasedAt(c)
    BY <1>1, <1>2
  <2> QED
    BY <1>3, <2>1, <2>2 DEF MemoryAt
<1>4. ASSUME NEW k \in DOMAIN subs, MadeId(c, k) = e
      PROVE  MemoryAt(e, t + 1) = NewComponent(subs[k], Start(c) + subs[k].s)
  <2>1. /\ e # 0 /\ e # c /\ MadeAt(e) = t + 1
        /\ subs[k].kind = Kind(e) /\ subs[k].arg = Arg(e) /\ Start(c) + subs[k].s = Start(e)
    BY <1>4 DEF MakesRight
  <2>2. Left(e, t + 1) = Counter(Kind(e))
    <3>1. CASE e = 2
      <4>1. RunAt(2) = 3 /\ MadeAt(2) = 2
        BY <1>1, <3>1, RunAtIs, MadeIs
      <4>2. Counter(Kind(2)) = 1
        BY KindIs DEF Counter
      <4>3. t + 1 = RunAt(e) - 1
        BY <2>1, <3>1, <4>1
      <4> QED
        BY <1>1, <2>1, <3>1, <4>2, <4>3, LeftIs
    <3>2. CASE e # 2
      <4>1. RunAt(e) # t + 1 /\ RunAt(e) - 1 # t + 1
        BY <1>1, <2>1, <3>2, QuietTimes
      <4>2. RunAt(e) >= t + 1
        <5>1. CASE e \in Leaves
          BY <1>1, <5>1, LeafFacts
        <5>2. CASE e \in {1, 36 + 2 * RP}
          <6>1. RunAt(e) >= Feeds + 11
            BY <1>1, <5>2, RunAtIs
          <6>2. RunAt(e) \in Int
            BY RunAtRange
          <6> QED
            BY <1>1, <6>1, <6>2
        <5>3. CASE e = 3
          <6>1. MadeAt(3) = 4 /\ RunAt(3) = 6
            BY <1>1, <5>3, RunAtIs, MadeIs
          <6> QED
            BY <2>1, <5>3, <6>1
        <5> QED
          BY <2>1, <3>2, <5>1, <5>2, <5>3, OtherComponents
      <4>3. RunAt(e) \in Int
        BY RunAtRange
      <4>4. t + 1 < RunAt(e) - 1
        BY <1>1, <4>1, <4>2, <4>3
      <4> QED
        BY <1>1, <2>1, <4>4, LeftIs
    <3> QED
      BY <3>1, <3>2
  <2>3. SubIds(e, t + 1) = << >>
    <3>1. e = 2 => t + 1 < 4
      BY <1>1, <2>1, MadeIs
    <3>2. e = 3 => t + 1 < 7
      BY <1>1, <2>1, MadeIs
    <3> QED
      BY <1>1, <2>1, <3>1, <3>2 DEF SubIds
  <2>4. (t + 1 < ReleasedAt(e)) = TRUE /\ ~(t + 1 < MadeAt(e))
    BY <1>1, <1>2, <2>1
  <2> HIDE DEF subs
  <2> QED
    BY <2>1, <2>2, <2>3, <2>4 DEF NewComponent, MemoryAt
<1>5. ASSUME e # c, MadeAt(e) # t + 1
      PROVE  MemoryAt(e, t + 1) = MemoryAt(e, t)
  <2>1. Left(e, t + 1) = Left(e, t)
    <3>1. CASE e = 0
      BY <3>1 DEF Left
    <3>2. CASE e = 2
      <4>1. RunAt(2) = 3 /\ MadeAt(2) = 2
        BY <1>1, <3>2, RunAtIs, MadeIs
      <4>2. t >= RunAt(2)
        BY <1>1, <1>5, <3>2, <4>1
      <4>3. t + 1 >= RunAt(2)
        BY <1>1, <4>1, <4>2
      <4> QED
        BY <1>1, <3>2, <4>2, <4>3, LeftIs
    <3>3. CASE e # 0 /\ e # 2
      <4>1. RunAt(e) # t + 1 /\ RunAt(e) - 1 # t + 1
        BY <1>1, <3>3, QuietTimes
      <4> QED
        BY <1>1, <3>3, <4>1, SameLeft
    <3> QED
      BY <3>1, <3>2, <3>3
  <2>2. SubIds(e, t + 1) = SubIds(e, t)
    <3>1. CASE e = 0
      <4>1. t >= 2 /\ t + 1 >= 2
        BY <1>5, <3>1
      <4> QED
        BY <3>1, <4>1 DEF SubIds
    <3>2. CASE e = 2
      <4>1. t >= 4 <=> t + 1 >= 4
        BY <1>5, <3>2
      <4> QED
        BY <3>2, <4>1 DEF SubIds
    <3>3. CASE e = 3
      <4>1. t >= 7 <=> t + 1 >= 7
        BY <1>5, <3>3
      <4> QED
        BY <3>3, <4>1 DEF SubIds
    <3> QED
      BY <3>1, <3>2, <3>3 DEF SubIds
  <2>3. ReleasedAt(e) # t + 1
    BY <1>1, <1>2
  <2> QED
    BY <1>1, <1>5, <2>1, <2>2, <2>3, SameMemory
<1> QED
  BY <1>3, <1>4, <1>5

(* Which component creates, and what.                                      *)
LEMMA CreateIs ==
  ASSUME NEW t \in 1 .. End - 1, StateAt(t), Create
  PROVE  LET c == CtxAt(t)
         IN  /\ t \in {1, 3, 6}
             /\ (c = 0 /\ t = 1) \/ (c = 2 /\ t = 3) \/ (c = 3 /\ t = 6)
             /\ componentMemory' =
                  [e \in Components |->
                     CASE e = c -> [MemoryAt(c, t) EXCEPT !.subcomponents =
                                      [k \in DOMAIN Subs(Kind(c)) |-> MadeId(c, k)]]
                       [] e \in {MadeId(c, k) : k \in DOMAIN Subs(Kind(c))} ->
                            LET k == CHOOSE k \in DOMAIN Subs(Kind(c)) : MadeId(c, k) = e
                            IN  NewComponent(Subs(Kind(c))[k], Start(c) + Subs(Kind(c))[k].s)
                       [] OTHER -> MemoryAt(e, t)]
             /\ stack' = AdvancedStack(StackAt(t))
             /\ UNCHANGED <<signalValues, runs, failed>>
<1> DEFINE c == CtxAt(t)
<1>1. /\ Top.ctx = c /\ Top.pos = PosAt(t) /\ Self = MemoryAt(c, t)
      /\ Self.kind = Kind(c) /\ Self.signalStart = Start(c)
      /\ Advanced = AdvancedStack(StackAt(t))
  BY AtState
<1>2. PosAt(t) = 0
  BY <1>1 DEF Create
<1>3. t \in {1, 3, 6}
  BY <1>2, TopIs
<1>4. (c = 0 /\ t = 1) \/ (c = 2 /\ t = 3) \/ (c = 3 /\ t = 6)
  <2>1. t \in 0 .. End /\ Feeds \in Nat /\ Feeds >= 48
    BY RunAtRange
  <2> QED
    BY <1>3, <2>1, CtxIs
<1>5. \A e \in Components : componentMemory[e] = MemoryAt(e, t)
  BY DEF StateAt
<1>6. /\ stack' = Advanced
      /\ UNCHANGED <<signalValues, runs, failed>>
  BY DEF Create
<1>7. componentMemory' =
        [e \in Components |->
           CASE e = c -> [MemoryAt(c, t) EXCEPT !.subcomponents =
                            [k \in DOMAIN Subs(Kind(c)) |-> MadeId(c, k)]]
             [] e \in {MadeId(c, k) : k \in DOMAIN Subs(Kind(c))} ->
                  LET k == CHOOSE k \in DOMAIN Subs(Kind(c)) : MadeId(c, k) = e
                  IN  NewComponent(Subs(Kind(c))[k], Start(c) + Subs(Kind(c))[k].s)
             [] OTHER -> componentMemory[e]]
  <2> HIDE DEF c
  <2> QED
    BY <1>1 DEF Create, MadeId
<1>8. componentMemory' =
        [e \in Components |->
           CASE e = c -> [MemoryAt(c, t) EXCEPT !.subcomponents =
                            [k \in DOMAIN Subs(Kind(c)) |-> MadeId(c, k)]]
             [] e \in {MadeId(c, k) : k \in DOMAIN Subs(Kind(c))} ->
                  LET k == CHOOSE k \in DOMAIN Subs(Kind(c)) : MadeId(c, k) = e
                  IN  NewComponent(Subs(Kind(c))[k], Start(c) + Subs(Kind(c))[k].s)
             [] OTHER -> MemoryAt(e, t)]
  <2> HIDE DEF c
  <2> QED
    BY <1>5, <1>7
<1> QED
  BY <1>1, <1>3, <1>4, <1>6, <1>8

(* The create calls take the state of one tick to that of the next.        *)
LEMMA CreateStep ==
  ASSUME NEW t \in 1 .. End - 1, StateAt(t), Create
  PROVE  StateAt(t + 1)' /\ Keeps(signalValues, signalValues')
<1> DEFINE c     == CtxAt(t)
           subs  == Subs(Kind(c))
           made  == {MadeId(c, k) : k \in DOMAIN subs}
           one(e) == CHOOSE k \in DOMAIN subs : MadeId(c, k) = e
<1>1. /\ t \in {1, 3, 6}
      /\ (c = 0 /\ t = 1) \/ (c = 2 /\ t = 3) \/ (c = 3 /\ t = 6)
      /\ stack' = AdvancedStack(StackAt(t))
      /\ UNCHANGED <<signalValues, runs, failed>>
      /\ componentMemory' =
           [e \in Components |->
              CASE e = c -> [MemoryAt(c, t) EXCEPT !.subcomponents =
                               [k \in DOMAIN subs |-> MadeId(c, k)]]
                [] e \in made -> NewComponent(subs[one(e)], Start(c) + subs[one(e)].s)
                [] OTHER -> MemoryAt(e, t)]
  BY CreateIs
<1>2. MakesRight(c, t)
  BY <1>1, AuthMakes, PoseidonMakes, PoseidonExMakes
<1>3. c \in Callers /\ t \in Int /\ t + 1 \in {2, 4, 7}
  BY <1>1, TopIs
<1>4. componentMemory' = [e \in Components |-> MemoryAt(e, t + 1)]
  <2>1. ASSUME NEW e \in Components
        PROVE  /\ e = c => MemoryAt(e, t + 1) = [MemoryAt(c, t) EXCEPT !.subcomponents = SubIds(c, t + 1)]
               /\ \A k \in DOMAIN subs : MadeId(c, k) = e =>
                    MemoryAt(e, t + 1) = NewComponent(subs[k], Start(c) + subs[k].s)
               /\ e # c /\ MadeAt(e) # t + 1 => MemoryAt(e, t + 1) = MemoryAt(e, t)
    BY <1>1, <1>2, <1>3, CreateMemory
  <2>2. SubIds(c, t + 1) = [k \in DOMAIN subs |-> MadeId(c, k)]
    BY <1>2 DEF MakesRight
  <2>3. /\ \A k \in DOMAIN subs : MadeId(c, k) # c
        /\ \A e \in Components : MadeAt(e) = t + 1 => e \in made
    <3>1. /\ \A k \in DOMAIN subs : MadeId(c, k) # c
          /\ \A e \in Components : MadeAt(e) = t + 1 => \E k \in DOMAIN subs : MadeId(c, k) = e
      BY <1>2 DEF MakesRight
    <3> HIDE DEF c
    <3> QED
      BY <3>1
  <2>4. \A e \in made : one(e) \in DOMAIN subs /\ MadeId(c, one(e)) = e
    <3> HIDE DEF c
    <3> QED
      OBVIOUS
  <2> HIDE DEF c, one
  <2>5. ASSUME NEW e \in Components
        PROVE  MemoryAt(e, t + 1) =
                 CASE e = c -> [MemoryAt(c, t) EXCEPT !.subcomponents =
                                  [k \in DOMAIN subs |-> MadeId(c, k)]]
                   [] e \in made -> NewComponent(subs[one(e)], Start(c) + subs[one(e)].s)
                   [] OTHER -> MemoryAt(e, t)
    <3>1. CASE e = c
      <4>1. e \notin made
        BY <2>3, <3>1
      <4> HIDE DEF made
      <4> QED
        BY <2>1, <2>2, <3>1, <4>1
    <3>2. CASE e \in made
      <4>1. MemoryAt(e, t + 1) = NewComponent(subs[one(e)], Start(c) + subs[one(e)].s)
        BY <2>1, <2>4, <3>2
      <4>2. e # c
        BY <2>3, <3>2
      <4> HIDE DEF made, subs
      <4> QED
        BY <3>2, <4>1, <4>2
    <3>3. CASE e # c /\ e \notin made
      <4> HIDE DEF made, subs
      <4> QED
        BY <2>1, <2>3, <3>3
    <3> QED
      BY <3>1, <3>2, <3>3
  <2> HIDE DEF made, subs
  <2> QED
    BY <1>1, <2>5
<1>5. /\ runs = [e \in Components |-> IF t >= RunAt(e) THEN 1 ELSE 0]
      /\ failed = "no" /\ ValuesAt(signalValues, t)
  BY DEF StateAt
<1>6. Quiet(t + 1)
  BY <1>3, QuietTimes
<1>7. runs' = [e \in Components |-> IF t + 1 >= RunAt(e) THEN 1 ELSE 0]
  <2>1. ASSUME NEW e \in Components PROVE t + 1 >= RunAt(e) <=> t >= RunAt(e)
    <3>1. RunAt(e) \in Int /\ (RunAt(e) = t + 1 => e = 0)
      BY <1>6, RunAtRange DEF Quiet
    <3>2. RunAt(e) # t + 1
      <4>1. RunAt(0) = 1 /\ t + 1 # 1
        BY <1>3, RunAtIs
      <4> QED
        BY <3>1, <4>1
    <3> QED
      BY <1>3, <3>1, <3>2
  <2> QED
    BY <1>1, <1>5, <2>1
<1>8. ValuesAt(signalValues', t + 1) /\ Keeps(signalValues, signalValues')
  <2>1. ValuesAt(signalValues, t + 1)
    BY <1>3, <1>5, <1>6, QuietValues
  <2>2. Keeps(signalValues, signalValues)
    BY DEF Keeps
  <2> QED
    BY <1>1, <2>1, <2>2
<1>9. AdvancedStack(StackAt(t)) = StackAt(t + 1)
  <2>1. 1 \in 0 .. End /\ 2 \in 0 .. End /\ 3 \in 0 .. End /\ 4 \in 0 .. End /\ 6 \in 0 .. End /\ 7 \in 0 .. End
        /\ 7 \in 6 .. Feeds + 7 /\ 6 \in 6 .. Feeds + 7
    BY RunAtRange
  <2>2. CASE t = 1
    <3>1. StackAt(1) = << Frame(0, 1 - 1) >> /\ StackAt(2) = << Frame(0, 2 - 1) >>
      BY <2>1, StackIs
    <3>2. AdvancedStack(<< Frame(0, 1 - 1) >>) = << Frame(0, 1 - 1 + 1) >>
      BY AdvancesOne
    <3> QED
      BY <2>2, <3>1, <3>2
  <2>3. CASE t = 3
    <3>1. StackAt(3) = << Frame(0, 2), Frame(2, 3 - 3) >> /\ StackAt(4) = << Frame(0, 2), Frame(2, 4 - 3) >>
      BY <2>1, StackIs
    <3>2. AdvancedStack(<< Frame(0, 2), Frame(2, 3 - 3) >>) = << Frame(0, 2), Frame(2, 3 - 3 + 1) >>
      BY AdvancesTwo
    <3> QED
      BY <2>3, <3>1, <3>2
  <2>4. CASE t = 6
    <3>1. /\ StackAt(6) = << Frame(0, 2), Frame(2, 3), Frame(3, 6 - 6) >>
          /\ StackAt(7) = << Frame(0, 2), Frame(2, 3), Frame(3, 7 - 6) >>
      BY <2>1, StackIs
    <3>2. AdvancedStack(<< Frame(0, 2), Frame(2, 3), Frame(3, 6 - 6) >>)
            = << Frame(0, 2), Frame(2, 3), Frame(3, 6 - 6 + 1) >>
      BY AdvancesThree
    <3> QED
      BY <2>4, <3>1, <3>2
  <2> QED
    BY <1>1, <2>2, <2>3, <2>4
<1> QED
  BY <1>1, <1>4, <1>5, <1>7, <1>8, <1>9 DEF StateAt

(* The returns: Poseidon's core, Poseidon, Auth.                           *)
ReturnTimes(c, t) ==
  \/ c = 3 /\ t = Feeds + 7
  \/ c = 2 /\ t = Feeds + 8
  \/ c = 0 /\ t = Feeds + 13

(* When a run function returns nothing else happens.                       *)
LEMMA ReturnQuiet ==
  ASSUME NEW c \in Callers, NEW t \in Int, ReturnTimes(c, t)
  PROVE  /\ \A e \in Components : RunAt(e) # t + 1 /\ (e # 0 => RunAt(e) - 1 # t + 1)
         /\ \A e \in Components : MadeAt(e) # t + 1
         /\ \A e \in Components : \A o \in Offsets(e) : SetAt(e, o) = t + 1 <=> e = c /\ o = 0
         /\ \A d \in Callers : \A n \in 1 .. Len(Body(Kind(d))) : AfterFeed(d, n) # t + 1
         /\ \A d \in Callers : AfterReturn(d) = t + 1 <=> d = c
<1>1. Feeds \in Nat /\ Feeds >= 48 /\ End = Feeds + 14
  BY RunAtRange
<1>2. t + 1 \in {Feeds + 8, Feeds + 9, End} /\ t + 1 > 7
  BY <1>1 DEF ReturnTimes
<1>3. ASSUME NEW e \in Components
      PROVE  RunAt(e) # t + 1 /\ (e # 0 => RunAt(e) - 1 # t + 1)
  <2>1. CASE e \in Leaves
    <3>1. RunAt(e) \in 9 .. Feeds + 7
      BY <2>1, LeafFacts
    <3> QED
      BY <1>1, <1>2, <3>1
  <2>2. CASE e \in {0, 1, 2, 3}
    BY <1>1, <1>2, <2>2, RunAtIs
  <2>3. CASE e = 36 + 2 * RP
    <3>1. RunAt(e) = Feeds + 13
      BY <2>3, RunAtIs
    <3> QED
      BY <1>1, <1>2, <3>1
  <2> QED
    BY <2>1, <2>2, <2>3, OtherComponents
<1>4. \A e \in Components : MadeAt(e) # t + 1
  BY <1>2, LifeIs
<1>5. ASSUME NEW e \in Components, NEW o \in Offsets(e)
      PROVE  SetAt(e, o) = t + 1 <=> e = c /\ o = 0
  <2>1. CASE e # 0 /\ o \in In(Kind(e))
    <3>1. FedAt(e, o) # t + 1
      <4>1. CASE e \in Leaves
        <5>1. FedAt(e, o) \in 8 .. Feeds + 7
          BY <2>1, <4>1, LeafFacts
        <5> QED
          BY <1>1, <1>2, <5>1
      <4>2. CASE e \in {1, 2, 3}
        BY <1>1, <1>2, <2>1, <4>2, OthersFed
      <4>3. CASE e = 36 + 2 * RP
        <5>1. o \in {1, 2} /\ FedAt(36 + 2 * RP, 1) = Feeds + 12 /\ FedAt(36 + 2 * RP, 2) = Feeds + 13
          BY <2>1, <4>3, OthersFed
        <5>2. FedAt(e, o) \in {Feeds + 12, Feeds + 13}
          BY <4>3, <5>1
        <5> QED
          BY <1>1, <1>2, <5>2
      <4> QED
        BY <2>1, <4>1, <4>2, <4>3, OtherComponents
    <3>2. ~(e = c /\ o = 0)
      BY <2>1, OthersFed DEF Callers
    <3> QED
      BY <2>1, <3>1, <3>2, SetAtIs
  <2>2. CASE e = 0 /\ o # 0
    BY <1>2, <2>2, SetAtIs
  <2>3. CASE e = 0 /\ o = 0
    BY <1>1, <2>3, SetAtIs DEF ReturnTimes, Callers
  <2>4. CASE e = 2 /\ o \notin In(Kind(e))
    BY <1>1, <2>4, SetAtIs DEF ReturnTimes, Callers
  <2>5. CASE e = 3 /\ o \notin In(Kind(e))
    BY <1>1, <2>5, SetAtIs DEF ReturnTimes, Callers
  <2>6. CASE Simple(e) /\ o \notin In(Kind(e))
    <3>1. e \notin Callers
      BY <2>6, SimpleIs DEF Callers
    <3> QED
      BY <1>3, <2>6, <3>1, SetAtIs
  <2> QED
    BY <2>1, <2>2, <2>3, <2>4, <2>5, <2>6, SimpleIs
<1>6. \A d \in Callers : \A n \in 1 .. Len(Body(Kind(d))) : AfterFeed(d, n) # t + 1
  BY <1>2, AfterFeedIs
<1>7. ASSUME NEW d \in Callers PROVE AfterReturn(d) = t + 1 <=> d = c
  <2>1. AfterReturn(0) = End /\ AfterReturn(2) = Feeds + 9 /\ AfterReturn(3) = Feeds + 8
    BY DEF AfterReturn
  <2> QED
    BY <1>1, <2>1 DEF ReturnTimes, Callers
<1> QED
  BY <1>3, <1>4, <1>5, <1>6, <1>7

(* The one signal that a return sets.                                      *)
ReturnValue(sv, c) ==
  CASE c = 0 -> Mul(Sig(sv, 1, 0), Sig(sv, 36 + 2 * RP, 0))
    [] c = 2 -> Sig(sv, 3, 0)
    [] c = 3 -> Sig(sv, 19, 0)

(* What the returned value is read from is set and made by then.           *)
LEMMA ReturnedOutputs ==
  ASSUME NEW c \in Callers, NEW t \in Int, ReturnTimes(c, t)
  PROVE  /\ c = 0 => /\ 1 \in Components /\ SetAt(1, 0) <= t /\ MadeAt(1) <= t
                     /\ 36 + 2 * RP \in Components /\ SetAt(36 + 2 * RP, 0) <= t /\ MadeAt(36 + 2 * RP) <= t
         /\ c = 2 => 3 \in Components /\ SetAt(3, 0) <= t /\ MadeAt(3) <= t
         /\ c = 3 => 19 \in Components /\ SetAt(19, 0) <= t /\ MadeAt(19) <= t
<1>1. Feeds \in Nat /\ Feeds >= 48 /\ End = Feeds + 14
  BY RunAtRange
<1>2. /\ 0 \in Components /\ 1 \in Components /\ 2 \in Components /\ 3 \in Components
      /\ 19 \in Components /\ 36 + 2 * RP \in Components
  BY Constants DEF Components
<1>3. 0 \notin In(Kind(1)) /\ 0 \notin In(Kind(3)) /\ 0 \notin In(Kind(36 + 2 * RP))
  BY OthersFed
<1>4. 19 \in Leaves /\ 0 \notin In(Kind(19)) /\ Simple(19)
  BY <1>2, KindIs, SimpleIs, Constants DEF Leaves, In
<1>5. RunAt(19) \in 9 .. Feeds + 7 /\ MadeAt(19) = 7
  BY <1>4, LeafFacts
<1>6. Simple(1) /\ Simple(36 + 2 * RP)
  BY <1>2, SimpleIs, Constants
<1>7. SetAt(1, 0) = Feeds + 11 /\ SetAt(36 + 2 * RP, 0) = Feeds + 13
  BY <1>2, <1>3, <1>6, InIsOffsets, SetAtIs, RunAtIs
<1>8. SetAt(3, 0) = Feeds + 8
  BY <1>2, <1>3, InIsOffsets, SetAtIs
<1>9. SetAt(19, 0) = RunAt(19)
  BY <1>2, <1>4, InIsOffsets, SetAtIs
<1> QED
  BY <1>1, <1>2, <1>5, <1>7, <1>8, <1>9, MadeIs DEF ReturnTimes

(* After a return the values are those of the next tick.                   *)
LEMMA ReturnValues ==
  ASSUME NEW c \in Callers, NEW t \in Int, ReturnTimes(c, t), NEW sv, ValuesAt(sv, t), NEW sv2,
         sv2 = Put(sv, Start(c), ReturnValue(sv, c))
  PROVE  /\ ReturnValue(sv, c) \in Value
         /\ ValuesAt(sv2, t + 1) /\ Keeps(sv, sv2)
<1> DEFINE x == ReturnValue(sv, c)
           s == Start(c)
<1>1. SetRight(sv, t) /\ RanRight(sv, t) /\ WiredRight(sv, t) /\ c \in Components
  BY Constants DEF ValuesAt, Callers, Components
<1>2. Keeps(sv, sv)
  BY DEF Keeps
<1>3. ASSUME NEW e \in Components, SetAt(e, 0) <= t PROVE Sig(sv, e, 0) \in Value
  BY <1>1, <1>2, <1>3, KeepsSig, InIsOffsets
<1>4. x \in Value
  <2>1. CASE c = 0
    <3>1. Sig(sv, 1, 0) \in Value /\ Sig(sv, 36 + 2 * RP, 0) \in Value
      BY <1>3, <2>1, ReturnedOutputs
    <3>2. Mul(Sig(sv, 1, 0), Sig(sv, 36 + 2 * RP, 0)) \in Value
      BY <3>1, ArithmeticOnValues
    <3> QED
      BY <2>1, <3>2 DEF ReturnValue
  <2>2. CASE c = 2
    BY <1>3, <2>2, ReturnedOutputs DEF ReturnValue
  <2>3. CASE c = 3
    BY <1>3, <2>3, ReturnedOutputs DEF ReturnValue
  <2> QED
    BY <2>1, <2>2, <2>3 DEF Callers
<1> HIDE DEF x
<1>5. 0 \in Offsets(c) /\ s \in Signals /\ s # 0 /\ s = Start(c) + 0
  <2>1. 0 \in Offsets(c)
    BY <1>1, InIsOffsets
  <2>2. Start(c) \in Signals /\ Start(c) \in Nat \ {0}
    BY <1>1, <2>1, InSignals
  <2> QED
    BY <2>1, <2>2
<1>6. SetAt(c, 0) = t + 1
  BY <1>1, <1>5, ReturnQuiet
<1>7. sv[s] = Unset
  <2>1. ~(t >= SetAt(c, 0))
    BY <1>6
  <2> QED
    BY <1>1, <1>5, <2>1 DEF SetRight, Sig
<1>8. /\ sv2 \in [Signals -> Signal] /\ sv2[s] = x
      /\ \A k \in Signals : k # s => sv2[k] = sv[k]
  <2>1. sv \in [Signals -> Signal]
    BY <1>1 DEF SetRight, Signal
  <2>2. sv2 = [sv EXCEPT ![s] = x]
    BY DEF Put, x
  <2>3. x \in Signal
    BY <1>4 DEF Signal
  <2> HIDE DEF s
  <2> QED
    BY <1>5, <2>1, <2>2, <2>3
<1>9. Keeps(sv, sv2)
  BY <1>7, <1>8 DEF Keeps
<1>10. ASSUME NEW e \in Components, NEW o \in Offsets(e), e # c \/ o # 0
       PROVE  Sig(sv2, e, o) = Sig(sv, e, o)
  <2>1. Start(e) + o # s
    BY <1>1, <1>5, <1>10, Apart
  <2>2. Start(e) + o \in Signals
    BY InSignals
  <2> HIDE DEF s
  <2> QED
    BY <1>8, <2>1, <2>2 DEF Sig
<1>11. Sig(sv2, c, 0) = x
  BY <1>5, <1>8 DEF Sig
<1>12. SetRight(sv2, t + 1)
  <2>1. sv2[0] = 1
    BY <1>1, <1>5, <1>8, Constants DEF SetRight, Signals
  <2>2. ASSUME NEW e \in Components, NEW o \in Offsets(e)
        PROVE  Sig(sv2, e, o) # Unset <=> t + 1 >= SetAt(e, o)
    <3>1. CASE e = c /\ o = 0
      <4>1. t + 1 >= SetAt(e, o)
        BY <1>6, <3>1
      <4>2. Sig(sv2, e, o) # Unset
        BY <1>4, <1>11, <3>1, Constants
      <4> QED
        BY <4>1, <4>2
    <3>2. CASE ~(e = c /\ o = 0)
      <4>1. SetAt(e, o) # t + 1 /\ SetAt(e, o) \in Int
        BY <3>2, ReturnQuiet, SetAtIs
      <4>2. Sig(sv, e, o) # Unset <=> t >= SetAt(e, o)
        BY <1>1 DEF SetRight
      <4>3. Sig(sv2, e, o) = Sig(sv, e, o)
        BY <1>10, <3>2
      <4> QED
        BY <4>1, <4>2, <4>3
    <3> QED
      BY <3>1, <3>2
  <2> QED
    BY <1>8, <2>1, <2>2 DEF SetRight, Signal
<1>13. /\ \A e \in Components : Simple(e) /\ RunAt(e) <= t => Ran(sv2, e)
       /\ \A e \in Callers : \A k \in 1 .. Len(Body(Kind(e))) :
            AfterFeed(e, k) <= t => Wired(sv2, e, k)
       /\ \A e \in Callers : AfterReturn(e) <= t => Returned(sv2, e)
  BY <1>9, KeptValues
<1>14. RanRight(sv2, t + 1)
  <2> SUFFICES ASSUME NEW e \in Components, Kind(e) \notin Composite, t + 1 >= RunAt(e)
               PROVE  Ran(sv2, e)
    BY DEF RanRight
  <2>1. RunAt(e) \in Int /\ Simple(e) /\ RunAt(e) # t + 1
    BY RunAtRange, ReturnQuiet DEF Simple
  <2>2. RunAt(e) <= t
    BY <2>1
  <2> QED
    BY <1>13, <2>1, <2>2
<1>15. Returned(sv2, c)
  <2>1. ASSUME NEW e \in Components, SetAt(e, 0) <= t
        PROVE  Sig(sv2, e, 0) = Sig(sv, e, 0)
    BY <1>1, <1>9, <2>1, KeepsSig, InIsOffsets
  <2>2. CASE c = 0
    <3>1. Sig(sv2, 1, 0) = Sig(sv, 1, 0) /\ Sig(sv2, 36 + 2 * RP, 0) = Sig(sv, 36 + 2 * RP, 0)
      BY <2>1, <2>2, ReturnedOutputs
    <3> QED
      BY <1>11, <2>2, <3>1 DEF Returned, ReturnValue, x
  <2>3. CASE c = 2
    <3>1. Sig(sv2, 3, 0) = Sig(sv, 3, 0)
      BY <2>1, <2>3, ReturnedOutputs
    <3> QED
      BY <1>11, <2>3, <3>1 DEF Returned, ReturnValue, x
  <2>4. CASE c = 3
    <3>1. Sig(sv2, 19, 0) = Sig(sv, 19, 0)
      BY <2>1, <2>4, ReturnedOutputs
    <3> QED
      BY <1>11, <2>4, <3>1 DEF Returned, ReturnValue, x
  <2> QED
    BY <2>2, <2>3, <2>4 DEF Callers
<1>16. WiredRight(sv2, t + 1)
  <2>1. ASSUME NEW e \in Callers, NEW k \in 1 .. Len(Body(Kind(e))), t + 1 >= AfterFeed(e, k)
        PROVE  Wired(sv2, e, k)
    <3>1. AfterFeed(e, k) \in Int /\ AfterFeed(e, k) # t + 1
      BY AfterFeedIs, ReturnQuiet
    <3>2. AfterFeed(e, k) <= t
      BY <2>1, <3>1
    <3> QED
      BY <1>13, <3>2
  <2>2. ASSUME NEW e \in Callers, t + 1 >= AfterReturn(e) PROVE Returned(sv2, e)
    <3>1. AfterReturn(e) \in Int
      BY RunAtRange DEF AfterReturn, Callers
    <3>2. CASE e = c
      BY <1>15, <3>2
    <3>3. CASE e # c
      <4>1. AfterReturn(e) # t + 1
        BY <3>3, ReturnQuiet
      <4>2. AfterReturn(e) <= t
        BY <2>2, <3>1, <4>1
      <4> QED
        BY <1>13, <4>2
    <3> QED
      BY <3>2, <3>3
  <2> QED
    BY <2>1, <2>2 DEF WiredRight, Callers
<1> QED
  BY <1>4, <1>9, <1>12, <1>14, <1>16 DEF ValuesAt, x

(* Read reads the output of a subcomponent.                                *)
LEMMA ReadsOutput ==
  ASSUME NEW t \in 1 .. End - 1, StateAt(t), PosAt(t) # 0, NEW k,
         k \in DOMAIN SubIds(CtxAt(t), End), k \notin {-1, -2},
         NEW d \in Components, d = SubIds(CtxAt(t), End)[k], SetAt(d, 0) <= t, MadeAt(d) <= t
  PROVE  Read(Out(k, 0)) = Sig(signalValues, d, 0)
<1> DEFINE c == CtxAt(t)
<1>1. /\ Out(k, 0).sub = k /\ Out(k, 0).off = 0 /\ Out(k, 0).plus = 0
      /\ 0 \in Value /\ 0 \in Offsets(d)
  BY InIsOffsets, Constants DEF Out
<1>2. SourceSet(c, Out(k, 0), t)
  BY <1>1 DEF SourceSet
<1>3. Read(Out(k, 0)) = Source(signalValues, c, Out(k, 0))
  BY <1>2, ReadsSource
<1>4. Source(signalValues, c, Out(k, 0)) = Add(Sig(signalValues, d, 0), 0)
  <2> HIDE DEF c
  <2>1. k # -1 /\ k # -2 /\ SubIds(c, End)[k] = d
    BY DEF c
  <2> QED
    BY <1>1, <2>1 DEF Source
<1>5. Sig(signalValues, d, 0) \in Signal
  <2>1. SetRight(signalValues, t) /\ Start(d) + 0 \in Signals
    BY <1>1, InSignals DEF StateAt, ValuesAt
  <2> QED
    BY <2>1 DEF SetRight, Sig, Signal
<1> QED
  BY <1>3, <1>4, <1>5, AddZero

(* A return releases the components whose time has come.                   *)
LEMMA ReleasedIds ==
  ASSUME NEW c \in Callers, NEW t \in Int, ReturnTimes(c, t)
  PROVE  LET ids == {SubIds(c, End)[k] : k \in DOMAIN SubIds(c, End)} \ {0}
         IN  /\ ids \subseteq Components
             /\ \A e \in Components : e \in ids <=> ReleasedAt(e) = t + 1
<1> DEFINE ids == {SubIds(c, End)[k] : k \in DOMAIN SubIds(c, End)} \ {0}
<1>1. /\ Feeds \in Nat /\ Feeds >= 48 /\ End = Feeds + 14
      /\ \A e \in Leaves : e \in Components /\ ReleasedAt(e) = Feeds + 8 /\ e \notin {0, 1, 2, 3, 36 + 2 * RP}
      /\ 1 \in Components /\ 2 \in Components /\ 3 \in Components /\ 36 + 2 * RP \in Components
      /\ RP \in Nat
  BY RunAtRange, LeafFacts, Constants DEF Components, Leaves
<1>2. CASE c = 3
  <2>1. ids = Leaves
    <3>1. SubIds(3, End) = [k \in 0 .. mixLast |-> Id(k)]
      BY ExSubIds
    <3>2. \A e \in Leaves : \E k \in 0 .. mixLast : Id(k) = e
      BY LeavesAreSubs
    <3>3. \A k \in 0 .. mixLast : Id(k) \in Leaves
      BY SubsAreLeaves
    <3>4. DOMAIN SubIds(c, End) = 0 .. mixLast /\ \A k \in 0 .. mixLast : SubIds(c, End)[k] = Id(k)
      BY <1>2, <3>1
    <3>5. \A k \in 0 .. mixLast : Id(k) # 0
      BY <1>1, <3>3
    <3> QED
      BY <3>2, <3>3, <3>4, <3>5
  <2>2. t + 1 = Feeds + 8
    BY <1>1, <1>2 DEF ReturnTimes
  <2> HIDE DEF ids
  <2>3. ASSUME NEW e \in Components PROVE e \in ids <=> ReleasedAt(e) = t + 1
    <3>1. CASE e \in Leaves
      BY <1>1, <2>1, <2>2, <3>1
    <3>2. CASE e \in {0, 1, 2, 3, 36 + 2 * RP}
      <4>1. e \notin Leaves
        BY <1>1, <3>2
      <4>2. ReleasedAt(e) # Feeds + 8
        BY <1>1, <3>2, MadeIs
      <4> QED
        BY <2>1, <2>2, <4>1, <4>2
    <3> QED
      BY <3>1, <3>2, OtherComponents
  <2> QED
    BY <1>1, <2>1, <2>3 DEF ids
<1>3. CASE c = 2
  <2>1. ids = {3}
    BY <1>3, ChildrenAre
  <2>2. t + 1 = Feeds + 9
    BY <1>1, <1>3 DEF ReturnTimes
  <2> HIDE DEF ids
  <2>3. ASSUME NEW e \in Components PROVE e \in ids <=> ReleasedAt(e) = t + 1
    <3>1. CASE e \in Leaves
      BY <1>1, <2>1, <2>2, <3>1
    <3>2. CASE e \in {0, 1, 2, 3, 36 + 2 * RP}
      BY <1>1, <2>1, <2>2, <3>2, MadeIs
    <3> QED
      BY <3>1, <3>2, OtherComponents
  <2> QED
    BY <1>1, <2>1, <2>3 DEF ids
<1>4. CASE c = 0
  <2>1. ids = {1, 2, 36 + 2 * RP}
    <3>1. SubIds(0, End) = [k \in 0 .. 2 |-> IF k = 2 THEN 36 + 2 * RP ELSE 2 - k]
      BY ChildrenAre
    <3>2. SubIds(0, End)[0] = 2 /\ SubIds(0, End)[1] = 1 /\ SubIds(0, End)[2] = 36 + 2 * RP
      BY <3>1
    <3>3. DOMAIN SubIds(0, End) = {0, 1, 2}
      BY <3>1
    <3> QED
      BY <1>1, <1>4, <3>2, <3>3
  <2>2. t + 1 = End
    BY <1>1, <1>4 DEF ReturnTimes
  <2> HIDE DEF ids
  <2>3. ASSUME NEW e \in Components PROVE e \in ids <=> ReleasedAt(e) = t + 1
    <3>1. CASE e \in Leaves
      BY <1>1, <2>1, <2>2, <3>1
    <3>2. CASE e \in {0, 1, 2, 3, 36 + 2 * RP}
      BY <1>1, <2>1, <2>2, <3>2, MadeIs
    <3> QED
      BY <3>1, <3>2, OtherComponents
  <2> QED
    BY <1>1, <2>1, <2>3 DEF ids
<1> QED
  BY <1>2, <1>3, <1>4 DEF Callers

(* It releases each of them once, and does nothing else to them.           *)
LEMMA ReturnMemory ==
  ASSUME NEW c \in Callers, NEW t \in Int, ReturnTimes(c, t), NEW e \in Components
  PROVE  /\ MemoryAt(e, t + 1) = [MemoryAt(e, t) EXCEPT !.live = @ /\ ReleasedAt(e) # t + 1]
         /\ ReleasedAt(e) = t + 1 => MemoryAt(e, t).live
<1>1. Feeds \in Nat /\ Feeds >= 48 /\ End = Feeds + 14 /\ t >= 7
  BY RunAtRange DEF ReturnTimes
<1>2. MadeAt(e) \in Int /\ ReleasedAt(e) \in Int /\ ~(t < MadeAt(e)) /\ ~(t + 1 < MadeAt(e))
  BY <1>1, LifeIs
<1>3. Left(e, t + 1) = Left(e, t)
  <2>1. CASE e = 0
    BY <2>1 DEF Left
  <2>2. CASE e # 0
    BY <2>2, ReturnQuiet, SameLeft
  <2> QED
    BY <2>1, <2>2
<1>4. SubIds(e, t + 1) = SubIds(e, t)
  BY <1>1 DEF SubIds
<1> DEFINE before == t < ReleasedAt(e)
           after  == t + 1 < ReleasedAt(e)
           last   == ReleasedAt(e) # t + 1
<1>5. /\ MemoryAt(e, t) = [kind |-> Kind(e), arg |-> Arg(e), signalStart |-> Start(e),
                           inputCounter |-> Left(e, t), subcomponents |-> SubIds(e, t),
                           live |-> before]
      /\ MemoryAt(e, t + 1) = [kind |-> Kind(e), arg |-> Arg(e), signalStart |-> Start(e),
                               inputCounter |-> Left(e, t), subcomponents |-> SubIds(e, t),
                               live |-> after]
  BY <1>2, <1>3, <1>4 DEF MemoryAt
<1>6. after = (before /\ last)
  BY <1>2
<1>7. ~last => before
  BY <1>2
<1> HIDE DEF before, after, last
<1>8. MemoryAt(e, t).live = before
  BY <1>5
<1>9. MemoryAt(e, t + 1) = [MemoryAt(e, t) EXCEPT !.live = @ /\ last]
  BY <1>5, <1>6, <1>8
<1>10. ~last => MemoryAt(e, t).live
  BY <1>7, <1>8
<1> QED
  BY <1>9, <1>10 DEF last

(* The last frame is dropped.                                              *)
LEMMA Drops ==
  ASSUME NEW a, NEW b, NEW c
  PROVE  /\ SubSeq(<<a>>, 1, Len(<<a>>) - 1) = << >>
         /\ SubSeq(<<a, b>>, 1, Len(<<a, b>>) - 1) = <<a>>
         /\ SubSeq(<<a, b, c>>, 1, Len(<<a, b, c>>) - 1) = <<a, b>>
<1> DEFINE X == {a, b, c}
<1>1. ASSUME NEW s \in Seq(X), NEW t \in Seq(X), Len(s) = Len(t) + 1, \A i \in 1 .. Len(t) : t[i] = s[i]
      PROVE  SubSeq(s, 1, Len(s) - 1) = t
  <2>1. Len(t) \in Nat /\ Len(s) - 1 = Len(t)
    BY <1>1, LenProperties
  <2>2. \A i \in 1 .. Len(t) : i \in 1 .. Len(s)
    BY <1>1, <2>1
  <2> DEFINE u == SubSeq(s, 1, Len(t))
  <2>3. /\ u \in Seq(X) /\ Len(u) = IF 1 <= Len(t) THEN Len(t) - 1 + 1 ELSE 0
        /\ \A i \in 1 .. Len(t) - 1 + 1 : u[i] = s[1 + i - 1]
    BY <2>1, <2>2, SubSeqProperties
  <2> HIDE DEF u
  <2>4. Len(u) = Len(t)
    BY <2>1, <2>3
  <2>5. \A i \in 1 .. Len(u) : u[i] = t[i]
    <3> SUFFICES ASSUME NEW i \in 1 .. Len(u) PROVE u[i] = t[i]
      OBVIOUS
    <3>1. i \in 1 .. Len(t) - 1 + 1 /\ 1 + i - 1 = i /\ i \in 1 .. Len(t)
      BY <2>1, <2>4
    <3> QED
      BY <1>1, <2>3, <3>1
  <2>6. u = t
    BY <2>3, <2>4, <2>5, SeqEqual
  <2> QED
    BY <2>1, <2>6 DEF u
<1>2. /\ << >> \in Seq(X) /\ <<a>> \in Seq(X) /\ <<a, b>> \in Seq(X) /\ <<a, b, c>> \in Seq(X)
      /\ Len(<< >>) = 0 /\ Len(<<a>>) = 1 /\ Len(<<a, b>>) = 2 /\ Len(<<a, b, c>>) = 3
  OBVIOUS
<1>3. SubSeq(<<a>>, 1, Len(<<a>>) - 1) = << >>
  <2> DEFINE s == <<a>>
             t == << >>
  <2>1. s \in Seq(X) /\ t \in Seq(X) /\ Len(s) = Len(t) + 1 /\ \A i \in 1 .. Len(t) : t[i] = s[i]
    BY <1>2
  <2> HIDE DEF s, t, X
  <2>2. SubSeq(s, 1, Len(s) - 1) = t
    BY <1>1, <2>1
  <2> QED
    BY <2>2 DEF s, t
<1>4. SubSeq(<<a, b>>, 1, Len(<<a, b>>) - 1) = <<a>>
  <2> DEFINE s == <<a, b>>
             t == <<a>>
  <2>1. s \in Seq(X) /\ t \in Seq(X) /\ Len(s) = Len(t) + 1 /\ \A i \in 1 .. Len(t) : t[i] = s[i]
    BY <1>2
  <2> HIDE DEF s, t, X
  <2>2. SubSeq(s, 1, Len(s) - 1) = t
    BY <1>1, <2>1
  <2> QED
    BY <2>2 DEF s, t
<1>5. SubSeq(<<a, b, c>>, 1, Len(<<a, b, c>>) - 1) = <<a, b>>
  <2> DEFINE s == <<a, b, c>>
             t == <<a, b>>
  <2>1. s \in Seq(X) /\ t \in Seq(X) /\ Len(s) = Len(t) + 1 /\ \A i \in 1 .. Len(t) : t[i] = s[i]
    BY <1>2
  <2> HIDE DEF s, t, X
  <2>2. SubSeq(s, 1, Len(s) - 1) = t
    BY <1>1, <2>1
  <2> QED
    BY <2>2 DEF s, t
<1> QED
  BY <1>3, <1>4, <1>5

(* It drops the top of the stack.                                          *)
LEMMA ReturnStack ==
  ASSUME NEW c \in Callers, NEW t \in Int, ReturnTimes(c, t)
  PROVE  SubSeq(StackAt(t), 1, Len(StackAt(t)) - 1) = StackAt(t + 1)
<1>1. Feeds \in Nat /\ Feeds >= 48 /\ End = Feeds + 14
  BY RunAtRange
<1>2. CASE t = Feeds + 7
  <2>1. t \in 0 .. End /\ t \in 6 .. Feeds + 7 /\ t + 1 \in 0 .. End /\ t + 1 = Feeds + 8
    BY <1>1, <1>2
  <2>2. StackAt(t) = << Frame(0, 2), Frame(2, 3), Frame(3, t - 6) >>
    BY <2>1, StackIs
  <2>3. StackAt(t + 1) = << Frame(0, 2), Frame(2, 3) >>
    BY <2>1, StackIs
  <2> QED
    BY <2>2, <2>3, Drops
<1>3. CASE t = Feeds + 8
  <2>1. t \in 0 .. End /\ t + 1 \in 0 .. End /\ t + 1 \in Feeds + 9 .. Feeds + 13 /\ t + 1 - Feeds - 7 = 2
    BY <1>1, <1>3
  <2>2. StackAt(t) = << Frame(0, 2), Frame(2, 3) >>
    BY <1>3, <2>1, StackIs
  <2>3. StackAt(t + 1) = << Frame(0, 2) >>
    <3> DEFINE u == t + 1
    <3>1. u = Feeds + 9
      BY <1>1, <1>3
    <3> HIDE DEF u
    <3>2. u \in 0 .. End /\ u \in Feeds + 9 .. Feeds + 13 /\ u - Feeds - 7 = 2
      BY <1>1, <3>1
    <3>3. StackAt(u) = << Frame(0, u - Feeds - 7) >>
      BY <3>2, StackIs
    <3> QED
      BY <3>2, <3>3 DEF u
  <2> QED
    BY <2>2, <2>3, Drops
<1>4. CASE t = Feeds + 13
  <2>1. t \in 0 .. End /\ t + 1 \in 0 .. End /\ t \in Feeds + 9 .. Feeds + 13 /\ t + 1 = End
    BY <1>1, <1>4
  <2>2. StackAt(t) = << Frame(0, t - Feeds - 7) >>
    BY <2>1, StackIs
  <2>3. StackAt(t + 1) = << >>
    BY <2>1, StackIs
  <2> QED
    BY <2>2, <2>3, Drops
<1> QED
  BY <1>2, <1>3, <1>4 DEF ReturnTimes

(* A return takes the state of one tick to that of the next.               *)
LEMMA ReturnStep ==
  ASSUME NEW t \in 1 .. End - 1, StateAt(t), Return
  PROVE  StateAt(t + 1)' /\ Keeps(signalValues, signalValues')
<1> DEFINE c   == CtxAt(t)
           sub == SubIds(c, End)
           ids == {sub[k] : k \in DOMAIN sub} \ {0}
<1>1. /\ Top.pos = PosAt(t) /\ Self.kind = Kind(c) /\ Self.signalStart = Start(c)
      /\ Self.subcomponents = SubIds(c, t) /\ (PosAt(t) # 0 => SubIds(c, t) = sub)
  BY AtState
<1>2. PosAt(t) = Len(Body(Kind(c))) + 1
  BY <1>1 DEF Return
<1>3. c \in Callers /\ AfterReturn(c) = t + 1
  BY <1>2, TopIs
<1>4. PosAt(t) # 0
  <2>1. Len(Body(Kind(c))) \in Nat
    BY <1>3, BodyLengths, RunAtRange DEF Callers
  <2> QED
    BY <1>2, <2>1
<1>5. ReturnTimes(c, t) /\ t \in Int
  <2>1. AfterReturn(0) = End /\ AfterReturn(2) = Feeds + 9 /\ AfterReturn(3) = Feeds + 8
    BY DEF AfterReturn
  <2> QED
    BY <1>3, <2>1, RunAtRange DEF ReturnTimes, Callers
<1>6. /\ stack = StackAt(t) /\ ValuesAt(signalValues, t)
      /\ componentMemory = [e \in Components |-> MemoryAt(e, t)]
      /\ runs = [e \in Components |-> IF t >= RunAt(e) THEN 1 ELSE 0]
  BY DEF StateAt
<1>7. Output(Self.kind) = ReturnValue(signalValues, c)
  <2>1. CASE c = 0
    <3>1. Output("Auth") = Mul(Read(Out(1, 0)), Read(Out(2, 0))) /\ Kind(0) = "Auth"
      BY KindIs DEF Output, hashCheck, roleCheck
    <3>2. SubIds(0, End) = [k \in 0 .. 2 |-> IF k = 2 THEN 36 + 2 * RP ELSE 2 - k]
      BY ChildrenAre
    <3>3. 1 \in DOMAIN sub /\ sub[1] = 1 /\ 2 \in DOMAIN sub /\ sub[2] = 36 + 2 * RP
      BY <2>1, <3>2
    <3>4. /\ 1 \in Components /\ SetAt(1, 0) <= t /\ MadeAt(1) <= t
          /\ 36 + 2 * RP \in Components /\ SetAt(36 + 2 * RP, 0) <= t /\ MadeAt(36 + 2 * RP) <= t
      BY <1>3, <1>5, <2>1, ReturnedOutputs
    <3>5. Read(Out(1, 0)) = Sig(signalValues, 1, 0)
      BY <1>4, <3>3, <3>4, ReadsOutput
    <3>6. Read(Out(2, 0)) = Sig(signalValues, 36 + 2 * RP, 0)
      BY <1>4, <3>3, <3>4, ReadsOutput
    <3> QED
      BY <1>1, <2>1, <3>1, <3>5, <3>6 DEF ReturnValue
  <2>2. CASE c = 2
    <3>1. Output("Poseidon") = Read(Out(0, 0)) /\ Kind(2) = "Poseidon"
      BY KindIs DEF Output
    <3>2. 0 \in DOMAIN sub /\ sub[0] = 3
      BY <2>2, ChildrenAre
    <3>3. 3 \in Components /\ SetAt(3, 0) <= t /\ MadeAt(3) <= t
      BY <1>3, <1>5, <2>2, ReturnedOutputs
    <3>4. Read(Out(0, 0)) = Sig(signalValues, 3, 0)
      BY <1>4, <3>2, <3>3, ReadsOutput
    <3> QED
      BY <1>1, <2>2, <3>1, <3>4 DEF ReturnValue
  <2>3. CASE c = 3
    <3>1. Output("PoseidonEx") = Read(Out(mixLast, 0)) /\ Kind(3) = "PoseidonEx"
      BY KindIs DEF Output
    <3>2. mixLast \in DOMAIN sub /\ sub[mixLast] = 19 /\ mixLast \notin {-1, -2}
      <4>1. SubIds(3, End) = [k \in 0 .. mixLast |-> Id(k)] /\ mixLast \in 0 .. mixLast /\ mixLast \notin {-1, -2}
        BY ExSubIds, Constants DEF mixLast
      <4>2. Id(mixLast) = 19
        BY IdsAre
      <4> QED
        BY <2>3, <4>1, <4>2
    <3>3. 19 \in Components /\ SetAt(19, 0) <= t /\ MadeAt(19) <= t
      BY <1>3, <1>5, <2>3, ReturnedOutputs
    <3>4. Read(Out(mixLast, 0)) = Sig(signalValues, 19, 0)
      BY <1>4, <3>2, <3>3, ReadsOutput
    <3> QED
      BY <1>1, <2>3, <3>1, <3>4 DEF ReturnValue
  <2> QED
    BY <1>3, <2>1, <2>2, <2>3 DEF Callers
<1>8. signalValues' = Put(signalValues, Start(c), ReturnValue(signalValues, c))
  <2>1. signalValues' = [signalValues EXCEPT ![Self.signalStart] = Output(Self.kind)]
    BY DEF Return
  <2> QED
    BY <1>1, <1>7, <2>1 DEF Put
<1>9. /\ ReturnValue(signalValues, c) \in Value
      /\ ValuesAt(signalValues', t + 1) /\ Keeps(signalValues, signalValues')
  BY <1>3, <1>5, <1>6, <1>8, ReturnValues
<1>10. ids \subseteq Components /\ \A e \in Components : e \in ids <=> ReleasedAt(e) = t + 1
  BY <1>3, <1>5, ReleasedIds
<1>11. /\ componentMemory' = Released(componentMemory, ids)
       /\ failed' = IF Output(Self.kind) = Unset \/ \E e \in ids : ~componentMemory[e].live
                    THEN "undefined" ELSE "no"
       /\ stack' = SubSeq(stack, 1, Len(stack) - 1)
       /\ runs' = runs
  <2>1. Self.subcomponents = sub
    BY <1>1, <1>4
  <2> HIDE DEF sub
  <2> QED
    BY <2>1 DEF Return
<1> HIDE DEF ids
<1>12. failed' = "no"
  <2>1. \A e \in ids : componentMemory[e].live
    BY <1>3, <1>5, <1>6, <1>10, ReturnMemory
  <2>2. Output(Self.kind) # Unset
    BY <1>7, <1>9, Constants
  <2> QED
    BY <1>11, <2>1, <2>2
<1>13. componentMemory' = [e \in Components |-> MemoryAt(e, t + 1)]
  <2>1. ASSUME NEW e \in Components
        PROVE  [componentMemory[e] EXCEPT !.live = @ /\ e \notin ids] = MemoryAt(e, t + 1)
    <3>1. componentMemory[e] = MemoryAt(e, t)
      BY <1>6
    <3>2. MemoryAt(e, t + 1) = [MemoryAt(e, t) EXCEPT !.live = @ /\ ReleasedAt(e) # t + 1]
      BY <1>3, <1>5, ReturnMemory
    <3>3. (e \notin ids) = (ReleasedAt(e) # t + 1)
      BY <1>10
    <3> QED
      BY <3>1, <3>2, <3>3
  <2> QED
    BY <1>11, <2>1 DEF Released
<1>14. runs' = [e \in Components |-> IF t + 1 >= RunAt(e) THEN 1 ELSE 0]
  <2>1. ASSUME NEW e \in Components PROVE t + 1 >= RunAt(e) <=> t >= RunAt(e)
    <3>1. RunAt(e) \in Int /\ RunAt(e) # t + 1
      BY <1>3, <1>5, RunAtRange, ReturnQuiet
    <3> QED
      BY <3>1
  <2> QED
    BY <1>6, <1>11, <2>1
<1>15. stack' = StackAt(t + 1)
  BY <1>3, <1>5, <1>6, <1>11, ReturnStack
<1> QED
  BY <1>9, <1>12, <1>13, <1>14, <1>15 DEF StateAt

(* The initial states are those of tick 0.                                 *)
LEMMA InitialState ==
  ASSUME Init
  PROVE  StateAt(0)
<1>1. Feeds \in Nat /\ Feeds >= 48 /\ End = Feeds + 14 /\ 0 \in Components
  BY RunAtRange, Constants DEF Components
<1>2. PICK in \in Inputs :
        signalValues = [s \in Signals |-> IF s = 0 THEN 1 ELSE IF s \in 2 .. 5 THEN in[s - 1] ELSE Unset]
  BY DEF Init
<1>3. in \in [1 .. 4 -> Value]
  BY FieldAssumption
<1> DEFINE sv == signalValues
<1>4. /\ sv \in [Signals -> Signal] /\ sv[0] = 1
      /\ \A s \in Signals : s \in 2 .. 5 => sv[s] \in Value
      /\ \A s \in Signals : s # 0 /\ s \notin 2 .. 5 => sv[s] = Unset
  <2>1. \A s \in Signals : sv[s] = IF s = 0 THEN 1 ELSE IF s \in 2 .. 5 THEN in[s - 1] ELSE Unset
    BY <1>2
  <2>2. \A s \in Signals : s \in 2 .. 5 => sv[s] \in Value
    <3> SUFFICES ASSUME NEW s \in Signals, s \in 2 .. 5 PROVE sv[s] \in Value
      OBVIOUS
    <3>1. sv[s] = in[s - 1] /\ s - 1 \in 1 .. 4
      BY <2>1
    <3> QED
      BY <1>3, <3>1
  <2>3. \A s \in Signals : s # 0 /\ s \notin 2 .. 5 => sv[s] = Unset
    BY <2>1
  <2>4. 0 \in Signals
    BY Constants DEF Signals
  <2>5. sv[0] = 1
    BY <2>1, <2>4
  <2>6. \A s \in Signals : sv[s] \in Signal
    BY <2>2, <2>3, <2>5, Constants DEF Signal
  <2>7. sv \in [Signals -> Signal]
    BY <1>2, <2>1, <2>6
  <2> QED
    BY <2>2, <2>3, <2>5, <2>7
<1> HIDE DEF sv
<1>5. ASSUME NEW c \in Components, NEW o \in Offsets(c)
      PROVE  Sig(sv, c, o) # Unset <=> 0 >= SetAt(c, o)
  <2>1. Start(c) + o \in Signals /\ Start(c) + o # 0 /\ SetAt(c, o) \in Int
    BY InSignals, SetAtIs
  <2>2. CASE c = 0
    <3>1. Start(c) = 1 /\ o \in 0 .. 4
      BY <2>2, StartIs
    <3>2. CASE o = 0
      <4>1. sv[Start(c) + o] = Unset
        BY <1>4, <2>1, <3>1, <3>2
      <4> QED
        BY <1>1, <2>2, <3>2, <4>1, SetAtIs DEF Sig
    <3>3. CASE o # 0
      <4>1. Start(c) + o \in 2 .. 5
        BY <3>1, <3>3
      <4>2. sv[Start(c) + o] # Unset
        BY <1>4, <2>1, <4>1, Constants
      <4>3. SetAt(c, o) = 0
        BY <2>2, <3>3, SetAtIs
      <4> QED
        BY <4>2, <4>3 DEF Sig
    <3> QED
      BY <3>2, <3>3
  <2>3. CASE c # 0
    <3>1. Start(c) + o \notin 2 .. 5
      <4> SUFFICES ASSUME Start(c) + o \in 2 .. 5 PROVE FALSE
        OBVIOUS
      <4>1. Start(0) = 1 /\ Offsets(0) = 0 .. 4
        BY <1>1, StartIs
      <4> DEFINE s == Start(c) + o
                 p == s - 1
      <4>2. s \in 2 .. 5
        OBVIOUS
      <4> HIDE DEF s
      <4>3. p \in Offsets(0) /\ s = Start(0) + p
        BY <4>1, <4>2
      <4> HIDE DEF p
      <4>4. Start(c) + o = Start(0) + p
        BY <4>3 DEF s
      <4>5. c = 0
        BY <1>1, <4>3, <4>4, Apart
      <4> QED
        BY <2>3, <4>5
    <3>2. sv[Start(c) + o] = Unset
      BY <1>4, <2>1, <3>1
    <3>3. SetAt(c, o) >= 2
      <4>1. RunAt(c) \in Int /\ RunAt(c) >= 3
        BY <2>3, RunAtRange
      <4>2. CASE o \in In(Kind(c))
        BY <1>1, <2>3, <4>2, SetAtIs, FedAtRange
      <4>3. CASE o \notin In(Kind(c))
        BY <1>1, <2>3, <4>1, <4>3, SetAtIs, SimpleIs
      <4> QED
        BY <4>2, <4>3
    <3> QED
      BY <2>1, <3>2, <3>3 DEF Sig
  <2> QED
    BY <2>2, <2>3
<1>6. SetRight(sv, 0)
  BY <1>4, <1>5 DEF SetRight, Signal
<1>7. RanRight(sv, 0)
  <2>1. \A c \in Components : RunAt(c) \in Int /\ RunAt(c) >= 1
    BY <1>1, RunAtRange
  <2>2. \A c \in Components : ~(0 >= RunAt(c))
    BY <2>1
  <2> QED
    BY <2>2 DEF RanRight
<1>8. WiredRight(sv, 0)
  <2>1. ASSUME NEW c \in Callers, NEW n \in 1 .. Len(Body(Kind(c))) PROVE ~(0 >= AfterFeed(c, n))
    <3>1. AfterFeed(c, n) \in 3 .. End - 1
      BY AfterFeedIs
    <3> QED
      BY <1>1, <3>1
  <2>2. ASSUME NEW c \in Callers PROVE ~(0 >= AfterReturn(c))
    BY <1>1 DEF AfterReturn, Callers
  <2> QED
    BY <2>1, <2>2 DEF WiredRight, Callers
<1>9. componentMemory = [c \in Components |-> MemoryAt(c, 0)]
  <2>1. \A c \in Components : MemoryAt(c, 0) = NoComponent
    BY LifeIs DEF MemoryAt
  <2> QED
    BY <2>1 DEF Init
<1>10. runs = [c \in Components |-> IF 0 >= RunAt(c) THEN 1 ELSE 0]
  <2>1. \A c \in Components : RunAt(c) \in Int /\ RunAt(c) >= 1
    BY <1>1, RunAtRange
  <2>2. \A c \in Components : ~(0 >= RunAt(c))
    BY <2>1
  <2> QED
    BY <2>2 DEF Init
<1>11. stack = StackAt(0) /\ failed = "no"
  <2>1. StackAt(0) = << >>
    BY <1>1, StackIs
  <2> QED
    BY <2>1 DEF Init
<1> QED
  BY <1>6, <1>7, <1>8, <1>9, <1>10, <1>11 DEF StateAt, ValuesAt, sv

(* A step advances the clock by one.                                       *)
LEMMA StepIs ==
  ASSUME NEW t \in 0 .. End, StateAt(t), Next
  PROVE  t # End /\ StateAt(t + 1)' /\ Keeps(signalValues, signalValues')
<1>1. Feeds \in Nat /\ Feeds >= 48 /\ End = Feeds + 14 /\ 0 \in Components
  BY RunAtRange, Constants DEF Components
<1>2. stack = StackAt(t) /\ componentMemory = [c \in Components |-> MemoryAt(c, t)]
  BY DEF StateAt
<1>3. CASE t = 0
  <2>1. stack = << >>
    BY <1>1, <1>2, <1>3, StackIs
  <2>2. Run
    BY <2>1 DEF Next, Create, FeedNext, Return, At
  <2>3. StateAt(1)' /\ Keeps(signalValues, signalValues')
    BY <1>3, <2>2, RunStep
  <2> QED
    BY <1>1, <1>3, <2>3
<1>4. CASE t = End
  <2>1. stack = << >>
    BY <1>1, <1>2, <1>4, StackIs
  <2>2. Run
    BY <2>1 DEF Next, Create, FeedNext, Return, At
  <2>3. componentMemory[0].live
    <3>1. ReleasedAt(0) = End + 1 /\ MadeAt(0) = 1
      BY MadeIs
    <3>2. (End < ReleasedAt(0)) = TRUE /\ ~(End < MadeAt(0))
      BY <1>1, <3>1
    <3>3. MemoryAt(0, End) = [kind |-> Kind(0), arg |-> Arg(0), signalStart |-> Start(0),
                              inputCounter |-> Left(0, End), subcomponents |-> SubIds(0, End),
                              live |-> TRUE]
      BY <3>2 DEF MemoryAt
    <3> QED
      BY <1>1, <1>2, <1>4, <3>3
  <2> QED
    BY <2>2, <2>3 DEF Run
<1>5. CASE t \in 1 .. End - 1
  <2>1. ~Run
    <3>1. stack # << >>
      BY <1>5, AtState
    <3> QED
      BY <3>1 DEF Run
  <2>2. t # End
    BY <1>1, <1>5
  <2> QED
    BY <1>5, <2>1, <2>2, CreateStep, FeedStep, ReturnStep DEF Next
<1> QED
  BY <1>1, <1>3, <1>4, <1>5

(***************************************************************************)
(* In every reachable state of run, the number of steps made determines    *)
(* the stack, componentMemory and which signals are set.                   *)
(***************************************************************************)
THEOREM ClockDetermines == Spec => []RunInv
<1>1. Init => RunInv
  <2> SUFFICES ASSUME Init PROVE RunInv
    OBVIOUS
  <2>1. StateAt(0) /\ 0 \in 0 .. End
    BY InitialState, RunAtRange
  <2> QED
    BY <2>1 DEF RunInv
<1>2. RunInv /\ [Next]_runVars => RunInv'
  <2> SUFFICES ASSUME RunInv, [Next]_runVars PROVE RunInv'
    OBVIOUS
  <2>1. PICK t \in 0 .. End : StateAt(t)
    BY DEF RunInv
  <2>2. CASE Next
    <3>1. t # End /\ StateAt(t + 1)'
      BY <2>1, <2>2, StepIs
    <3>2. t + 1 \in 0 .. End
      BY <3>1, RunAtRange
    <3> QED
      BY <3>1, <3>2 DEF RunInv
  <2>3. CASE UNCHANGED runVars
    <3>1. StateAt(t)'
      BY <2>1, <2>3 DEF runVars, StateAt
    <3> QED
      BY <3>1 DEF RunInv
  <2> QED
    BY <2>2, <2>3
<1> QED
  BY <1>1, <1>2, PTL DEF Spec

(***************************************************************************)
(* The generated order of feeds never reads a signal before it is written, *)
(* feeds or releases a component that is released, or fails an assert, for *)
(* any number of partial rounds.                                           *)
(***************************************************************************)
THEOREM RunNeverFails == Spec => []NeverFails
<1>1. RunInv => NeverFails
  BY DEF RunInv, StateAt, NeverFails
<1> QED
  BY <1>1, ClockDetermines, PTL

(***************************************************************************)
(* No step of run changes a signal that has a value.                       *)
(***************************************************************************)
THEOREM SignalsAreWrittenOnce == Spec => WrittenOnce
<1>1. RunInv /\ [Next]_runVars
        => [\A s \in Signals : signalValues[s] # Unset => signalValues'[s] = signalValues[s]]_runVars
  <2> SUFFICES ASSUME RunInv, Next
               PROVE  \A s \in Signals : signalValues[s] # Unset => signalValues'[s] = signalValues[s]
    OBVIOUS
  <2>1. PICK t \in 0 .. End : StateAt(t)
    BY DEF RunInv
  <2>2. Keeps(signalValues, signalValues')
    BY <2>1, StepIs
  <2> QED
    BY <2>2 DEF Keeps
<1> QED
  BY <1>1, ClockDetermines, PTL DEF Spec, WrittenOnce

(***************************************************************************)
(* A component has run exactly when all its inputs are set.                *)
(***************************************************************************)
THEOREM ComponentsRunWhenFed == Spec => []RunsWhenFed
<1>1. RunInv => RunsWhenFed
  <2> SUFFICES ASSUME RunInv, NEW c \in Components, componentMemory[c].kind # "none"
               PROVE  runs[c] = 1 <=>
                        \A n \in In(componentMemory[c].kind) :
                          signalValues[componentMemory[c].signalStart + n] # Unset
    BY DEF RunsWhenFed
  <2>1. PICK t \in 0 .. End : StateAt(t)
    BY DEF RunInv
  <2>2. /\ componentMemory[c] = MemoryAt(c, t) /\ runs[c] = (IF t >= RunAt(c) THEN 1 ELSE 0)
        /\ SetRight(signalValues, t)
    BY <2>1 DEF StateAt, ValuesAt
  <2>3. MadeAt(c) <= t
    <3>1. ~(t < MadeAt(c))
      BY <2>2 DEF MemoryAt, NoComponent
    <3> QED
      BY <3>1, LifeIs
  <2>4. componentMemory[c].kind = Kind(c) /\ componentMemory[c].signalStart = Start(c)
    BY <2>1, <2>3, MemoryOf
  <2>5. runs[c] = 1 <=> t >= RunAt(c)
    BY <2>2
  <2>6. ASSUME NEW n \in In(Kind(c))
        PROVE  n \in Offsets(c) /\ (Sig(signalValues, c, n) # Unset <=> t >= SetAt(c, n))
    BY <2>2, InIsOffsets DEF SetRight
  <2>7. t >= RunAt(c) <=> \A n \in In(Kind(c)) : Sig(signalValues, c, n) # Unset
    <3>1. CASE c = 0
      <4>1. Kind(0) = "Auth" /\ In("Auth") = 1 .. 4 /\ RunAt(0) = 1 /\ t >= 1
        BY <2>3, <3>1, KindIs, RunAtIs, MadeIs DEF In
      <4>2. \A n \in In(Kind(c)) : SetAt(c, n) = 0
        BY <2>6, <3>1, <4>1, SetAtIs
      <4> QED
        BY <2>6, <3>1, <4>1, <4>2
    <3>2. CASE c # 0
      <4>1. \A n \in In(Kind(c)) : SetAt(c, n) \in {RunAt(c) - 1, RunAt(c)}
        BY <2>6, <3>2, SetAtIs, FedAtRange
      <4>2. LastIn(Kind(c)) \in In(Kind(c)) /\ SetAt(c, LastIn(Kind(c))) = RunAt(c)
        <5>1. LastIn(Kind(c)) \in In(Kind(c))
          BY InIsOffsets
        <5> QED
          BY <2>6, <3>2, <5>1, SetAtIs DEF FedAt
      <4>3. RunAt(c) \in Int
        BY RunAtRange
      <4>4. ASSUME t >= RunAt(c), NEW n \in In(Kind(c)) PROVE Sig(signalValues, c, n) # Unset
        <5>1. t >= SetAt(c, n)
          BY <4>1, <4>3, <4>4
        <5> QED
          BY <2>6, <5>1
      <4>5. ASSUME \A n \in In(Kind(c)) : Sig(signalValues, c, n) # Unset PROVE t >= RunAt(c)
        BY <2>6, <4>2, <4>5
      <4> QED
        BY <4>4, <4>5
    <3> QED
      BY <3>1, <3>2
  <2> QED
    BY <2>4, <2>5, <2>7 DEF Sig
<1> QED
  BY <1>1, ClockDetermines, PTL

(* When run has returned the clock is at its end.                          *)
LEMMA DoneIsEnd ==
  ASSUME RunInv, Done
  PROVE  StateAt(End)
<1>1. Feeds \in Nat /\ Feeds >= 48 /\ End = Feeds + 14 /\ 0 \in Components
  BY RunAtRange, Constants DEF Components
<1>2. PICK t \in 0 .. End : StateAt(t)
  BY DEF RunInv
<1>3. t \notin 1 .. End - 1
  <2> SUFFICES ASSUME t \in 1 .. End - 1 PROVE FALSE
    OBVIOUS
  <2>1. stack # << >>
    BY <1>2, AtState
  <2> QED
    BY <2>1 DEF Done
<1>4. t # 0
  <2> SUFFICES ASSUME t = 0 PROVE FALSE
    OBVIOUS
  <2>1. componentMemory[0] = NoComponent
    BY <1>1, <1>2, MadeIs DEF StateAt, MemoryAt
  <2> QED
    BY <2>1 DEF Done, NoComponent
<1>5. t = End
  BY <1>1, <1>3, <1>4
<1> QED
  BY <1>2, <1>5

(***************************************************************************)
(* When run returns, every signal has a value, every component has run and *)
(* all but the main one are released.                                      *)
(***************************************************************************)
THEOREM RunLeavesNothingOut == Spec => []LeavesNothingOut
<1>1. RunInv => LeavesNothingOut
  <2> SUFFICES ASSUME RunInv, Done
               PROVE  /\ \A s \in Signals : signalValues[s] # Unset
                      /\ \A c \in Components : runs[c] = 1 /\ (componentMemory[c].live <=> c = 0)
    BY DEF LeavesNothingOut
  <2>1. Feeds \in Nat /\ Feeds >= 48 /\ End = Feeds + 14 /\ End \in 0 .. End
    BY RunAtRange
  <2>2. StateAt(End)
    BY DoneIsEnd
  <2>3. /\ componentMemory = [c \in Components |-> MemoryAt(c, End)]
        /\ runs = [c \in Components |-> IF End >= RunAt(c) THEN 1 ELSE 0]
        /\ SetRight(signalValues, End)
    BY <2>2 DEF StateAt, ValuesAt
  <2>4. ASSUME NEW s \in Signals PROVE signalValues[s] # Unset
    <3>1. CASE s = 0
      BY <2>3, <3>1, Constants DEF SetRight
    <3>2. CASE s # 0
      <4>1. PICK c \in Components : \E o \in Offsets(c) : s = Start(c) + o
        BY <3>2, Cover
      <4>2. PICK o \in Offsets(c) : s = Start(c) + o
        BY <4>1
      <4>3. End >= SetAt(c, o)
        BY <2>1, SetAtIs
      <4>4. Sig(signalValues, c, o) # Unset
        BY <2>3, <4>3 DEF SetRight
      <4> QED
        BY <4>2, <4>4 DEF Sig
    <3> QED
      BY <3>1, <3>2
  <2>5. ASSUME NEW c \in Components PROVE runs[c] = 1
    <3>1. End >= RunAt(c)
      BY <2>1, RunAtRange
    <3> QED
      BY <2>3, <3>1
  <2>6. ASSUME NEW c \in Components PROVE componentMemory[c].live <=> c = 0
    <3> DEFINE live == End < ReleasedAt(c)
    <3>1. live <=> c = 0
      <4>1. CASE c = 0
        BY <2>1, <4>1, MadeIs
      <4>2. CASE c \in Leaves
        <5>1. ReleasedAt(c) = Feeds + 8 /\ c # 0
          BY <4>2, LeafFacts
        <5> QED
          BY <2>1, <5>1
      <4>3. CASE c \in {1, 2, 3, 36 + 2 * RP}
        <5>1. c # 0
          BY <4>3, Constants
        <5> QED
          BY <2>1, <4>3, <5>1, MadeIs
      <4> QED
        BY <4>1, <4>2, <4>3, OtherComponents
    <3>2. ~(End < MadeAt(c))
      BY <2>1, LifeIs
    <3>3. MemoryAt(c, End) = [kind |-> Kind(c), arg |-> Arg(c), signalStart |-> Start(c),
                              inputCounter |-> Left(c, End), subcomponents |-> SubIds(c, End),
                              live |-> live]
      BY <3>2 DEF MemoryAt
    <3> HIDE DEF live
    <3>4. MemoryAt(c, End).live = live
      BY <3>3
    <3>5. componentMemory[c].live = live
      BY <2>3, <3>4
    <3> QED
      BY <3>1, <3>5
  <2> QED
    BY <2>4, <2>5, <2>6
<1> QED
  BY <1>1, ClockDetermines, PTL
-----------------------------------------------------------------------------
(* What run computes                                                       *)

FirstHalf(x) == Full(P, Full(M, Full(M, Full(M, << C[0], Add(x, C[1]) >>, 2), 4), 6), 8)
LastHalf(y)  == Full(M, Full(M, Full(M, y, RP + 10), RP + 12), RP + 14)
Hash(y)      == Mixed(M, << Pow5(y[1]), Pow5(y[2]) >>)[1]

(* The recursion that Poseidon states is the one that the partial rounds   *)
(* follow, and has one solution.                                           *)
LEMMA PoseidonIs ==
  ASSUME NEW x, NEW g, DOMAIN g = 0 .. RP, g = [r \in 0 .. RP |-> g[r]], g[0] = FirstHalf(x),
         \A r \in 1 .. RP : g[r] = Partial(r - 1, g[r - 1])
  PROVE  Poseidon(x) = Hash(LastHalf(g[RP]))
<1> DEFINE IsPartial(f) ==
             f = [r \in 0 .. RP |->
                    IF r = 0 THEN FirstHalf(x)
                    ELSE CHOOSE y \in {Partial(r - 1, z) : z \in {f[r - 1]}} : TRUE]
           f == CHOOSE h : IsPartial(h)
<1>1. Poseidon(x) = Hash(LastHalf(f[RP]))
  BY DEF Poseidon, Hash, LastHalf, FirstHalf
<1>2. \A r, z : (CHOOSE y \in {Partial(r - 1, v) : v \in {z}} : TRUE) = Partial(r - 1, z)
  OBVIOUS
<1>3. IsPartial(g)
  <2> DEFINE h == [r \in 0 .. RP |->
                     IF r = 0 THEN FirstHalf(x)
                     ELSE CHOOSE y \in {Partial(r - 1, z) : z \in {g[r - 1]}} : TRUE]
  <2>1. \A r \in 0 .. RP : h[r] = IF r = 0 THEN FirstHalf(x) ELSE Partial(r - 1, g[r - 1])
    BY <1>2
  <2>2. DOMAIN h = 0 .. RP /\ h = [r \in 0 .. RP |-> h[r]]
    OBVIOUS
  <2> HIDE DEF h
  <2>3. ASSUME NEW r \in 0 .. RP PROVE h[r] = g[r]
    <3>1. CASE r = 0
      BY <2>1, <3>1
    <3>2. CASE r # 0
      <4>1. r \in 1 .. RP
        BY <3>2, Constants
      <4> QED
        BY <2>1, <3>2, <4>1
    <3> QED
      BY <3>1, <3>2
  <2>4. h = g
    BY <2>2, <2>3
  <2> QED
    BY <2>4 DEF h
<1>4. IsPartial(f)
  <2> HIDE DEF IsPartial
  <2> QED
    BY <1>3
<1>5. \A r \in 0 .. RP : f[r] = IF r = 0 THEN FirstHalf(x) ELSE Partial(r - 1, f[r - 1])
  <2> HIDE DEF f
  <2>1. \A r \in 0 .. RP :
          f[r] = IF r = 0 THEN FirstHalf(x)
                 ELSE CHOOSE y \in {Partial(r - 1, z) : z \in {f[r - 1]}} : TRUE
    BY <1>4, Zenon
  <2> QED
    BY <1>2, <2>1
<1> HIDE DEF f, IsPartial
<1> DEFINE U == {r \in 0 .. RP : f[r] = g[r]}
<1>6. 0 \in U
  BY <1>5, Constants
<1>7. ASSUME NEW r \in 1 .. RP, r - 1 \in U PROVE r \in U
  BY <1>5, <1>7
<1>8. \A r \in 0 .. RP : r \in U
  <2> HIDE DEF U
  <2> QED
    BY <1>6, <1>7, IntervalInduction, Constants
<1>9. f[RP] = g[RP]
  BY <1>8, Constants
<1> QED
  BY <1>1, <1>9

(* The signals once run has returned.                                      *)
Final(sv) ==
  /\ \A c \in Components : \A o \in Offsets(c) : Sig(sv, c, o) \in Value
  /\ \A c \in Components : Simple(c) => Ran(sv, c)
  /\ \A c \in Callers : \A n \in 1 .. Len(Body(Kind(c))) : Wired(sv, c, n)
  /\ \A c \in Callers : Returned(sv, c)

(* When run has returned its signals are all set, and every wire and       *)
(* component is right.                                                     *)
LEMMA EndIsFinal ==
  ASSUME NEW sv, ValuesAt(sv, End)
  PROVE  Final(sv)
<1>1. Feeds \in Nat /\ Feeds >= 48 /\ End = Feeds + 14
  BY RunAtRange
<1>2. SetRight(sv, End) /\ RanRight(sv, End) /\ WiredRight(sv, End)
  BY DEF ValuesAt
<1>3. ASSUME NEW c \in Components, NEW o \in Offsets(c) PROVE Sig(sv, c, o) \in Value
  <2>1. Sig(sv, c, o) # Unset
    BY <1>1, <1>2, SetAtIs DEF SetRight
  <2>2. Sig(sv, c, o) \in Value \cup {Unset}
    BY <1>2, InSignals DEF SetRight, Sig
  <2> QED
    BY <2>1, <2>2
<1>4. ASSUME NEW c \in Components, Simple(c) PROVE Ran(sv, c)
  BY <1>1, <1>2, <1>4, RunAtRange DEF RanRight, Simple
<1>5. ASSUME NEW c \in Callers
      PROVE  /\ \A n \in 1 .. Len(Body(Kind(c))) : Wired(sv, c, n)
             /\ Returned(sv, c)
  <2>1. \A n \in 1 .. Len(Body(Kind(c))) : AfterFeed(c, n) <= End /\ AfterFeed(c, n) \in Int
    <3>1. CASE c = 0
      <4>1. Len(Body(Kind(c))) = 5
        BY <3>1, BodyLengths
      <4>2. AfterFeed(0, 1) = 3 /\ \A n \in 2 .. 5 : AfterFeed(0, n) = Feeds + 8 + n
        BY DEF AfterFeed
      <4>3. ASSUME NEW n \in 1 .. 5 PROVE AfterFeed(0, n) <= End /\ AfterFeed(0, n) \in Int
        <5>1. n = 1 \/ n \in 2 .. 5
          OBVIOUS
        <5> QED
          BY <1>1, <4>2, <5>1
      <4> QED
        BY <3>1, <4>1, <4>3
    <3>2. CASE c = 2
      <4>1. Len(Body(Kind(c))) = 2
        BY <3>2, BodyLengths
      <4>2. \A n \in 1 .. 2 : AfterFeed(2, n) = 4 + n
        BY DEF AfterFeed
      <4>3. ASSUME NEW n \in 1 .. 2 PROVE AfterFeed(2, n) <= End /\ AfterFeed(2, n) \in Int
        BY <1>1, <4>2
      <4> QED
        BY <3>2, <4>1, <4>3
    <3>3. CASE c = 3
      <4>1. Len(Body(Kind(c))) = Feeds
        BY <3>3, BodyLengths
      <4> QED
        BY <1>1, <3>3, <4>1 DEF AfterFeed
    <3> QED
      BY <3>1, <3>2, <3>3 DEF Callers
  <2>2. AfterReturn(c) <= End
    BY <1>1 DEF AfterReturn, Callers
  <2>3. AfterReturn(c) \in Int
    BY <1>1 DEF AfterReturn, Callers
  <2> QED
    BY <1>1, <1>2, <2>1, <2>2, <2>3 DEF WiredRight, Callers
<1> QED
  BY <1>3, <1>4, <1>5 DEF Final

(* What a feed of PoseidonEx copies.                                       *)
LEMMA WireIs ==
  ASSUME NEW sv, Final(sv), NEW e \in Leaves, NEW i \in In(Kind(e)), NEW src, FedFrom(e, i, src)
  PROVE  Sig(sv, e, i) = Source(sv, 3, src)
<1> DEFINE n == FedAt(e, i) - 7
<1>1. n \in 1 .. Len(Body(Kind(3)))
  <2>1. FedAt(e, i) \in 8 .. Feeds + 7 /\ Feeds \in Nat
    BY LeafFacts, RunAtRange
  <2> QED
    BY <2>1, BodyLengths
<1>2. Body(Kind(3))[n] = Feed(Index(e), i, src)
  BY BodyLengths DEF FedFrom
<1>3. SubIds(3, End)[Index(e)] = e
  BY ExSubIds
<1>4. Wired(sv, 3, n)
  <2> HIDE DEF n
  <2> QED
    BY <1>1 DEF Final, Callers
<1> HIDE DEF n
<1> QED
  BY <1>2, <1>3, <1>4 DEF Wired, Feed

(* What a wire from a leaf copies.                                         *)
LEMMA LeafOut ==
  ASSUME NEW sv, Final(sv), NEW e \in Leaves, NEW o \in Offsets(e)
  PROVE  /\ Source(sv, 3, Out(Index(e), o)) = Sig(sv, e, o)
         /\ \A x : Source(sv, 3, OutPlus(Index(e), o, x)) = Add(Sig(sv, e, o), x)
<1>1. Index(e) \notin {-1, -2} /\ SubIds(3, End)[Index(e)] = e /\ e \in Components
  BY LeavesAreSubs, ExSubIds, LeafFacts, Constants DEF mixLast
<1>2. \A x : Source(sv, 3, OutPlus(Index(e), o, x)) = Add(Sig(sv, e, o), x)
  BY <1>1 DEF Source, OutPlus
<1>3. Add(Sig(sv, e, o), 0) = Sig(sv, e, o)
  BY <1>1, AddZero DEF Final, Signal
<1> QED
  BY <1>2, <1>3, OutIsOutPlus

-----------------------------------------------------------------------------
(* The rounds of PoseidonEx                                                *)

Pair(sv, e) == << Sig(sv, e, 0), Sig(sv, e, 1) >>

(* The leaf whose outputs a full round begins with, and a partial round.   *)
Prev(r)  == CASE r = 0 -> 4 [] r = 4 -> 19 + RP [] OTHER -> 11 + r
PrevS(r) == IF r = 0 THEN 15 ELSE 19 + r

(* A full round is fed from the component before it.                       *)
LEMMA PrevIs ==
  ASSUME NEW r \in 0 .. 6, NEW j \in T
  PROVE  Prev(r) \in Leaves /\ j \in Offsets(Prev(r)) /\ Before(r, j) = Out(Index(Prev(r)), j)
<1>1. ASSUME NEW e \in Components, Kind(e) \in {"Ark", "Mix", "MixS"} PROVE j \in Offsets(e)
  BY <1>1 DEF Offsets, T
<1>2. CASE r = 0
  <2>1. Prev(r) = 4 /\ 4 \in Leaves /\ 4 \in Components /\ Kind(4) = "Ark"
    BY <1>2, KindIs, Constants DEF Prev, Leaves, Components
  <2>2. Index(4) = ark(0)
    BY IndexIs DEF ark
  <2> QED
    BY <1>1, <1>2, <2>1, <2>2 DEF Before
<1>3. CASE r = 4
  <2> DEFINE k == RP - 1
  <2>1. k \in 0 .. RP - 1 /\ 20 + k = 19 + RP
    BY Constants
  <2>2. Index(20 + k) = mixS(k)
    <3> HIDE DEF k
    <3> QED
      BY <2>1, IndexIs
  <2>3. Prev(r) = 19 + RP /\ 19 + RP \in Leaves /\ 19 + RP \in Components /\ Kind(19 + RP) = "MixS"
    BY <1>3, KindIs, Constants DEF Prev, Leaves, Components
  <2> QED
    BY <1>1, <1>3, <2>1, <2>2, <2>3 DEF Before
<1>4. CASE r \notin {0, 4}
  <2> DEFINE k == r - 1
  <2>1. k \in 0 .. 6 /\ 12 + k = 11 + r
    BY <1>4
  <2>2. Index(12 + k) = mix(k)
    <3> HIDE DEF k
    <3> QED
      BY <2>1, IndexIs
  <2>3. Prev(r) = 11 + r /\ 11 + r \in Leaves /\ 11 + r \in Components /\ Kind(11 + r) = "Mix"
    BY <1>4, KindIs, Constants DEF Prev, Leaves, Components
  <2> QED
    BY <1>1, <1>4, <2>1, <2>2, <2>3 DEF Before
<1> QED
  BY <1>2, <1>3, <1>4

(* A Sigma raises its input to the fifth power.                            *)
LEMMA SigmaComputes ==
  ASSUME NEW sv, Final(sv), NEW e \in 20 + RP .. 35 + 2 * RP
  PROVE  e \in Leaves /\ Sig(sv, e, 0) = Pow5(Sig(sv, e, 1))
<1>1. e \in Components /\ e \in Leaves /\ Kind(e) = "Sigma"
  BY KindIs, Constants DEF Components, Leaves
<1>2. Ran(sv, e)
  BY <1>1, LeafFacts DEF Final
<1> QED
  BY <1>1, <1>2 DEF Ran, Pow5

(* A full round: the two Sigma, the Ark and the Mix.                       *)
LEMMA FullRoundComputes ==
  ASSUME NEW sv, Final(sv), NEW r \in 0 .. 6
  PROVE  Pair(sv, 12 + r) = Full(IF r = 3 THEN P ELSE M, Pair(sv, Prev(r)), ArkConstants(r + 1))
<1> DEFINE x == Pair(sv, Prev(r))
           m == 12 + r
           a == 5 + r
           s(j) == 20 + RP + 2 * r + j
<1>1. /\ m \in Leaves /\ m \in Components /\ Kind(m) = "Mix" /\ In(Kind(m)) = {2, 3}
      /\ a \in Leaves /\ a \in Components /\ Kind(a) = "Ark" /\ In(Kind(a)) = {2, 3}
  BY KindIs, Constants DEF Leaves, Components, In
<1>2. Arg(a) = ArkConstants(r + 1) /\ Arg(m) = IF r = 3 THEN P ELSE M
  <2>1. a - 4 = r + 1 /\ (m = 15 <=> r = 3)
    OBVIOUS
  <2> QED
    BY <1>1, <2>1 DEF Arg
<1>3. ASSUME NEW j \in T
      PROVE  /\ s(j) \in Leaves /\ 0 \in Offsets(s(j)) /\ 1 \in In(Kind(s(j)))
             /\ Index(s(j)) = sigmaF(r, j)
             /\ Sig(sv, s(j), 0) = Pow5(Sig(sv, s(j), 1))
  <2>1. s(j) \in 20 + RP .. 35 + 2 * RP
    BY Constants DEF T
  <2>2. Kind(s(j)) = "Sigma"
    BY <2>1, KindIs
  <2>3. 0 \in Offsets(s(j)) /\ 1 \in In(Kind(s(j)))
    BY <2>2 DEF Offsets, In
  <2>4. Index(s(j)) = sigmaF(r, j)
    BY IndexIs
  <2> HIDE DEF s
  <2> QED
    BY <2>1, <2>3, <2>4, SigmaComputes
<1>4. ASSUME NEW j \in T PROVE Sig(sv, s(j), 1) = Sig(sv, Prev(r), j)
  <2>1. FedFrom(s(j), 1, Before(r, j))
    BY SigmaFed
  <2>2. Sig(sv, s(j), 1) = Source(sv, 3, Before(r, j))
    <3> HIDE DEF s
    <3> QED
      BY <1>3, <2>1, WireIs
  <2> QED
    BY <2>2, PrevIs, LeafOut
<1>5. ASSUME NEW j \in T PROVE Sig(sv, a, 2 + j) = Pow5(Sig(sv, Prev(r), j))
  <2>1. FedFrom(a, 2 + j, Out(sigmaF(r, j), 0))
    BY ArkFed
  <2>2. 2 + j \in In(Kind(a))
    BY <1>1 DEF T
  <2> HIDE DEF a, s
  <2>3. Sig(sv, a, 2 + j) = Source(sv, 3, Out(sigmaF(r, j), 0))
    BY <1>1, <2>1, <2>2, WireIs
  <2> QED
    BY <1>3, <1>4, <2>3, LeafOut
<1>6. Ran(sv, a) /\ Ran(sv, m)
  BY <1>1, LeafFacts DEF Final
<1>7. /\ Sig(sv, a, 0) = Add(Pow5(Sig(sv, Prev(r), 0)), C[ArkConstants(r + 1)])
      /\ Sig(sv, a, 1) = Add(Pow5(Sig(sv, Prev(r), 1)), C[ArkConstants(r + 1) + 1])
  <2>1. Sig(sv, a, 2) = Pow5(Sig(sv, Prev(r), 0)) /\ Sig(sv, a, 3) = Pow5(Sig(sv, Prev(r), 1))
    <3> HIDE DEF a
    <3>1. 0 \in T /\ 1 \in T /\ 2 + 0 = 2 /\ 2 + 1 = 3
      BY DEF T
    <3> QED
      BY <1>5, <3>1
  <2> HIDE DEF a, m
  <2> QED
    BY <1>1, <1>2, <1>6, <2>1 DEF Ran
<1>8. ASSUME NEW j \in T PROVE Sig(sv, m, 2 + j) = Sig(sv, a, j)
  <2>1. FedFrom(m, 2 + j, Out(ark(r + 1), j))
    BY MixFed
  <2>2. 2 + j \in In(Kind(m)) /\ j \in Offsets(a)
    BY <1>1 DEF T, Offsets
  <2>3. Index(a) = ark(r + 1)
    <3>1. r + 1 \in 0 .. 7 /\ a = 4 + (r + 1)
      OBVIOUS
    <3> QED
      BY <3>1, IndexIs
  <2> HIDE DEF a, m
  <2>4. Sig(sv, m, 2 + j) = Source(sv, 3, Out(ark(r + 1), j))
    BY <1>1, <2>1, <2>2, WireIs
  <2> QED
    BY <1>1, <2>2, <2>3, <2>4, LeafOut
<1>9. Sig(sv, m, 2) = Sig(sv, a, 0) /\ Sig(sv, m, 3) = Sig(sv, a, 1)
  <2> HIDE DEF a, m
  <2>1. 0 \in T /\ 1 \in T /\ 2 + 0 = 2 /\ 2 + 1 = 3
    BY DEF T
  <2> QED
    BY <1>8, <2>1
<1>10. \A n \in T : Sig(sv, m, n) = Add(Mul(Arg(m)[<<0, n>>], Sig(sv, a, 0)),
                                        Mul(Arg(m)[<<1, n>>], Sig(sv, a, 1)))
  <2> HIDE DEF a, m
  <2> QED
    BY <1>1, <1>6, <1>9 DEF Ran
<1> HIDE DEF a, m
<1>11. Pair(sv, m) = Mixed(Arg(m), << Sig(sv, a, 0), Sig(sv, a, 1) >>)
  BY <1>10 DEF Pair, Mixed, T
<1>12. << Sig(sv, a, 0), Sig(sv, a, 1) >> = << Add(Pow5(x[1]), C[ArkConstants(r + 1)]),
                                                Add(Pow5(x[2]), C[ArkConstants(r + 1) + 1]) >>
  BY <1>7 DEF Pair
<1>13. Pair(sv, m) = Full(Arg(m), x, ArkConstants(r + 1))
  BY <1>11, <1>12 DEF Full
<1> QED
  BY <1>2, <1>13 DEF m

(* A partial round: the Sigma and the MixS.                                *)
LEMMA PartialRoundComputes ==
  ASSUME NEW sv, Final(sv), NEW r \in 0 .. RP - 1
  PROVE  Pair(sv, 20 + r) = Partial(r, Pair(sv, PrevS(r)))
<1> DEFINE p == PrevS(r)
           x == Pair(sv, p)
           m == 20 + r
           s == 36 + RP + r
           before(j) == IF r = 0 THEN Out(mix(3), j) ELSE Out(mixS(r - 1), j)
<1>1. /\ m \in Leaves /\ m \in Components /\ Kind(m) = "MixS" /\ In(Kind(m)) = {2, 3}
      /\ s \in Leaves /\ s \in 20 + RP .. 35 + 2 * RP /\ Kind(s) = "Sigma" /\ In(Kind(s)) = {1}
      /\ 0 \in Offsets(s)
  BY KindIs, Constants DEF Leaves, Components, In, Offsets
<1>2. Arg(m) = r /\ Index(s) = sigmaP(r)
  <2>1. Arg(m) = r
    BY <1>1 DEF Arg
  <2> QED
    BY <2>1, IndexIs
<1>3. FedFrom(s, 1, before(0)) /\ FedFrom(m, 2, OutPlus(sigmaP(r), 0, C[10 + r])) /\ FedFrom(m, 3, before(1))
  BY PartialFed
<1>4. ASSUME NEW j \in T PROVE p \in Leaves /\ j \in Offsets(p) /\ before(j) = Out(Index(p), j)
  <2>1. CASE r = 0
    <3>1. p = 15 /\ 15 \in Leaves /\ Kind(15) = "Mix"
      BY <2>1, KindIs, Constants DEF PrevS, Leaves
    <3>2. Index(12 + 3) = mix(3)
      BY IndexIs
    <3>3. j \in Offsets(15)
      BY <3>1 DEF Offsets, T
    <3> QED
      BY <2>1, <3>1, <3>2, <3>3
  <2>2. CASE r # 0
    <3> DEFINE k == r - 1
    <3>1. k \in 0 .. RP - 1 /\ 20 + k = 19 + r
      BY <2>2, Constants
    <3>2. Index(20 + k) = mixS(k)
      <4> HIDE DEF k
      <4> QED
        BY <3>1, IndexIs
    <3>3. p = 19 + r /\ 19 + r \in Leaves /\ Kind(19 + r) = "MixS"
      BY <2>2, KindIs, Constants DEF PrevS, Leaves
    <3>4. j \in Offsets(19 + r)
      BY <3>3 DEF Offsets, T
    <3> QED
      BY <2>2, <3>1, <3>2, <3>3, <3>4
  <2> QED
    BY <2>1, <2>2
<1>5. 0 \in T /\ 1 \in T
  BY DEF T
<1>6. Ran(sv, m)
  BY <1>1, LeafFacts DEF Final
<1> HIDE DEF before, m, s, p
<1>7. Sig(sv, s, 1) = Sig(sv, p, 0) /\ Sig(sv, m, 3) = Sig(sv, p, 1)
  <2>1. Sig(sv, s, 1) = Source(sv, 3, before(0))
    BY <1>1, <1>3, WireIs
  <2>2. Sig(sv, m, 3) = Source(sv, 3, before(1))
    BY <1>1, <1>3, WireIs
  <2> QED
    BY <1>4, <1>5, <2>1, <2>2, LeafOut
<1>8. Sig(sv, m, 2) = Add(Pow5(Sig(sv, p, 0)), C[10 + r])
  <2>1. Sig(sv, m, 2) = Source(sv, 3, OutPlus(sigmaP(r), 0, C[10 + r]))
    BY <1>1, <1>3, WireIs
  <2>2. Sig(sv, s, 0) = Pow5(Sig(sv, p, 0))
    BY <1>1, <1>7, SigmaComputes
  <2>3. Source(sv, 3, OutPlus(Index(s), 0, C[10 + r])) = Add(Sig(sv, s, 0), C[10 + r])
    BY <1>1, LeafOut
  <2> QED
    BY <1>2, <2>1, <2>2, <2>3
<1> DEFINE y == Add(Pow5(Sig(sv, p, 0)), C[10 + r])
<1>9. /\ Sig(sv, m, 0) = Add(Mul(S[3 * r], y), Mul(S[3 * r + 1], Sig(sv, p, 1)))
      /\ Sig(sv, m, 1) = Add(Sig(sv, p, 1), Mul(y, S[3 * r + 2]))
  <2>1. Sig(sv, m, 2) = y
    BY <1>8
  <2> HIDE DEF y
  <2> QED
    BY <1>1, <1>2, <1>6, <1>7, <2>1 DEF Ran
<1>10. Pair(sv, m) = Partial(r, x)
  <2>1. x[1] = Sig(sv, p, 0) /\ x[2] = Sig(sv, p, 1)
    BY DEF Pair
  <2> HIDE DEF x
  <2> QED
    BY <1>9, <2>1 DEF Pair, Partial
<1> QED
  BY <1>10 DEF m, p

(* The two Sigma of the last round and the MixLast.                        *)
LEMMA LastRoundComputes ==
  ASSUME NEW sv, Final(sv)
  PROVE  Sig(sv, 19, 0) = Hash(Pair(sv, 18))
<1> DEFINE s(j) == 20 + RP + 14 + j
           x == Pair(sv, 18)
<1>1. /\ 19 \in Leaves /\ 19 \in Components /\ Kind(19) = "MixLast" /\ In(Kind(19)) = {1, 2}
      /\ 18 \in Leaves /\ Kind(18) = "Mix"
  BY KindIs, Constants DEF Leaves, Components, In
<1>2. Index(12 + 6) = mix(6)
  BY IndexIs
<1>3. ASSUME NEW j \in T
      PROVE  Sig(sv, 19, 1 + j) = Pow5(Sig(sv, 18, j))
  <2>1. s(j) \in 20 + RP .. 35 + 2 * RP
    BY Constants DEF T
  <2>2. Kind(s(j)) = "Sigma"
    BY <2>1, KindIs
  <2>3. 0 \in Offsets(s(j)) /\ 1 \in In(Kind(s(j)))
    BY <2>2 DEF Offsets, In
  <2>4. Index(s(j)) = sigmaF(7, j)
    <3>1. Index(20 + RP + 2 * 7 + j) = sigmaF(7, j)
      BY IndexIs
    <3> QED
      BY <3>1
  <2>5. FedFrom(s(j), 1, Out(mix(6), j))
    BY SigmaFed
  <2>6. FedFrom(19, 1 + j, Out(sigmaF(7, j), 0))
    BY MixLastFed
  <2>7. j \in Offsets(18) /\ 1 + j \in In(Kind(19))
    BY <1>1 DEF Offsets, T
  <2> HIDE DEF s
  <2>8. s(j) \in Leaves /\ Sig(sv, s(j), 0) = Pow5(Sig(sv, s(j), 1))
    BY <2>1, SigmaComputes
  <2>9. Sig(sv, s(j), 1) = Source(sv, 3, Out(mix(6), j))
    BY <2>3, <2>5, <2>8, WireIs
  <2>10. Source(sv, 3, Out(Index(18), j)) = Sig(sv, 18, j)
    BY <1>1, <2>7, LeafOut
  <2>11. Sig(sv, 19, 1 + j) = Source(sv, 3, Out(sigmaF(7, j), 0))
    <3> DEFINE i == 1 + j
    <3> HIDE DEF i
    <3>1. Sig(sv, 19, i) = Source(sv, 3, Out(sigmaF(7, j), 0))
      BY <1>1, <2>6, <2>7, WireIs DEF i
    <3> QED
      BY <3>1 DEF i
  <2>12. Source(sv, 3, Out(Index(s(j)), 0)) = Sig(sv, s(j), 0)
    BY <2>3, <2>8, LeafOut
  <2> QED
    BY <1>2, <2>4, <2>8, <2>9, <2>10, <2>11, <2>12
<1>4. Sig(sv, 19, 1) = Pow5(x[1]) /\ Sig(sv, 19, 2) = Pow5(x[2])
  <2>1. 0 \in T /\ 1 \in T /\ 1 + 0 = 1 /\ 1 + 1 = 2
    BY DEF T
  <2> QED
    BY <1>3, <2>1 DEF Pair
<1>5. Ran(sv, 19)
  BY <1>1, LeafFacts DEF Final
<1>6. Sig(sv, 19, 0) = Add(Mul(M[<<0, 0>>], Pow5(x[1])), Mul(M[<<1, 0>>], Pow5(x[2])))
  BY <1>1, <1>4, <1>5 DEF Ran
<1> HIDE DEF x
<1> QED
  BY <1>6 DEF Hash, Mixed, x

-----------------------------------------------------------------------------
(* Auth                                                                    *)

(* What the feeds of Auth and Poseidon copy, and what the two return.      *)
LEMMA OuterWires ==
  ASSUME NEW sv, Final(sv)
  PROVE  /\ Sig(sv, 2, 1) = Sig(sv, 0, 4)
         /\ Sig(sv, 1, 1) = Sig(sv, 2, 0) /\ Sig(sv, 1, 2) = Sig(sv, 0, 1)
         /\ Sig(sv, 36 + 2 * RP, 1) = Sig(sv, 0, 3) /\ Sig(sv, 36 + 2 * RP, 2) = Sig(sv, 0, 2)
         /\ Sig(sv, 3, 2) = 0 /\ Sig(sv, 3, 1) = Sig(sv, 2, 1)
         /\ Sig(sv, 0, 0) = Mul(Sig(sv, 1, 0), Sig(sv, 36 + 2 * RP, 0))
         /\ Sig(sv, 2, 0) = Sig(sv, 19, 0)
<1>1. /\ \A n \in 1 .. 5 : Wired(sv, 0, n)
      /\ \A n \in 1 .. 2 : Wired(sv, 2, n)
  BY BodyLengths DEF Final, Callers
<1>2. Returned(sv, 0) /\ Returned(sv, 2) /\ Returned(sv, 3)
  BY DEF Final, Callers
<1>3. Sig(sv, 0, 0) = Mul(Sig(sv, 1, 0), Sig(sv, 36 + 2 * RP, 0))
  BY <1>2 DEF Returned
<1>4. Sig(sv, 2, 0) = Sig(sv, 3, 0) /\ Sig(sv, 3, 0) = Sig(sv, 19, 0)
  BY <1>2 DEF Returned
<1>5. \A c, o : Source(sv, c, Own(o)) = Sig(sv, c, o)
  BY DEF Source, Own
<1>6. Source(sv, 2, Constant(0)) = 0
  BY DEF Source, Constant
<1>7. SubIds(2, End)[0] = 3
  BY ChildrenAre
<1>8. Sig(sv, 3, 2) = 0 /\ Sig(sv, 3, 1) = Sig(sv, 2, 1)
  <2>1. Body(Kind(2))[1] = Feed(0, 2, Constant(0)) /\ Body(Kind(2))[2] = Feed(0, 1, Own(1))
    BY BodyLengths
  <2>2. Wired(sv, 2, 1) /\ Wired(sv, 2, 2)
    BY <1>1
  <2> QED
    BY <1>5, <1>6, <1>7, <2>1, <2>2 DEF Wired, Feed
<1>9. SubIds(0, End)[0] = 2 /\ SubIds(0, End)[1] = 1 /\ SubIds(0, End)[2] = 36 + 2 * RP
  BY ChildrenAre
<1>10. /\ Body(Kind(0))[1] = FeedLast(0, 1, Own(4))
       /\ Body(Kind(0))[2] = FeedFirst(1, 1, Out(0, 0)) /\ Body(Kind(0))[3] = FeedLast(1, 2, Own(1))
       /\ Body(Kind(0))[4] = FeedFirst(2, 1, Own(3)) /\ Body(Kind(0))[5] = FeedLast(2, 2, Own(2))
  BY BodyLengths DEF AuthBody, hasher, hashCheck, roleCheck
<1>11. Source(sv, 0, Out(0, 0)) = Sig(sv, 2, 0)
  <2>1. Source(sv, 0, Out(0, 0)) = Add(Sig(sv, 2, 0), 0)
    BY <1>9 DEF Source, Out
  <2>2. 2 \in Components /\ 0 \in Offsets(2)
    BY KindIs, Constants DEF Components, Offsets
  <2> QED
    BY <2>1, <2>2, AddZero DEF Final, Signal
<1>12. /\ Wired(sv, 0, 1) /\ Wired(sv, 0, 2) /\ Wired(sv, 0, 3)
       /\ Wired(sv, 0, 4) /\ Wired(sv, 0, 5)
  BY <1>1
<1>13. Sig(sv, 2, 1) = Sig(sv, 0, 4)
  BY <1>5, <1>9, <1>10, <1>12 DEF Wired, FeedLast
<1>14. Sig(sv, 1, 1) = Sig(sv, 2, 0)
  BY <1>9, <1>10, <1>11, <1>12 DEF Wired, FeedFirst
<1>15. Sig(sv, 1, 2) = Sig(sv, 0, 1) /\ Sig(sv, 36 + 2 * RP, 2) = Sig(sv, 0, 2)
  BY <1>5, <1>9, <1>10, <1>12 DEF Wired, FeedLast
<1>16. Sig(sv, 36 + 2 * RP, 1) = Sig(sv, 0, 3)
  BY <1>5, <1>9, <1>10, <1>12 DEF Wired, FeedFirst
<1> QED
  BY <1>3, <1>4, <1>8, <1>13, <1>14, <1>15, <1>16

(* The first Ark: it adds its constants to zero and to the password.       *)
LEMMA FirstArkComputes ==
  ASSUME NEW sv, Final(sv)
  PROVE  Pair(sv, 4) = << C[0], Add(Sig(sv, 0, 4), C[1]) >>
<1>1. 4 \in Leaves /\ 4 \in Components /\ Kind(4) = "Ark" /\ In(Kind(4)) = {2, 3} /\ Arg(4) = 0
  <2>1. 4 \in Leaves /\ 4 \in Components /\ Kind(4) = "Ark"
    BY KindIs, Constants DEF Leaves, Components
  <2> QED
    BY <2>1 DEF In, Arg, ArkConstants
<1>2. ASSUME NEW j \in T PROVE Sig(sv, 4, 2 + j) = Sig(sv, 3, 2 - j)
  <2>1. FedFrom(4, 2 + j, Own(2 - j))
    <3>1. 0 \in 0 .. 6
      OBVIOUS
    <3> QED
      BY <3>1, ArkFed
  <2> DEFINE i == 2 + j
  <2>2. i \in In(Kind(4))
    BY <1>1 DEF T
  <2> HIDE DEF i
  <2>3. Sig(sv, 4, i) = Source(sv, 3, Own(2 - j))
    BY <1>1, <2>1, <2>2, WireIs DEF i
  <2>4. Source(sv, 3, Own(2 - j)) = Sig(sv, 3, 2 - j)
    BY DEF Source, Own
  <2> QED
    BY <2>3, <2>4 DEF i
<1>3. Sig(sv, 4, 2) = Sig(sv, 3, 2) /\ Sig(sv, 4, 3) = Sig(sv, 3, 1)
  <2>1. 0 \in T /\ 1 \in T /\ 2 + 0 = 2 /\ 2 + 1 = 3 /\ 2 - 0 = 2 /\ 2 - 1 = 1
    BY DEF T
  <2> QED
    BY <1>2, <2>1
<1>4. Ran(sv, 4)
  BY <1>1, LeafFacts DEF Final
<1>5. Sig(sv, 4, 0) = Add(0, C[0]) /\ Sig(sv, 4, 1) = Add(Sig(sv, 0, 4), C[1])
  <2>1. Sig(sv, 4, 2) = 0 /\ Sig(sv, 4, 3) = Sig(sv, 0, 4)
    BY <1>3, OuterWires
  <2>2. /\ Sig(sv, 4, 0) = Add(Sig(sv, 4, 2), C[Arg(4)])
        /\ Sig(sv, 4, 1) = Add(Sig(sv, 4, 3), C[Arg(4) + 1])
    BY <1>1, <1>4 DEF Ran
  <2> QED
    BY <1>1, <2>1, <2>2
<1>6. Add(0, C[0]) = C[0]
  <2>1. C[0] \in Value /\ C[0] # Unset /\ 0 # Unset /\ q \in Nat \ {0}
    BY Constants
  <2>2. C[0] \in 0 .. q - 1 /\ 0 + C[0] = C[0]
    BY <2>1 DEF Value
  <2>3. C[0] % q = C[0]
    BY <2>1, <2>2, SmallMod
  <2> QED
    BY <2>1, <2>2, <2>3 DEF Add
<1> QED
  BY <1>5, <1>6 DEF Pair

(* The first half of the full rounds.                                      *)
LEMMA FirstHalfComputes ==
  ASSUME NEW sv, Final(sv)
  PROVE  Pair(sv, 15) = FirstHalf(Sig(sv, 0, 4))
<1>1. /\ ArkConstants(0 + 1) = 2 /\ ArkConstants(1 + 1) = 4
      /\ ArkConstants(2 + 1) = 6 /\ ArkConstants(3 + 1) = 8
      /\ Prev(0) = 4 /\ Prev(1) = 12 + 0 /\ Prev(2) = 12 + 1 /\ Prev(3) = 12 + 2
  BY DEF ArkConstants, Prev
<1> DEFINE Round(r) == Pair(sv, 12 + r) = Full(IF r = 3 THEN P ELSE M, Pair(sv, Prev(r)), ArkConstants(r + 1))
<1>2. Round(0) /\ Round(1) /\ Round(2) /\ Round(3)
  <2>1. \A r \in 0 .. 6 : Round(r)
    BY FullRoundComputes
  <2> HIDE DEF Round
  <2> QED
    BY <2>1
<1>3. Pair(sv, 12 + 0) = Full(M, Pair(sv, 4), 2)
  BY <1>1, <1>2
<1>4. Pair(sv, 12 + 1) = Full(M, Pair(sv, 12 + 0), 4)
  BY <1>1, <1>2
<1>5. Pair(sv, 12 + 2) = Full(M, Pair(sv, 12 + 1), 6)
  BY <1>1, <1>2
<1>6. Pair(sv, 12 + 3) = Full(P, Pair(sv, 12 + 2), 8)
  BY <1>1, <1>2
<1> QED
  BY <1>3, <1>4, <1>5, <1>6, FirstArkComputes DEF FirstHalf

(* The second half of the full rounds.                                     *)
LEMMA LastHalfComputes ==
  ASSUME NEW sv, Final(sv)
  PROVE  Pair(sv, 18) = LastHalf(Pair(sv, 19 + RP))
<1>1. /\ ArkConstants(4 + 1) = RP + 10 /\ ArkConstants(5 + 1) = RP + 12 /\ ArkConstants(6 + 1) = RP + 14
      /\ Prev(4) = 19 + RP /\ Prev(5) = 12 + 4 /\ Prev(6) = 12 + 5
  BY Constants DEF ArkConstants, Prev
<1> DEFINE Round(r) == Pair(sv, 12 + r) = Full(IF r = 3 THEN P ELSE M, Pair(sv, Prev(r)), ArkConstants(r + 1))
<1>2. Round(4) /\ Round(5) /\ Round(6)
  <2>1. \A r \in 0 .. 6 : Round(r)
    BY FullRoundComputes
  <2> HIDE DEF Round
  <2> QED
    BY <2>1
<1>3. Pair(sv, 12 + 4) = Full(M, Pair(sv, 19 + RP), RP + 10)
  BY <1>1, <1>2
<1>4. Pair(sv, 12 + 5) = Full(M, Pair(sv, 12 + 4), RP + 12)
  BY <1>1, <1>2
<1>5. Pair(sv, 12 + 6) = Full(M, Pair(sv, 12 + 5), RP + 14)
  BY <1>1, <1>2
<1> QED
  BY <1>3, <1>4, <1>5 DEF LastHalf

(* The output of Poseidon is the hash of the password.                     *)
LEMMA HasherComputes ==
  ASSUME NEW sv, Final(sv)
  PROVE  Sig(sv, 2, 0) = Poseidon(Sig(sv, 0, 4))
<1> DEFINE g == [r \in 0 .. RP |-> Pair(sv, PrevS(r))]
           x == Sig(sv, 0, 4)
<1>1. DOMAIN g = 0 .. RP /\ g = [r \in 0 .. RP |-> g[r]]
  OBVIOUS
<1>2. g[0] = FirstHalf(x)
  <2>1. g[0] = Pair(sv, 15)
    BY Constants DEF PrevS
  <2> QED
    BY <2>1, FirstHalfComputes
<1>3. ASSUME NEW r \in 1 .. RP PROVE g[r] = Partial(r - 1, g[r - 1])
  <2> DEFINE k == r - 1
  <2>1. k \in 0 .. RP - 1 /\ 20 + k = 19 + r /\ r # 0 /\ r \in 0 .. RP /\ k \in 0 .. RP
    BY Constants
  <2>2. g[r] = Pair(sv, 19 + r) /\ g[k] = Pair(sv, PrevS(k))
    <3>1. PrevS(r) = 19 + r
      BY <2>1 DEF PrevS
    <3> HIDE DEF k
    <3> QED
      BY <2>1, <3>1
  <2> HIDE DEF k
  <2>3. Pair(sv, 20 + k) = Partial(k, Pair(sv, PrevS(k)))
    BY <2>1, PartialRoundComputes
  <2>4. g[r] = Partial(k, g[k])
    BY <2>1, <2>2, <2>3
  <2> QED
    BY <2>4 DEF k
<1>4. g[RP] = Pair(sv, 19 + RP)
  BY Constants DEF PrevS
<1> HIDE DEF g
<1>5. Poseidon(x) = Hash(LastHalf(g[RP]))
  BY <1>1, <1>2, <1>3, PoseidonIs
<1> QED
  BY <1>4, <1>5, LastHalfComputes, LastRoundComputes, OuterWires

(* IsEqual tells values apart: it is 1 only for equal ones.                *)
LEMMA IsEqualTells ==
  ASSUME NEW x \in Value, NEW y \in Value
  PROVE  IsEqual(x, y) \in Value /\ (IsEqual(x, y) = 1 <=> x = y)
<1> DEFINE d == Sub(x, y)
           m == Mul(d, d)
<1>1. q \in Nat \ {0, 1} /\ 0 \in Value /\ 1 \in Value /\ Unset \notin Value /\ Value = 0 .. q - 1
  BY Constants DEF Value
<1>2. d \in Value /\ m \in Value /\ IsEqual(x, y) \in Value
  <2>1. d \in Value
    BY ArithmeticOnValues
  <2>2. m \in Value
    BY <2>1, ArithmeticOnValues
  <2> QED
    BY <1>1, <2>1, <2>2, ArithmeticOnValues DEF IsEqual
<1>3. d = (x - y) % q
  BY <1>1 DEF Sub
<1>4. d = 0 <=> x = y
  <2>1. x - y \in Int /\ -q <= x - y /\ x - y < 2 * q
    BY <1>1
  <2>2. \/ (x - y) % q = x - y \/ (x - y) % q = x - y + q \/ (x - y) % q = x - y - q
    <3> DEFINE z == x - y
    <3> HIDE DEF z
    <3>1. z % q = z \/ z % q = z + q \/ z % q = z - q
      BY <1>1, <2>1, ModCases DEF z
    <3> QED
      BY <3>1 DEF z
  <2>3. x = y => (x - y) % q = 0
    <3>1. 0 % q = 0
      BY <1>1, SmallMod
    <3>2. x = y => x - y = 0
      BY <1>1
    <3> QED
      BY <3>1, <3>2
  <2> HIDE DEF d
  <2> QED
    BY <1>1, <1>3, <2>2, <2>3
<1> HIDE DEF d
<1>5. m = (d * d) % q
  BY <1>1, <1>2 DEF Mul
<1>6. m = 0 <=> d = 0
  <2>1. m = 0 => d = 0
    BY <1>1, <1>2, <1>5, PrimeProduct, FieldAssumption
  <2>2. d = 0 => m = 0
    BY <1>1, <1>5, SmallMod
  <2> QED
    BY <2>1, <2>2
<1>7. IsEqual(x, y) = (1 - m) % q
  BY <1>1, <1>2 DEF IsEqual, Sub, d
<1> HIDE DEF m
<1>8. (1 - m) % q = 1 <=> m = 0
  <2>1. m \in 0 .. q - 1 /\ q \in Nat /\ q >= 2
    BY <1>1, <1>2
  <2> DEFINE z == 1 - m
  <2>2. z \in Int /\ -q <= z /\ z < 2 * q
    BY <2>1
  <2> HIDE DEF z
  <2>3. z % q = z \/ z % q = z + q \/ z % q = z - q
    BY <1>1, <2>2, ModCases
  <2>4. z = 1 => z % q = 1
    BY <1>1, SmallMod
  <2> QED
    BY <2>1, <2>3, <2>4 DEF z
<1> QED
  BY <1>2, <1>4, <1>6, <1>7, <1>8

(***************************************************************************)
(* What run has computed when it returns: the product of the comparisons   *)
(* of the hash of the password and of the role with what is stored, which  *)
(* is 1 if both match and not 1 if one of them does.                       *)
(***************************************************************************)
THEOREM RunComputesAuth == Spec => []ComputesAuth
<1>1. RunInv => ComputesAuth
  <2> DEFINE hash    == Poseidon(password)
             first   == IsEqual(hash, storedHash)
             second  == IsEqual(role, storedRole)
             matches == hash = storedHash
             same    == role = storedRole
  <2> SUFFICES ASSUME RunInv, Done
               PROVE  /\ isAuthenticated = Mul(first, second)
                      /\ matches /\ same => isAuthenticated = 1
                      /\ matches # same => isAuthenticated # 1
    BY DEF ComputesAuth
  <2> DEFINE sv == signalValues
  <2>1. Final(sv)
    <3>1. ValuesAt(signalValues, End)
      BY DoneIsEnd DEF StateAt
    <3> QED
      BY <3>1, EndIsFinal
  <2>2. Start(0) = 1 /\ Offsets(0) = 0 .. 4 /\ 0 \in Components
    BY StartIs, Constants DEF Components
  <2>3. /\ Sig(sv, 0, 0) = isAuthenticated /\ Sig(sv, 0, 1) = storedHash /\ Sig(sv, 0, 2) = storedRole
        /\ Sig(sv, 0, 3) = role /\ Sig(sv, 0, 4) = password
    BY <2>2 DEF Sig, isAuthenticated, storedHash, storedRole, role, password
  <2>4. storedHash \in Value /\ storedRole \in Value /\ role \in Value
    <3>1. \A o \in 0 .. 4 : Sig(sv, 0, o) \in Value
      BY <2>1, <2>2 DEF Final
    <3> HIDE DEF sv
    <3> QED
      BY <2>3, <3>1
  <2> HIDE DEF sv
  <2>5. hash = Sig(sv, 2, 0)
    BY <2>1, <2>3, HasherComputes
  <2>6. hash \in Value
    <3>1. 2 \in Components /\ 0 \in Offsets(2)
      BY StartIs, Constants DEF Components
    <3> QED
      BY <2>1, <2>5, <3>1 DEF Final
  <2>7. \A c \in {1, 36 + 2 * RP} : Sig(sv, c, 0) = IsEqual(Sig(sv, c, 1), Sig(sv, c, 2))
    <3> SUFFICES ASSUME NEW c \in {1, 36 + 2 * RP}
                 PROVE  Sig(sv, c, 0) = IsEqual(Sig(sv, c, 1), Sig(sv, c, 2))
      OBVIOUS
    <3>1. c \in Components /\ Kind(c) = "IsEqual" /\ Simple(c)
      BY KindIs, Constants DEF Components, Simple, Composite
    <3> QED
      BY <2>1, <3>1 DEF Final, Ran
  <2>8. Sig(sv, 1, 0) = first /\ Sig(sv, 36 + 2 * RP, 0) = second
    <3>1. Sig(sv, 1, 1) = hash /\ Sig(sv, 1, 2) = storedHash
      BY <2>1, <2>3, <2>5, OuterWires
    <3>2. Sig(sv, 36 + 2 * RP, 1) = role /\ Sig(sv, 36 + 2 * RP, 2) = storedRole
      BY <2>1, <2>3, OuterWires
    <3> HIDE DEF hash
    <3> QED
      BY <2>7, <3>1, <3>2
  <2>9. isAuthenticated = Mul(first, second)
    BY <2>1, <2>3, <2>8, OuterWires
  <2> HIDE DEF hash
  <2>10. /\ first \in Value /\ (first = 1 <=> matches)
         /\ second \in Value /\ (second = 1 <=> same)
    BY <2>4, <2>6, IsEqualTells
  <2> HIDE DEF first, second
  <2>11. \A x \in Value : Mul(1, x) = x /\ Mul(x, 1) = x
    <3> SUFFICES ASSUME NEW x \in Value PROVE Mul(1, x) = x /\ Mul(x, 1) = x
      OBVIOUS
    <3>1. q \in Nat \ {0, 1} /\ 1 \in Value /\ Unset \notin Value /\ x \in 0 .. q - 1
      BY Constants DEF Value
    <3>2. 1 * x = x /\ x * 1 = x /\ x % q = x
      BY <3>1, SmallMod
    <3> QED
      BY <3>1, <3>2 DEF Mul
  <2>12. matches => isAuthenticated = second
    BY <2>9, <2>10, <2>11
  <2>13. same => isAuthenticated = first
    BY <2>9, <2>10, <2>11
  <2>14. matches /\ same => isAuthenticated = 1
    BY <2>10, <2>12
  <2>15. matches # same => isAuthenticated # 1
    <3>1. CASE matches
      BY <2>10, <2>12, <3>1
    <3>2. CASE ~matches
      <4>1. (matches # same) => same
        BY <3>2
      <4> QED
        BY <2>10, <2>13, <3>2, <4>1
    <3> QED
      BY <3>1, <3>2
  <2> QED
    BY <2>9, <2>14, <2>15
<1> QED
  BY <1>1, ClockDetermines, PTL
=============================================================================
