------------------------ MODULE GenerateWitnessProofs ------------------------
(***************************************************************************)
(* Theorems about the JavaScript calculator and its script: a call throws  *)
(* exactly for the inputs that are refused, overlapping calls return the   *)
(* witness of the last one, a client that awaits each call has a           *)
(* WitnessService, and the script keeps the promise of WitnessFile.        *)
(***************************************************************************)
EXTENDS GenerateWitness, CommonLemmas, FiniteSetTheorems

Mem == [signals : [Signals -> Value \cup {Blank}],
        left : 0 .. Cardinality(InputSignals), ok : BOOLEAN]

-----------------------------------------------------------------------------
(* The operations of the instance keep its memory well-formed.             *)

LEMMA InputCount ==
  /\ Cardinality(InputSignals) \in Nat \ {0}
  /\ \A A \in SUBSET InputSignals :
       IsFiniteSet(A) /\ Cardinality(InputSignals \ A) \in 0 .. Cardinality(InputSignals)
<1>1. IsFiniteSet(InputSignals) /\ InputSignals # {}
  BY InstanceAssumption
<1>2. Cardinality(InputSignals) \in Nat /\ Cardinality(InputSignals) # 0
  BY <1>1, FS_CardinalityType, FS_EmptySet
<1>3. ASSUME NEW A \in SUBSET InputSignals
      PROVE  IsFiniteSet(A) /\ Cardinality(InputSignals \ A) \in 0 .. Cardinality(InputSignals)
  <2>1. IsFiniteSet(A)
    BY <1>1, FS_Subset
  <2>2. InputSignals \ A \in SUBSET InputSignals
    OBVIOUS
  <2>3. /\ IsFiniteSet(InputSignals \ A)
        /\ Cardinality(InputSignals \ A) <= Cardinality(InputSignals)
    BY <1>1, <2>2, FS_Subset
  <2>4. Cardinality(InputSignals \ A) \in Nat
    BY <2>3, FS_CardinalityType
  <2> QED
    BY <1>2, <2>1, <2>3, <2>4
<1> QED
  BY <1>2, <1>3

LEMMA ThrowType ==
  ASSUME NEW m \in Mem
  PROVE  throw(m) \in Mem /\ ~throw(m).ok
BY DEF Mem, throw

(* What an item of a key that has one value for each signal says of them.  *)
LEMMA ItemSignals ==
  ASSUME NEW it \in Item, Len(it.vals) = SizeOfKey[it.key]
  PROVE  \A n \in 1 .. Len(it.vals) :
           /\ SignalOfKey[it.key] \in Int
           /\ SignalOfKey[it.key] + n - 1 \in SignalsOf(it.key)
           /\ SignalsOf(it.key) = SignalOfKey[it.key] .. SignalOfKey[it.key] + Len(it.vals) - 1
           /\ it.vals[n] \in Value \cup {BadNumber}
<1> TAKE n \in 1 .. Len(it.vals)
<1>1. it.key \in Key /\ it.vals \in Seq(Value \cup {BadNumber}) /\ Len(it.vals) \in Nat
  BY DEF Item
<1>2. SizeOfKey[it.key] # 0 /\ SignalOfKey[it.key] # NoSignal
  BY <1>1, InstanceAssumption
<1>3. SignalOfKey[it.key] \in Int
  BY <1>1, <1>2, InstanceAssumption
<1>4. SignalsOf(it.key) = SignalOfKey[it.key] .. SignalOfKey[it.key] + Len(it.vals) - 1
  BY <1>2 DEF SignalsOf
<1>5. SignalOfKey[it.key] + n - 1 \in SignalsOf(it.key)
  BY <1>1, <1>3, <1>4
<1> QED
  BY <1>1, <1>3, <1>4, <1>5

LEMMA RunType ==
  ASSUME NEW m \in Mem
  PROVE  /\ InputOf(m.signals) \in [InputSignals -> Value \cup {Blank}]
         /\ run(m) \in Mem /\ run(m).left = m.left
         /\ run(m).ok = (Evaluated(InputOf(m.signals)) = ComputedSignals)
         /\ \A s \in Signals : run(m).signals[s] =
              IF s \in Evaluated(InputOf(m.signals)) THEN Circuit(InputOf(m.signals), s) ELSE m.signals[s]
<1> DEFINE in == InputOf(m.signals)
           new == [s \in Signals |-> IF s \in Evaluated(in) THEN Circuit(in, s) ELSE m.signals[s]]
<1>1. m.signals \in [Signals -> Value \cup {Blank}] /\ InputSignals \subseteq Signals
  BY DEF Mem, Signals
<1>2. in \in [InputSignals -> Value \cup {Blank}]
  BY <1>1 DEF InputOf
<1>3. \A s \in Evaluated(in) : Circuit(in, s) \in Value
  BY <1>2, CircuitAssumption
<1>4. new \in [Signals -> Value \cup {Blank}]
  BY <1>1, <1>3
<1>5. run(m) = [m EXCEPT !.signals = new, !.ok = Evaluated(in) = ComputedSignals]
  BY DEF run
<1>6. (Evaluated(in) = ComputedSignals) \in BOOLEAN
  OBVIOUS
<1>7. \A s \in Signals : new[s] = IF s \in Evaluated(in) THEN Circuit(in, s) ELSE m.signals[s]
  OBVIOUS
<1> HIDE DEF in, new
<1>8. run(m) \in Mem /\ run(m).left = m.left /\ run(m).ok = (Evaluated(in) = ComputedSignals) /\ run(m).signals = new
  BY <1>4, <1>5, <1>6 DEF Mem
<1>9. in = InputOf(m.signals)
  BY DEF in
<1> QED
  BY <1>2, <1>7, <1>8, <1>9

-----------------------------------------------------------------------------
(* What a call for input j leaves once the inputs A are set: the counter   *)
(* is right, their values are those of j, and when they are all inputs the *)
(* circuit has run. If something was thrown, j is not accepted.            *)
Fed(j, A, m) ==
  /\ m \in Mem /\ m.signals[0] = One
  /\ m.ok =>
       /\ m.left = Cardinality(InputSignals \ A)
       /\ \A s \in A : m.signals[s] = Inputs(j)[s]
       /\ A = InputSignals =>
            /\ Evaluated(Inputs(j)) = ComputedSignals
            /\ \A s \in ComputedSignals : m.signals[s] = Circuit(Inputs(j), s)
  /\ ~m.ok => ~Accepted(j)

LEMMA JsonItem ==
  ASSUME NEW j \in Json
  PROVE  /\ Len(j) \in Nat /\ DOMAIN j = 1 .. Len(j)
         /\ \A n \in 1 .. Len(j) : j[n] \in Item /\ j[n] \in Range(j)
         /\ \A it \in Range(j) : \E n \in 1 .. Len(j) : it = j[n]
         /\ \A m, n \in 1 .. Len(j) : m # n => SignalsOf(j[m].key) \cap SignalsOf(j[n].key) = {}
<1>1. j \in Seq(Item)
  BY InputsAssumption
<1>2. Len(j) \in Nat /\ DOMAIN j = 1 .. Len(j) /\ \A n \in 1 .. Len(j) : j[n] \in Item
  BY <1>1
<1>3. \A m, n \in 1 .. Len(j) : m # n => j[m].key # j[n].key
  BY <1>2, InputsAssumption
<1>4. \A n \in 1 .. Len(j) : j[n].key \in Key
  BY <1>2 DEF Item
<1>5. \A m, n \in 1 .. Len(j) : m # n => SignalsOf(j[m].key) \cap SignalsOf(j[n].key) = {}
  BY <1>3, <1>4, InstanceAssumption
<1> QED
  BY <1>2, <1>5 DEF Range

(* The value of a signal is the one that the item which covers it has.     *)
LEMMA InputsValue ==
  ASSUME NEW j \in Json, NEW n \in 1 .. Len(j), NEW i \in 1 .. Len(j[n].vals),
         Len(j[n].vals) = SizeOfKey[j[n].key]
  PROVE  /\ SignalOfKey[j[n].key] + i - 1 \in InputSignals
         /\ SignalOfKey[j[n].key] + i - 1 \in SignalsOf(j[n].key)
         /\ Inputs(j)[SignalOfKey[j[n].key] + i - 1] = j[n].vals[i]
<1> DEFINE it == j[n]
           s == SignalOfKey[it.key] + i - 1
           found == CHOOSE x \in Range(j) : Covers(x, s)
<1>1. it \in Item /\ it \in Range(j) /\ it.key \in Key
  BY JsonItem DEF Item
<1>2. s \in SignalsOf(it.key) /\ SignalOfKey[it.key] \in Int
  BY <1>1, ItemSignals
<1>3. s \in InputSignals
  BY <1>1, <1>2, InstanceAssumption
<1>4. \A x \in Range(j) : Covers(x, s) => x = it
  <2> TAKE x \in Range(j)
  <2>1. PICK p \in 1 .. Len(j) : x = j[p]
    BY JsonItem
  <2>2. CASE p = n
    BY <2>1, <2>2
  <2>3. CASE p # n
    <3>1. SignalsOf(j[p].key) \cap SignalsOf(j[n].key) = {}
      BY <2>3, JsonItem
    <3>2. s \notin SignalsOf(x.key)
      BY <3>1, <2>1, <1>2
    <3> QED
      BY <3>2 DEF Covers
  <2> QED
    BY <2>2, <2>3
<1>5. Covers(it, s)
  BY <1>2 DEF Covers
<1>6. found = it
  BY <1>1, <1>4, <1>5
<1>7. Inputs(j)[s] = found.vals[s - SignalOfKey[found.key] + 1]
  BY <1>3 DEF Inputs
<1>8. s - SignalOfKey[it.key] + 1 = i
  BY <1>2
<1> QED
  BY <1>2, <1>3, <1>6, <1>7, <1>8

(* setInputSignal for the next input.                                      *)
LEMMA InputFed ==
  ASSUME NEW j \in Json, NEW A \in SUBSET InputSignals, NEW s \in InputSignals \ A,
         NEW m, Fed(j, A, m), m.ok, NEW v \in Value, v = Inputs(j)[s]
  PROVE  Fed(j, A \cup {s}, setInputSignal(m, s, v))
<1> DEFINE set == [m EXCEPT !.signals[s] = v, !.left = @ - 1]
           B == A \cup {s}
<1>1. /\ m \in Mem /\ m.signals[0] = One /\ m.left = Cardinality(InputSignals \ A)
      /\ \A t \in A : m.signals[t] = Inputs(j)[t]
  BY DEF Fed
<1>2. /\ m.signals \in [Signals -> Value \cup {Blank}] /\ m.left \in 0 .. Cardinality(InputSignals)
      /\ m.ok \in BOOLEAN /\ InputSignals \subseteq Signals /\ 0 \in Signals /\ 0 \notin InputSignals
      /\ Cardinality(InputSignals) \in Nat
  BY <1>1, InstanceAssumption, InputCount DEF Mem, Signals
<1>3. /\ Cardinality(InputSignals \ B) = m.left - 1 /\ m.left - 1 \in Nat
      /\ (m.left - 1 = 0 <=> B = InputSignals)
  <2>1. IsFiniteSet(InputSignals \ A) /\ s \in InputSignals \ A
    BY InstanceAssumption, FS_Subset
  <2>2. Cardinality((InputSignals \ A) \ {s}) = Cardinality(InputSignals \ A) - 1
    BY <2>1, FS_RemoveElement
  <2>3. (InputSignals \ A) \ {s} = InputSignals \ B
    OBVIOUS
  <2>4. IsFiniteSet(InputSignals \ B) /\ Cardinality(InputSignals \ B) \in Nat
    BY InstanceAssumption, FS_Subset, FS_CardinalityType
  <2>5. Cardinality(InputSignals \ B) = 0 <=> InputSignals \ B = {}
    BY <2>4, FS_EmptySet
  <2>6. InputSignals \ B = {} <=> B = InputSignals
    OBVIOUS
  <2> QED
    BY <1>1, <2>2, <2>3, <2>4, <2>5, <2>6
<1>4. /\ set \in Mem /\ set.left = m.left - 1 /\ set.ok /\ set.signals[s] = v
      /\ \A t \in Signals : t # s => set.signals[t] = m.signals[t]
  <2> DEFINE sg == [m.signals EXCEPT ![s] = v]
             left == m.left - 1
  <2>1. /\ sg \in [Signals -> Value \cup {Blank}] /\ sg[s] = v
        /\ \A t \in Signals : t # s => sg[t] = m.signals[t]
    BY <1>2
  <2>2. left \in 0 .. Cardinality(InputSignals)
    BY <1>2, <1>3
  <2>3. set = [m EXCEPT !.signals = sg, !.left = left]
    BY <1>1 DEF Mem
  <2> HIDE DEF sg, left, set
  <2>4. set \in Mem /\ set.left = left /\ set.ok = m.ok /\ set.signals = sg
    BY <1>1, <2>1, <2>2, <2>3 DEF Mem
  <2> QED
    BY <2>1, <2>4 DEF left
<1>5. setInputSignal(m, s, v) = IF set.left = 0 THEN run(set) ELSE set
  BY <1>2, <1>3 DEF setInputSignal
<1> HIDE DEF set
<1>6. set.signals[0] = One /\ \A t \in B : set.signals[t] = Inputs(j)[t]
  BY <1>1, <1>2, <1>4
<1>7. CASE set.left # 0
  <2>1. B # InputSignals /\ setInputSignal(m, s, v) = set /\ set.left = Cardinality(InputSignals \ B)
    BY <1>3, <1>4, <1>5, <1>7
  <2> HIDE DEF B
  <2>2. Fed(j, B, set)
    BY <1>4, <1>6, <2>1 DEF Fed
  <2> QED
    BY <2>1, <2>2 DEF B
<1>8. CASE set.left = 0
  <2>1. B = InputSignals /\ setInputSignal(m, s, v) = run(set)
    BY <1>3, <1>4, <1>5, <1>8
  <2>2. InputOf(set.signals) = Inputs(j)
    <3>1. InputOf(set.signals) = [t \in InputSignals |-> Inputs(j)[t]]
      BY <1>6, <2>1 DEF InputOf
    <3>2. Inputs(j) = [t \in InputSignals |-> Inputs(j)[t]]
      BY DEF Inputs
    <3> QED
      BY <3>1, <3>2
  <2>3. /\ run(set) \in Mem /\ run(set).left = 0
        /\ run(set).ok = (Evaluated(Inputs(j)) = ComputedSignals)
        /\ \A t \in Signals : run(set).signals[t] =
             IF t \in Evaluated(Inputs(j)) THEN Circuit(Inputs(j), t) ELSE set.signals[t]
        /\ Inputs(j) \in [InputSignals -> Value \cup {Blank}]
    BY <1>4, <1>8, <2>2, RunType
  <2>4. Evaluated(Inputs(j)) \subseteq ComputedSignals
    BY <2>3, CircuitAssumption
  <2>5. run(set).signals[0] = One /\ \A t \in InputSignals : run(set).signals[t] = Inputs(j)[t]
    BY <1>2, <1>6, <2>1, <2>3, <2>4, InstanceAssumption
  <2>6. \A t \in Evaluated(Inputs(j)) : run(set).signals[t] = Circuit(Inputs(j), t)
    BY <2>3, <2>4 DEF Signals
  <2>7. run(set).ok \/ ~Accepted(j)
    BY <2>3 DEF Accepted
  <2>8. Cardinality(InputSignals \ B) = 0
    BY <1>3, <1>4, <1>8
  <2>9. run(set).ok => Evaluated(Inputs(j)) = ComputedSignals
    BY <2>3
  <2> HIDE DEF B
  <2>10. Fed(j, B, run(set))
    BY <2>1, <2>3, <2>5, <2>6, <2>7, <2>8, <2>9 DEF Fed
  <2> QED
    BY <2>1, <2>10 DEF B
<1> QED
  BY <1>7, <1>8

LEMMA ValueType ==
  ASSUME NEW m \in Mem, NEW it \in Item, Len(it.vals) = SizeOfKey[it.key], NEW i \in 1 .. Len(it.vals)
  PROVE  setValue(m, it, i) \in Mem
<1> DEFINE s == SignalOfKey[it.key] + i - 1
           v == it.vals[i]
<1>1. throw(m) \in Mem
  BY ThrowType
<1>2. CASE ~m.ok \/ v = BadNumber
  BY <1>1, <1>2 DEF setValue
<1>3. CASE m.ok /\ v # BadNumber /\ m.left = 0
  BY <1>1, <1>3 DEF setValue, setInputSignal
<1>4. CASE m.ok /\ v # BadNumber /\ m.left # 0
  <2> DEFINE sg == [m.signals EXCEPT ![s] = v]
             left == m.left - 1
             set == [m EXCEPT !.signals[s] = v, !.left = @ - 1]
  <2>1. v \in Value
    BY <1>4, ItemSignals
  <2>2. m.signals \in [Signals -> Value \cup {Blank}] /\ m.left \in 0 .. Cardinality(InputSignals)
    BY DEF Mem
  <2>3. sg \in [Signals -> Value \cup {Blank}] /\ left \in 0 .. Cardinality(InputSignals)
    <3>1. left \in 0 .. Cardinality(InputSignals)
      BY <1>4, <2>2, InputCount
    <3>2. sg \in [Signals -> Value \cup {Blank}]
      BY <2>1, <2>2
    <3> QED
      BY <3>1, <3>2
  <2>4. set = [m EXCEPT !.signals = sg, !.left = left]
    BY DEF Mem
  <2>5. setValue(m, it, i) = IF set.left = 0 THEN run(set) ELSE set
    BY <1>4 DEF setValue, setInputSignal
  <2> HIDE DEF sg, left, set
  <2>6. set \in Mem
    BY <2>3, <2>4 DEF Mem
  <2> QED
    BY <2>5, <2>6, RunType
<1> QED
  BY <1>2, <1>3, <1>4

(* One value, for a signal that is not set yet.                            *)
LEMMA ValueFed ==
  ASSUME NEW j \in Json, NEW n \in 1 .. Len(j), NEW i \in 1 .. Len(j[n].vals),
         Len(j[n].vals) = SizeOfKey[j[n].key],
         NEW A \in SUBSET InputSignals, SignalOfKey[j[n].key] + i - 1 \notin A,
         NEW m, Fed(j, A, m)
  PROVE  Fed(j, A \cup {SignalOfKey[j[n].key] + i - 1}, setValue(m, j[n], i))
<1> DEFINE s == SignalOfKey[j[n].key] + i - 1
           v == j[n].vals[i]
<1>1. m \in Mem /\ throw(m) \in Mem /\ ~throw(m).ok /\ throw(m).signals[0] = One
  BY ThrowType DEF Fed, throw, Mem
<1>2. j[n] \in Item /\ j[n] \in Range(j)
  BY JsonItem
<1>3. s \in InputSignals \ A /\ Inputs(j)[s] = v /\ v \in Value \cup {BadNumber}
  BY <1>2, InputsValue, ItemSignals
<1>4. CASE ~m.ok \/ v = BadNumber
  <2>1. ~Accepted(j)
    <3>1. CASE v = BadNumber
      <4>1. BadNumber \in Range(j[n].vals)
        BY <1>2, <3>1 DEF Range, Item
      <4> QED
        BY <1>2, <4>1 DEF Accepted
    <3> QED
      BY <1>4, <3>1 DEF Fed
  <2> QED
    BY <1>1, <1>4, <2>1 DEF Fed, setValue
<1>5. CASE m.ok /\ v # BadNumber
  <2>1. setValue(m, j[n], i) = setInputSignal(m, s, v) /\ v \in Value
    BY <1>3, <1>5 DEF setValue
  <2> HIDE DEF s, v
  <2>2. Fed(j, A \cup {s}, setInputSignal(m, s, v))
    BY <1>3, <1>5, <2>1, InputFed
  <2> QED
    BY <2>1, <2>2 DEF s, v
<1> QED
  BY <1>4, <1>5

(* The recursion over the values of an item.                               *)
LEMMA ItemRecursion ==
  ASSUME NEW m \in Mem, NEW it \in Item, m.ok, Len(it.vals) = SizeOfKey[it.key]
  PROVE  \E f \in [0 .. Len(it.vals) -> Mem] :
            /\ f[0] = m /\ \A i \in 1 .. Len(it.vals) : f[i] = setValue(f[i - 1], it, i)
            /\ setItem(m, it) = f[Len(it.vals)]
<1> DEFINE N == Len(it.vals)
           step == [p \in Mem \X (1 .. N) |-> setValue(p[1], it, p[2])]
           Is(f) == f = [n \in 0 .. N |-> IF n = 0 THEN m ELSE setValue(f[n - 1], it, n)]
           set == CHOOSE f : Is(f)
<1>1. N \in Nat
  BY DEF Item
<1>2. \A p \in Mem \X (1 .. N) : setValue(p[1], it, p[2]) \in Mem
  BY ValueType
<1>3. step \in StepsOn(N, Mem)
  BY <1>2, Zenon DEF StepsOn
<1> HIDE DEF step
<1>4. PICK f \in [0 .. N -> Mem] : Recursive(f, N, m, step)
  BY <1>1, <1>3, RecursionExists, Zenon
<1>5. f[0] = m /\ \A i \in 1 .. N : f[i] = setValue(f[i - 1], it, i)
  <2>1. f[0] = m /\ \A i \in 1 .. N : f[i] = step[<<f[i - 1], i>>]
    BY <1>4 DEF Recursive
  <2>2. \A i \in 1 .. N : <<f[i - 1], i>> \in Mem \X (1 .. N)
    BY <1>1, <1>4
  <2> QED
    BY <2>1, <2>2 DEF step
<1>6. Is(f)
  BY <1>1, <1>4, <1>5
<1>7. Is(set)
  <2> HIDE DEF Is
  <2> QED
    BY <1>6
<1>8. setItem(m, it) = set[N]
  BY DEF setItem
<1> HIDE DEF set
<1>9. set[0] = m /\ \A i \in 1 .. N : set[i] = setValue(set[i - 1], it, i)
  BY <1>1, <1>7
<1>10. \A i \in 0 .. N : set[i] \in Mem
  <2> DEFINE T == {i \in 0 .. N : set[i] \in Mem}
  <2>1. 0 \in T
    BY <1>1, <1>9
  <2>2. ASSUME NEW i \in 1 .. N, i - 1 \in T PROVE i \in T
    BY <1>1, <1>9, <2>2, ValueType
  <2> HIDE DEF T
  <2>3. \A i \in 0 .. N : i \in T
    BY <1>1, <2>1, <2>2, IntervalInduction
  <2> QED
    BY <2>3 DEF T
<1>11. set \in [0 .. N -> Mem]
  BY <1>7, <1>10
<1> QED
  BY <1>8, <1>9, <1>11

LEMMA ItemType ==
  ASSUME NEW m \in Mem, NEW it \in Item
  PROVE  setItem(m, it) \in Mem
<1>1. CASE ~m.ok \/ Len(it.vals) # SizeOfKey[it.key]
  BY <1>1, ThrowType DEF setItem
<1>2. CASE m.ok /\ Len(it.vals) = SizeOfKey[it.key]
  <2>1. Len(it.vals) \in 0 .. Len(it.vals)
    BY DEF Item
  <2> QED
    BY <1>2, <2>1, ItemRecursion
<1> QED
  BY <1>1, <1>2

LEMMA ItemsRecursion ==
  ASSUME NEW m \in Mem, NEW j \in Json
  PROVE  \E f \in [0 .. Len(j) -> Mem] :
            /\ f[0] = m /\ \A n \in 1 .. Len(j) : f[n] = setItem(f[n - 1], j[n])
            /\ setItems(m, j) = f[Len(j)]
<1> DEFINE N == Len(j)
           step == [p \in Mem \X (1 .. N) |-> setItem(p[1], j[p[2]])]
           Is(f) == f = [n \in 0 .. N |-> IF n = 0 THEN m ELSE setItem(f[n - 1], j[n])]
           set == CHOOSE f : Is(f)
<1>1. N \in Nat /\ \A n \in 1 .. N : j[n] \in Item
  BY JsonItem
<1>2. \A p \in Mem \X (1 .. N) : setItem(p[1], j[p[2]]) \in Mem
  BY <1>1, ItemType
<1>3. step \in StepsOn(N, Mem)
  BY <1>2, Zenon DEF StepsOn
<1> HIDE DEF step
<1>4. PICK f \in [0 .. N -> Mem] : Recursive(f, N, m, step)
  BY <1>1, <1>3, RecursionExists, Zenon
<1>5. f[0] = m /\ \A n \in 1 .. N : f[n] = setItem(f[n - 1], j[n])
  <2>1. f[0] = m /\ \A n \in 1 .. N : f[n] = step[<<f[n - 1], n>>]
    BY <1>4 DEF Recursive
  <2>2. \A n \in 1 .. N : <<f[n - 1], n>> \in Mem \X (1 .. N)
    BY <1>1, <1>4
  <2> QED
    BY <2>1, <2>2 DEF step
<1>6. Is(f)
  BY <1>1, <1>4, <1>5
<1>7. Is(set)
  <2> HIDE DEF Is
  <2> QED
    BY <1>6
<1>8. setItems(m, j) = set[N]
  BY DEF setItems
<1> HIDE DEF set
<1>9. set[0] = m /\ \A n \in 1 .. N : set[n] = setItem(set[n - 1], j[n])
  BY <1>1, <1>7
<1>10. \A n \in 0 .. N : set[n] \in Mem
  <2> DEFINE T == {n \in 0 .. N : set[n] \in Mem}
  <2>1. 0 \in T
    BY <1>1, <1>9
  <2>2. ASSUME NEW n \in 1 .. N, n - 1 \in T PROVE n \in T
    BY <1>1, <1>9, <2>2, ItemType
  <2> HIDE DEF T
  <2>3. \A n \in 0 .. N : n \in T
    BY <1>1, <2>1, <2>2, IntervalInduction
  <2> QED
    BY <2>3 DEF T
<1>11. set \in [0 .. N -> Mem]
  BY <1>7, <1>10
<1> QED
  BY <1>8, <1>9, <1>11

(* All values of an item whose signals are not set yet.                    *)
LEMMA ItemFed ==
  ASSUME NEW j \in Json, NEW n \in 1 .. Len(j), NEW A \in SUBSET InputSignals,
         A \cap SignalsOf(j[n].key) = {}, NEW m, Fed(j, A, m)
  PROVE  Fed(j, A \cup SignalsOf(j[n].key), setItem(m, j[n]))
<1> DEFINE it == j[n]
<1>1. it \in Item /\ it \in Range(j) /\ m \in Mem /\ it.key \in Key /\ Len(it.vals) \in Nat
  BY JsonItem DEF Fed, Item
<1>2. CASE ~m.ok \/ Len(it.vals) # SizeOfKey[it.key]
  <2>1. ~Accepted(j)
    BY <1>1, <1>2 DEF Accepted, Fed
  <2>2. throw(m) \in Mem /\ ~throw(m).ok /\ throw(m).signals[0] = One
    BY <1>1, ThrowType DEF Fed, throw, Mem
  <2>3. setItem(m, it) = throw(m)
    BY <1>2 DEF setItem
  <2> QED
    BY <2>1, <2>2, <2>3 DEF Fed
<1>3. CASE m.ok /\ Len(it.vals) = SizeOfKey[it.key]
  <2> DEFINE N == Len(it.vals)
             Upto(i) == SignalOfKey[it.key] .. SignalOfKey[it.key] + i - 1
  <2>1. PICK f \in [0 .. N -> Mem] :
          /\ f[0] = m /\ \A i \in 1 .. N : f[i] = setValue(f[i - 1], it, i)
          /\ setItem(m, it) = f[N]
    BY <1>1, <1>3, ItemRecursion
  <2>2. CASE N = 0
    <3>1. SignalsOf(it.key) = {}
      <4>1. SizeOfKey[it.key] = 0 /\ SignalOfKey[it.key] \in InputSignals \cup {NoSignal}
        BY <1>1, <1>3, <2>2, InstanceAssumption
      <4>2. SignalOfKey[it.key] # NoSignal => SignalOfKey[it.key] \in Int
        BY <4>1, InstanceAssumption
      <4> QED
        BY <4>1, <4>2 DEF SignalsOf
    <3>2. A \cup SignalsOf(it.key) = A
      BY <3>1
    <3> QED
      BY <2>1, <2>2, <3>2
  <2>3. CASE N # 0
    <3>1. SignalOfKey[it.key] \in Int /\ SignalsOf(it.key) = Upto(N)
      BY <1>1, <1>3, <2>3, ItemSignals
    <3>2. Upto(N) \subseteq InputSignals
      BY <1>1, <3>1, InstanceAssumption
    <3> DEFINE T == {i \in 0 .. N : Fed(j, A \cup Upto(i), f[i])}
    <3>3. 0 \in T
      <4>1. A \cup Upto(0) = A
        BY <3>1
      <4> HIDE DEF Upto
      <4>2. Fed(j, A \cup Upto(0), f[0])
        BY <2>1, <4>1, Zenon
      <4>3. 0 \in 0 .. N
        BY <1>1
      <4> QED
        BY <4>2, <4>3, Zenon
    <3>4. ASSUME NEW i \in 1 .. N, i - 1 \in T PROVE i \in T
      <4> DEFINE B == A \cup Upto(i - 1)
                 s == SignalOfKey[it.key] + i - 1
      <4>1. Fed(j, B, f[i - 1]) /\ f[i] = setValue(f[i - 1], it, i)
        BY <2>1, <3>4
      <4>2. B \in SUBSET InputSignals /\ s \in Upto(N) /\ s \notin Upto(i - 1)
            /\ Upto(i) = Upto(i - 1) \cup {s}
        <5> DEFINE z == SignalOfKey[it.key]
        <5>1. z \in Int
          BY <3>1
        <5> HIDE DEF z
        <5>2. /\ z + i - 1 \in z .. z + N - 1
              /\ z + i - 1 \notin z .. z + (i - 1) - 1
              /\ z .. z + i - 1 = (z .. z + (i - 1) - 1) \cup {z + i - 1}
              /\ z .. z + (i - 1) - 1 \subseteq z .. z + N - 1
          BY <1>1, <5>1
        <5>3. s \in Upto(N) /\ s \notin Upto(i - 1) /\ Upto(i - 1) \subseteq Upto(N)
              /\ Upto(i) = Upto(i - 1) \cup {s}
          BY <5>2 DEF z
        <5> QED
          BY <3>2, <5>3
      <4>3. s \notin B /\ A \cup Upto(i) = B \cup {s}
        BY <3>1, <4>2
      <4> HIDE DEF B
      <4>4. Fed(j, B \cup {s}, setValue(f[i - 1], it, i))
        BY <1>3, <4>1, <4>2, <4>3, ValueFed
      <4> QED
        <5>1. Fed(j, A \cup Upto(i), f[i])
          BY <4>1, <4>3, <4>4
        <5> QED
          BY <5>1
    <3>5. \A i \in 0 .. N : i \in T
      <4> HIDE DEF T
      <4> QED
        BY <1>1, <3>3, <3>4, IntervalInduction
    <3>6. Fed(j, A \cup Upto(N), f[N])
      <4>1. N \in T
        <5> HIDE DEF T
        <5> QED
          BY <1>1, <3>5
      <4> QED
        BY <4>1
    <3> QED
      BY <2>1, <3>1, <3>6
  <2> QED
    BY <2>2, <2>3
<1> QED
  BY <1>2, <1>3

(* All items: each has signals of its own.                                 *)
LEMMA ItemsFed ==
  ASSUME NEW j \in Json, NEW m, Fed(j, {}, m)
  PROVE  Fed(j, UNION {SignalsOf(j[n].key) : n \in 1 .. Len(j)}, setItems(m, j))
<1> DEFINE N == Len(j)
           Before(n) == UNION {SignalsOf(j[p].key) : p \in 1 .. n}
<1>1. m \in Mem /\ N \in Nat /\ \A n \in 1 .. N : j[n] \in Item /\ j[n].key \in Key
  BY JsonItem DEF Fed, Item
<1>2. PICK f \in [0 .. N -> Mem] :
        /\ f[0] = m /\ \A n \in 1 .. N : f[n] = setItem(f[n - 1], j[n])
        /\ setItems(m, j) = f[N]
  BY <1>1, ItemsRecursion
<1> DEFINE T == {n \in 0 .. N : Fed(j, Before(n), f[n])}
<1>3. 0 \in T
  <2>1. Before(0) = {}
    OBVIOUS
  <2> HIDE DEF Before
  <2>2. Fed(j, Before(0), f[0])
    BY <1>2, <2>1, Zenon
  <2> QED
    BY <1>1, <2>2
<1>4. ASSUME NEW n \in 1 .. N, n - 1 \in T PROVE n \in T
  <2> DEFINE B == Before(n - 1)
             k == j[n].key
  <2>1. Fed(j, B, f[n - 1]) /\ f[n] = setItem(f[n - 1], j[n])
    BY <1>2, <1>4
  <2>2. \A p \in 1 .. n - 1 : p \in 1 .. N /\ p # n /\ j[p].key \in Key
    BY <1>1
  <2>3. B \in SUBSET InputSignals
    BY <2>2, InstanceAssumption
  <2>4. \A p \in 1 .. n - 1 : SignalsOf(j[p].key) \cap SignalsOf(k) = {}
    BY <2>2, JsonItem
  <2>5. B \cap SignalsOf(k) = {}
    BY <2>4
  <2>6. 1 .. n = (1 .. n - 1) \cup {n}
    BY <1>1
  <2>7. Before(n) = B \cup SignalsOf(k)
    BY <2>6
  <2> HIDE DEF B
  <2>8. Fed(j, B \cup SignalsOf(k), setItem(f[n - 1], j[n]))
    BY <1>1, <2>1, <2>3, <2>5, ItemFed
  <2>9. Fed(j, Before(n), f[n])
    BY <2>1, <2>7, <2>8
  <2> QED
    BY <2>9
<1> HIDE DEF T
<1>5. \A n \in 0 .. N : n \in T
  BY <1>1, <1>3, <1>4, IntervalInduction
<1>6. N \in T
  BY <1>1, <1>5
<1> QED
  BY <1>2, <1>6 DEF T

(* Nothing was thrown only if every item is as it should be.               *)
Good(it) == Len(it.vals) = SizeOfKey[it.key] /\ BadNumber \notin Range(it.vals)

LEMMA ItemGood ==
  ASSUME NEW m \in Mem, NEW it \in Item, setItem(m, it).ok
  PROVE  m.ok /\ Good(it)
<1>1. m.ok /\ Len(it.vals) = SizeOfKey[it.key]
  BY ThrowType DEF setItem
<1> DEFINE N == Len(it.vals)
<1>2. N \in Nat /\ DOMAIN it.vals = 1 .. N
  BY DEF Item
<1>3. PICK f \in [0 .. N -> Mem] :
        /\ f[0] = m /\ \A i \in 1 .. N : f[i] = setValue(f[i - 1], it, i)
        /\ setItem(m, it) = f[N]
  BY <1>1, ItemRecursion
<1>4. ASSUME NEW i \in 1 .. N
      PROVE  f[i].ok => f[i - 1].ok /\ it.vals[i] # BadNumber
  <2>1. f[i] = setValue(f[i - 1], it, i) /\ f[i - 1] \in Mem
    BY <1>2, <1>3
  <2> QED
    BY <2>1, ThrowType DEF setValue
<1> DEFINE T == {i \in 0 .. N : f[i].ok => \A p \in 1 .. i : it.vals[p] # BadNumber}
<1>5. 0 \in T
  BY <1>2
<1>6. ASSUME NEW i \in 1 .. N, i - 1 \in T PROVE i \in T
  <2>1. \A p \in 1 .. i : p \in 1 .. i - 1 \/ p = i
    BY <1>2
  <2> QED
    BY <1>4, <1>6, <2>1
<1> HIDE DEF T
<1>7. \A i \in 0 .. N : i \in T
  BY <1>2, <1>5, <1>6, IntervalInduction
<1>8. N \in T
  BY <1>2, <1>7
<1>9. \A p \in 1 .. N : it.vals[p] # BadNumber
  BY <1>3, <1>8 DEF T
<1> QED
  BY <1>1, <1>2, <1>9 DEF Good, Range

LEMMA ItemsGood ==
  ASSUME NEW m \in Mem, NEW j \in Json, setItems(m, j).ok
  PROVE  \A n \in 1 .. Len(j) : Good(j[n])
<1> DEFINE N == Len(j)
<1>1. N \in Nat /\ \A n \in 1 .. N : j[n] \in Item
  BY JsonItem
<1>2. PICK f \in [0 .. N -> Mem] :
        /\ f[0] = m /\ \A n \in 1 .. N : f[n] = setItem(f[n - 1], j[n])
        /\ setItems(m, j) = f[N]
  BY <1>1, ItemsRecursion
<1>3. ASSUME NEW n \in 1 .. N
      PROVE  f[n].ok => f[n - 1].ok /\ Good(j[n])
  <2>1. f[n] = setItem(f[n - 1], j[n]) /\ f[n - 1] \in Mem /\ j[n] \in Item
    BY <1>1, <1>2
  <2> QED
    BY <2>1, ItemGood
<1> DEFINE T == {n \in 0 .. N : f[n].ok => \A p \in 1 .. n : Good(j[p])}
<1>4. 0 \in T
  BY <1>1
<1>5. ASSUME NEW n \in 1 .. N, n - 1 \in T PROVE n \in T
  <2>1. \A p \in 1 .. n : p \in 1 .. n - 1 \/ p = n
    BY <1>1
  <2> QED
    BY <1>3, <1>5, <2>1
<1> HIDE DEF T
<1>6. \A n \in 0 .. N : n \in T
  BY <1>1, <1>4, <1>5, IntervalInduction
<1>7. N \in T
  BY <1>1, <1>6
<1> QED
  BY <1>2, <1>7 DEF T

(* _doCalculateWitness throws exactly for the inputs that are not          *)
(* accepted, and leaves the signals of the others, whatever the memory of  *)
(* the instance held.                                                      *)
LEMMA Calculates ==
  ASSUME NEW j \in Json, signals \in [Signals -> Value \cup {Blank}], signals[0] = One
  PROVE  /\ doCalculateWitness(j).signals \in [Signals -> Value \cup {Blank}]
         /\ doCalculateWitness(j).signals[0] = One
         /\ doCalculateWitness(j).ok \in BOOLEAN
         /\ doCalculateWitness(j).ok <=> Accepted(j)
         /\ Accepted(j) => doCalculateWitness(j).signals = SignalsFor(j)
<1> DEFINE m0 == init(signals)
           m == setItems(m0, j)
           A == UNION {SignalsOf(j[n].key) : n \in 1 .. Len(j)}
<1>1. Cardinality(InputSignals) \in Nat \ {0} /\ InputSignals # {}
  BY InputCount, InstanceAssumption
<1>2. Fed(j, {}, m0)
  <2>1. m0 \in Mem /\ m0.signals[0] = One /\ m0.ok /\ m0.left = Cardinality(InputSignals)
    BY <1>1 DEF init, Mem
  <2>2. InputSignals \ {} = InputSignals
    OBVIOUS
  <2> HIDE DEF m0
  <2> QED
    BY <1>1, <2>1, <2>2 DEF Fed
<1>3. Fed(j, A, m)
  <2> HIDE DEF m0
  <2> QED
    BY <1>2, ItemsFed
<1>4. A \subseteq InputSignals
  <2>1. \A n \in 1 .. Len(j) : j[n].key \in Key
    BY JsonItem DEF Item
  <2> QED
    BY <2>1, InstanceAssumption
<1>5. (\A s \in InputSignals : \E it \in Range(j) : Covers(it, s)) <=> A = InputSignals
  <2>1. ASSUME NEW s \in InputSignals
        PROVE  (\E it \in Range(j) : Covers(it, s)) <=> s \in A
    BY JsonItem DEF Covers
  <2> QED
    BY <1>4, <2>1
<1> HIDE DEF m0, m, A
<1>6. doCalculateWitness(j) = IF m.left > 0 THEN throw(m) ELSE m
  BY DEF doCalculateWitness, m, m0
<1>7. /\ m \in Mem /\ m.signals \in [Signals -> Value \cup {Blank}] /\ m.signals[0] = One
      /\ m.left \in Nat /\ m.ok \in BOOLEAN
      /\ throw(m).signals = m.signals /\ ~throw(m).ok /\ throw(m).ok \in BOOLEAN
  BY <1>1, <1>3 DEF Fed, Mem, throw
<1>8. CASE m.ok /\ m.left = 0
  <2>1. Cardinality(InputSignals \ A) = 0 /\ IsFiniteSet(InputSignals \ A)
    BY <1>3, <1>8, InstanceAssumption, FS_Subset DEF Fed
  <2>2. A = InputSignals
    BY <1>4, <2>1, FS_EmptySet
  <2>3. /\ Evaluated(Inputs(j)) = ComputedSignals
        /\ \A s \in ComputedSignals : m.signals[s] = Circuit(Inputs(j), s)
        /\ \A s \in InputSignals : m.signals[s] = Inputs(j)[s]
    BY <1>3, <1>8, <2>2 DEF Fed
  <2>4. m.signals = SignalsFor(j)
    <3>1. \A s \in Signals : m.signals[s] = SignalsFor(j)[s]
      BY <1>7, <2>3, InstanceAssumption DEF SignalsFor, Signals
    <3> QED
      BY <1>7, <3>1 DEF SignalsFor
  <2>5. Accepted(j)
    <3>1. \A it \in Range(j) : Good(it)
      BY <1>2, <1>8, JsonItem, ItemsGood DEF Fed, m
    <3> QED
      BY <1>5, <2>2, <2>3, <3>1 DEF Accepted, Good
  <2> QED
    <3>1. doCalculateWitness(j) = m
      BY <1>6, <1>8
    <3> QED
      BY <1>7, <1>8, <2>4, <2>5, <3>1
<1>9. CASE ~m.ok
  <2>1. ~Accepted(j)
    BY <1>3, <1>9 DEF Fed
  <2> QED
    <3>1. doCalculateWitness(j) \in {m, throw(m)}
      BY <1>6
    <3>2. /\ doCalculateWitness(j).signals = m.signals /\ ~doCalculateWitness(j).ok
          /\ doCalculateWitness(j).ok \in BOOLEAN
      BY <1>6, <1>7, <1>9, <3>1
    <3> QED
      BY <1>7, <2>1, <3>2
<1>10. CASE m.ok /\ m.left # 0
  <2>1. ~Accepted(j)
    <3>1. InputSignals \ A # {}
      BY <1>3, <1>10, FS_EmptySet DEF Fed
    <3> QED
      BY <1>5, <3>1 DEF Accepted
  <2> QED
    <3>1. doCalculateWitness(j) \in {m, throw(m)}
      BY <1>6
    <3>2. /\ doCalculateWitness(j).signals = m.signals /\ ~doCalculateWitness(j).ok
          /\ doCalculateWitness(j).ok \in BOOLEAN
      BY <1>6, <1>7, <1>10, <3>1
    <3> QED
      BY <1>7, <2>1, <3>2
<1> QED
  BY <1>7, <1>8, <1>9, <1>10

-----------------------------------------------------------------------------
(* The invariant of the calculator: every waiting call was made, is not    *)
(* answered, and is resolved exactly if its input is accepted; the signals *)
(* are those of the last call, if its input is accepted; a client that     *)
(* awaits has at most one call waiting, the last.                          *)
Waiting(n) ==
  /\ asked[queue[n]] \in Json /\ answer[queue[n]] = NoAnswer
  /\ resolved[queue[n]] <=> Accepted(asked[queue[n]])

LastCall ==
  /\ latest \in Calls /\ asked[latest] \in Json
  /\ Accepted(asked[latest]) => signals = SignalsFor(asked[latest])

Right(c) ==
  /\ asked[c] \in Json
  /\ answer[c] = Thrown <=> ~Accepted(asked[c])
  /\ oneAtATime /\ Accepted(asked[c]) => answer[c] = WitnessFor(asked[c])

JsInv ==
  /\ JsTypeOK /\ signals[0] = One
  /\ \A m, n \in 1 .. Len(queue) : queue[m] = queue[n] => m = n
  /\ \A n \in 1 .. Len(queue) : Waiting(n)
  /\ queue # << >> => LastCall
  /\ oneAtATime /\ queue # << >> => Len(queue) = 1 /\ queue[1] = latest
  /\ \A c \in Calls : answer[c] # NoAnswer => Right(c)

LEMMA WitnessType ==
  ASSUME NEW sv \in [Signals -> Value \cup {Blank}]
  PROVE  Witness(sv) \in Witnesses /\ Witness(sv) # NoAnswer /\ Witness(sv) # Thrown
<1>1. \A k \in 1 .. witnessSize : witness2signal[k] \in Signals
  BY InstanceAssumption
<1>2. Witness(sv) \in Witnesses
  BY <1>1 DEF Witness, Witnesses
<1> QED
  BY <1>2, AnswersAssumption

(* What a fresh instance is like, at the start and in each process.        *)
Fresh ==
  /\ oneAtATime \in BOOLEAN
  /\ signals = [s \in Signals |-> IF s = 0 THEN One ELSE Blank]
  /\ asked = [c \in Calls |-> NoAnswer] /\ resolved = [c \in Calls |-> FALSE]
  /\ queue = << >> /\ answer = [c \in Calls |-> NoAnswer] /\ latest = NoAnswer

LEMMA FreshInv == Fresh => JsInv
<1> SUFFICES ASSUME Fresh PROVE JsInv
  OBVIOUS
<1>1. JsTypeOK
  BY CircuitAssumption DEF Fresh, JsTypeOK
<1>2. 0 \in Signals
  BY DEF Signals
<1>3. signals[0] = One
  BY <1>2 DEF Fresh
<1>4. Len(queue) = 0 /\ queue = << >>
  BY DEF Fresh
<1>5. \A c \in Calls : answer[c] = NoAnswer
  BY DEF Fresh
<1> QED
  BY <1>1, <1>3, <1>4, <1>5 DEF JsInv

LEMMA CallInv ==
  ASSUME JsInv, NEW c \in Calls, NEW j \in Json, Call(c, j)
  PROVE  JsInv'
<1> DEFINE m == doCalculateWitness(j)
<1>1. /\ signals \in [Signals -> Value \cup {Blank}] /\ signals[0] = One
      /\ queue \in Seq(Calls) /\ Len(queue) \in Nat /\ asked \in [Calls -> Json \cup {NoAnswer}]
      /\ resolved \in [Calls -> BOOLEAN] /\ answer \in [Calls -> Witnesses \cup {NoAnswer, Thrown}]
      /\ oneAtATime \in BOOLEAN
  BY DEF JsInv, JsTypeOK
<1>2. /\ m.signals \in [Signals -> Value \cup {Blank}] /\ m.signals[0] = One /\ m.ok \in BOOLEAN
      /\ m.ok <=> Accepted(j)
      /\ Accepted(j) => m.signals = SignalsFor(j)
  BY <1>1, Calculates
<1>3. /\ asked[c] = NoAnswer /\ (oneAtATime => queue = << >>)
      /\ signals' = m.signals /\ resolved' = [resolved EXCEPT ![c] = m.ok]
      /\ asked' = [asked EXCEPT ![c] = j] /\ queue' = Append(queue, c) /\ latest' = c
      /\ oneAtATime' = oneAtATime /\ answer' = answer
  BY DEF Call
<1> HIDE DEF m
<1>4. j # NoAnswer /\ NoAnswer \notin Json
  BY AnswersAssumption
<1>5. JsTypeOK' /\ signals'[0] = One
  BY <1>1, <1>2, <1>3 DEF JsTypeOK
<1>6. /\ queue' \in Seq(Calls) /\ Len(queue') = Len(queue) + 1 /\ queue'[Len(queue) + 1] = c
      /\ \A n \in 1 .. Len(queue) : queue'[n] = queue[n] /\ queue[n] \in Calls
  BY <1>1, <1>3
<1>7. \A n \in 1 .. Len(queue) : queue[n] # c
  BY <1>3, <1>4 DEF JsInv, Waiting
<1>8. /\ asked'[c] = j /\ resolved'[c] = m.ok
      /\ \A d \in Calls : d # c => asked'[d] = asked[d] /\ resolved'[d] = resolved[d]
  BY <1>1, <1>3
<1>9. \A n \in 1 .. Len(queue') : n \in 1 .. Len(queue) \/ n = Len(queue) + 1
  BY <1>1, <1>6
<1>10. \A p, n \in 1 .. Len(queue') : queue'[p] = queue'[n] => p = n
  BY <1>6, <1>7, <1>9 DEF JsInv
<1>11. answer[c] = NoAnswer
  BY <1>3, <1>4 DEF JsInv, Right
<1>12. \A n \in 1 .. Len(queue') : Waiting(n)'
  <2> TAKE n \in 1 .. Len(queue')
  <2>1. CASE n \in 1 .. Len(queue)
    <3>1. Waiting(n) /\ queue'[n] = queue[n] /\ queue[n] \in Calls /\ queue[n] # c
      BY <2>1, <1>6, <1>7 DEF JsInv
    <3> QED
      BY <1>3, <1>8, <3>1 DEF Waiting
  <2>2. CASE n = Len(queue) + 1
    <3>1. queue'[n] = c /\ asked'[c] = j /\ answer'[c] = NoAnswer /\ (resolved'[c] <=> Accepted(j))
      BY <1>2, <1>3, <1>6, <1>8, <1>11, <2>2
    <3> QED
      BY <3>1 DEF Waiting
  <2> QED
    BY <1>9, <2>1, <2>2
<1>13. LastCall'
  BY <1>2, <1>3, <1>8 DEF LastCall
<1>14. oneAtATime' => Len(queue') = 1 /\ queue'[1] = latest'
  <2>1. oneAtATime' => Len(queue) = 0
    BY <1>3
  <2> QED
    BY <1>3, <1>6, <2>1
<1>15. ASSUME NEW d \in Calls, answer'[d] # NoAnswer PROVE Right(d)'
  <2>1. d # c /\ Right(d)
    BY <1>3, <1>11, <1>15 DEF JsInv
  <2> QED
    BY <1>3, <1>8, <2>1 DEF Right
<1> QED
  BY <1>5, <1>10, <1>12, <1>13, <1>14, <1>15 DEF JsInv

LEMMA ResumeInv ==
  ASSUME JsInv, Resume
  PROVE  /\ JsInv'
         /\ queue[1] \in Calls /\ answer[queue[1]] = NoAnswer /\ asked[queue[1]] \in Json
         /\ answer'[queue[1]] # NoAnswer
         /\ Accepted(asked[queue[1]]) => answer'[queue[1]] = Witness(signals)
         /\ ~Accepted(asked[queue[1]]) => answer'[queue[1]] = Thrown
         /\ Accepted(asked[latest]) => Witness(signals) = WitnessFor(asked[latest])
         /\ answer' = [answer EXCEPT ![queue[1]] = answer'[queue[1]]]
         /\ UNCHANGED <<oneAtATime, signals, asked, resolved, latest>>
<1> DEFINE c == queue[1]
           w == IF resolved[c] THEN Witness(signals) ELSE Thrown
<1>1. /\ signals \in [Signals -> Value \cup {Blank}] /\ signals[0] = One
      /\ queue \in Seq(Calls) /\ Len(queue) \in Nat /\ asked \in [Calls -> Json \cup {NoAnswer}]
      /\ resolved \in [Calls -> BOOLEAN] /\ answer \in [Calls -> Witnesses \cup {NoAnswer, Thrown}]
  BY DEF JsInv, JsTypeOK
<1>2. /\ queue # << >> /\ Head(queue) = c /\ queue' = Tail(queue)
      /\ UNCHANGED <<oneAtATime, signals, asked, resolved, latest>>
      /\ answer' = [answer EXCEPT ![c] = w]
  BY <1>1 DEF Resume
<1>3. /\ Len(queue) >= 1 /\ c \in Calls
      /\ Len(queue') = Len(queue) - 1 /\ queue' \in Seq(Calls)
      /\ \A n \in 1 .. Len(queue') : queue'[n] = queue[n + 1] /\ n + 1 \in 1 .. Len(queue)
           /\ queue[n + 1] \in Calls
  BY <1>1, <1>2
<1>4. Waiting(1) /\ LastCall
  BY <1>1, <1>2, <1>3 DEF JsInv
<1>5. w \in Witnesses \cup {Thrown} /\ w # NoAnswer /\ (w = Thrown <=> ~resolved[c])
  BY <1>1, WitnessType, AnswersAssumption
<1>6. answer'[c] = w /\ \A d \in Calls : d # c => answer'[d] = answer[d]
  BY <1>1, <1>2, <1>3
<1>7. Accepted(asked[latest]) => Witness(signals) = WitnessFor(asked[latest])
  BY <1>4 DEF LastCall, WitnessFor
<1>8. JsTypeOK'
  <2> HIDE DEF w
  <2> QED
    BY <1>1, <1>2, <1>3, <1>5 DEF JsTypeOK, JsInv
<1>9. \A m, n \in 1 .. Len(queue') : queue'[m] = queue'[n] => m = n
  <2> TAKE m, n \in 1 .. Len(queue')
  <2>1. m + 1 \in 1 .. Len(queue) /\ n + 1 \in 1 .. Len(queue)
        /\ queue'[m] = queue[m + 1] /\ queue'[n] = queue[n + 1]
    BY <1>3
  <2>2. queue[m + 1] = queue[n + 1] => m + 1 = n + 1
    BY <2>1 DEF JsInv
  <2> QED
    BY <2>1, <2>2
<1>10. \A n \in 1 .. Len(queue') : Waiting(n)'
  <2> TAKE n \in 1 .. Len(queue')
  <2>1. n + 1 \in 1 .. Len(queue) /\ queue'[n] = queue[n + 1] /\ queue[n + 1] \in Calls /\ n + 1 # 1
        /\ 1 \in 1 .. Len(queue)
    BY <1>3
  <2>2. queue[n + 1] # c
    BY <2>1 DEF JsInv
  <2>3. Waiting(n + 1)
    BY <2>1 DEF JsInv
  <2> QED
    BY <1>2, <1>6, <2>1, <2>2, <2>3 DEF Waiting
<1>11. queue' # << >> => LastCall'
  BY <1>2, <1>4 DEF LastCall
<1>12. oneAtATime' => queue' = << >>
  <2>1. oneAtATime => Len(queue') = 0
    BY <1>1, <1>2, <1>3 DEF JsInv
  <2> QED
    BY <1>2, <1>3, <2>1
<1>13. ASSUME NEW d \in Calls, answer'[d] # NoAnswer PROVE Right(d)'
  <2>1. CASE d # c
    <3>1. Right(d) /\ answer'[d] = answer[d]
      BY <1>6, <1>13, <2>1 DEF JsInv
    <3> QED
      BY <1>2, <3>1 DEF Right
  <2>2. CASE d = c
    <3>1. asked[c] \in Json /\ (resolved[c] <=> Accepted(asked[c]))
      BY <1>4 DEF Waiting
    <3>2. oneAtATime => c = latest
      BY <1>2 DEF JsInv
    <3>3. oneAtATime /\ Accepted(asked[c]) => w = WitnessFor(asked[c])
      BY <1>7, <3>1, <3>2
    <3> HIDE DEF w
    <3>4. answer'[d] = w /\ asked'[d] = asked[c] /\ oneAtATime' = oneAtATime
      BY <1>2, <1>6, <2>2
    <3> QED
      BY <1>5, <3>1, <3>3, <3>4 DEF Right
  <2> QED
    BY <2>1, <2>2
<1>14. JsInv'
  BY <1>1, <1>2, <1>8, <1>9, <1>10, <1>11, <1>12, <1>13 DEF JsInv
<1>15. asked[c] \in Json /\ answer[c] = NoAnswer /\ (resolved[c] <=> Accepted(asked[c]))
  BY <1>4 DEF Waiting
<1> QED
  BY <1>2, <1>3, <1>5, <1>6, <1>7, <1>14, <1>15

LEMMA JsInductive == Spec => []JsInv
<1>1. Init => JsInv
  BY FreshInv DEF Init, Fresh
<1>2. JsInv /\ [Next]_jsVars => JsInv'
  <2> SUFFICES ASSUME JsInv, [Next]_jsVars PROVE JsInv'
    OBVIOUS
  <2>1. CASE Resume
    BY <2>1, ResumeInv
  <2>2. ASSUME NEW c \in Calls, NEW j \in Json, Call(c, j) PROVE JsInv'
    BY <2>2, CallInv
  <2>3. CASE UNCHANGED jsVars
    BY <2>3 DEF jsVars, JsInv, JsTypeOK, Waiting, LastCall, Right
  <2> QED
    BY <2>1, <2>2, <2>3 DEF Next
<1> QED
  BY <1>1, <1>2, PTL DEF Spec

(* Type correctness of the calculator, for any input and any circuit.      *)
THEOREM JsTypes == Spec => []JsTypeOK
<1>1. JsInv => JsTypeOK
  BY DEF JsInv
<1> QED
  BY <1>1, JsInductive, PTL

(* A call throws exactly for the inputs that are not accepted, whatever    *)
(* calls before it and around it left in the instance.                     *)
THEOREM Throws == Spec => []ThrowsExactlyRefused
<1>1. JsInv => ThrowsExactlyRefused
  BY DEF JsInv, Right, ThrowsExactlyRefused
<1> QED
  BY <1>1, JsInductive, PTL

(* A call that is resumed returns the witness of the call that used the    *)
(* instance last, if that one's input is accepted.                         *)
THEOREM ReturnsLatest == Spec => ReturnsWitnessOfLatest
<1> DEFINE Returns(c) ==
             answer[c] = NoAnswer /\ answer'[c] \notin {NoAnswer, Thrown} /\ Accepted(asked[latest])
               => answer'[c] = WitnessFor(asked[latest])
<1>1. ASSUME JsInv, Resume, NEW c \in Calls PROVE Returns(c)
  <2>1. answer \in [Calls -> Witnesses \cup {NoAnswer, Thrown}]
    BY <1>1 DEF JsInv, JsTypeOK
  <2>2. CASE c # queue[1]
    <3>1. answer'[c] = answer[c]
      BY <1>1, <2>1, <2>2, ResumeInv
    <3> QED
      BY <3>1
  <2>3. CASE c = queue[1]
    BY <1>1, <2>3, ResumeInv
  <2> QED
    BY <2>2, <2>3
<1>2. ASSUME NEW d \in Calls, NEW j \in Json, Call(d, j), NEW c \in Calls PROVE Returns(c)
  BY <1>2 DEF Call
<1>3. JsInv /\ [Next]_jsVars => [\A c \in Calls : Returns(c)]_jsVars
  BY <1>1, <1>2 DEF Next
<1> QED
  BY <1>3, JsInductive, PTL DEF Spec, ReturnsWitnessOfLatest

-----------------------------------------------------------------------------
(* What the service sees of a call, and of an answer.                      *)
LEMMA CallIsAsk ==
  ASSUME JsInv, NEW c \in Calls, NEW j \in Json, Call(c, j)
  PROVE  [Service!Next]_<<Awaited(asked), Awaited(answer)>>
<1>1. /\ oneAtATime' = oneAtATime /\ answer' = answer /\ asked[c] = NoAnswer
      /\ asked' = [asked EXCEPT ![c] = j]
  BY DEF Call
<1>2. CASE oneAtATime
  <2>1. Service!Ask(c, j)
    BY <1>1, <1>2 DEF Service!Ask, Awaited
  <2> QED
    BY <2>1 DEF Service!Next
<1>3. CASE ~oneAtATime
  BY <1>1, <1>3 DEF Awaited
<1> QED
  BY <1>2, <1>3

LEMMA ResumeIsAnswer ==
  ASSUME JsInv, Resume
  PROVE  [Service!Next]_<<Awaited(asked), Awaited(answer)>>
<1> DEFINE c == queue[1]
<1>1. /\ c \in Calls /\ answer[c] = NoAnswer /\ asked[c] \in Json /\ answer'[c] # NoAnswer
      /\ ~Accepted(asked[c]) => answer'[c] = Thrown
      /\ answer' = [answer EXCEPT ![c] = answer'[c]]
      /\ oneAtATime' = oneAtATime /\ asked' = asked
      /\ JsInv'
  BY ResumeInv
<1>2. oneAtATime /\ Accepted(asked[c]) => answer'[c] = WitnessFor(asked[c])
  BY <1>1 DEF JsInv, Right
<1> HIDE DEF c
<1>3. CASE oneAtATime
  <2>1. asked[c] # NoAnswer
    BY <1>1, AnswersAssumption
  <2>2. answer'[c] = IF Accepted(asked[c]) THEN WitnessFor(asked[c]) ELSE Thrown
    BY <1>1, <1>2, <1>3
  <2>3. Service!Answer(c)
    BY <1>1, <1>3, <2>1, <2>2 DEF Service!Answer, Awaited
  <2> QED
    BY <1>1, <2>3 DEF Service!Next
<1>4. CASE ~oneAtATime
  BY <1>1, <1>4 DEF Awaited
<1> QED
  BY <1>3, <1>4

(* To a client that awaits each call before the next, the calculator is a  *)
(* WitnessService.                                                         *)
THEOREM CalculatorImplementsService == Spec => ImplementsWitnessService
<1>1. Init => Service!Init
  BY DEF Init, Service!Init, Awaited
<1>2. JsInv /\ [Next]_jsVars => [Service!Next]_<<Awaited(asked), Awaited(answer)>>
  <2> SUFFICES ASSUME JsInv, [Next]_jsVars
               PROVE  [Service!Next]_<<Awaited(asked), Awaited(answer)>>
    OBVIOUS
  <2>1. CASE Resume
    BY <2>1, ResumeIsAnswer
  <2>2. ASSUME NEW c \in Calls, NEW j \in Json, Call(c, j)
        PROVE  [Service!Next]_<<Awaited(asked), Awaited(answer)>>
    BY <2>2, CallIsAsk
  <2>3. CASE UNCHANGED jsVars
    BY <2>3 DEF jsVars, Awaited
  <2> QED
    BY <2>1, <2>2, <2>3 DEF Next
<1> QED
  BY <1>1, <1>2, JsInductive, PTL DEF Spec, ImplementsWitnessService, Service!Spec

-----------------------------------------------------------------------------
(* The invariant of the script: what it has asked and got at each of its   *)
(* statements, and that a file it reported as written is whole.            *)
Look == "calculateWitness"
Make == "calculateWTNSBin"

NotAsked(c) == asked[c] = NoAnswer /\ answer[c] = NoAnswer
Answered(c) == asked[c] = input /\ answer[c] # NoAnswer
Pending(c)  ==
  \/ NotAsked(c) /\ queue = << >>
  \/ asked[c] = input /\ answer[c] = NoAnswer /\ queue = <<c>>

AtStatement ==
  /\ pc \in {"shell", "first", "second", "open", "write"}
  /\ pc = "first"  => Pending(Look) /\ NotAsked(Make)
  /\ pc = "second" => Answered(Look) /\ Pending(Make)
  /\ pc \in {"open", "write"} => Answered(Look) /\ Answered(Make) /\ queue = << >>
  /\ pc = "write" => answer[Make] # Thrown /\ file = << >> /\ owner = input
  /\ pc # "shell" => input \in Json /\ outcome = "none"

ScriptInv ==
  /\ JsInv /\ oneAtATime /\ AtStatement
  /\ outcome = "written" => file = FileFor(owner)

LEMMA ScriptInitInv == ScriptInit => ScriptInv
<1> SUFFICES ASSUME ScriptInit PROVE ScriptInv
  OBVIOUS
<1>1. JsInv
  BY FreshInv DEF ScriptInit, Init, Fresh
<1> QED
  BY <1>1 DEF ScriptInit, ScriptInv, AtStatement

LEMMA FreshInstanceInv ==
  ASSUME ScriptInv, FreshInstance
  PROVE  /\ JsInv' /\ oneAtATime' /\ queue' = << >>
         /\ \A c \in Calls : asked'[c] = NoAnswer /\ answer'[c] = NoAnswer
<1>1. JsInv'
  <2>1. Fresh'
    BY DEF FreshInstance, Fresh, ScriptInv
  <2>2. Fresh' => JsInv'
    BY FreshInv, PTL
  <2> QED
    BY <2>1, <2>2
<1> QED
  BY <1>1 DEF FreshInstance, ScriptInv

LEMMA ExitInv ==
  ASSUME ScriptInv, NEW how, Exit(how), how = "written" => file' = FileFor(owner')
  PROVE  ScriptInv'
<1>1. FreshInstance /\ pc' = "shell" /\ outcome' = how
  BY DEF Exit
<1> QED
  BY <1>1, FreshInstanceInv DEF ScriptInv, AtStatement

(* The file that a process writes is that of its input.                    *)
LEMMA BuffIsFile ==
  ASSUME ScriptInv, pc = "write"
  PROVE  buff = FileFor(owner) /\ buff = FileFor(input) /\ Accepted(input)
<1>1. /\ Answered(Make) /\ answer[Make] # Thrown /\ owner = input /\ Make \in Calls /\ oneAtATime
  BY ScriptAssumption DEF ScriptInv, AtStatement, Make
<1>2. Right(Make)
  BY <1>1 DEF ScriptInv, JsInv, Answered
<1>3. Accepted(input) /\ answer[Make] = WitnessFor(input)
  BY <1>1, <1>2 DEF Right, Answered
<1> QED
  BY <1>1, <1>3 DEF buff, FileFor, Make

LEMMA AwaitCall ==
  ASSUME ScriptInv, NEW c \in Calls, pc # "shell", Call(c, input)
  PROVE  /\ JsInv' /\ oneAtATime' /\ queue' = <<c>> /\ asked'[c] = input /\ answer' = answer
         /\ asked[c] = NoAnswer /\ answer[c] = NoAnswer
         /\ \A d \in Calls : d # c => asked'[d] = asked[d]
<1>1. JsInv /\ oneAtATime /\ input \in Json
  BY DEF ScriptInv, AtStatement
<1>2. JsInv'
  BY <1>1, CallInv
<1>3. /\ asked \in [Calls -> Json \cup {NoAnswer}] /\ asked[c] = NoAnswer
      /\ asked' = [asked EXCEPT ![c] = input] /\ answer' = answer
      /\ queue = << >> /\ queue' = Append(queue, c) /\ oneAtATime' = oneAtATime
  BY <1>1 DEF Call, JsInv, JsTypeOK
<1>4. answer[c] = NoAnswer
  BY <1>1, <1>3, AnswersAssumption DEF JsInv, Right
<1> QED
  BY <1>1, <1>2, <1>3, <1>4

LEMMA AwaitResume ==
  ASSUME ScriptInv, NEW c \in Calls, Pending(c), Resume
  PROVE  /\ JsInv' /\ oneAtATime' /\ queue' = << >> /\ asked' = asked
         /\ asked[c] = input /\ answer'[c] # NoAnswer
         /\ \A d \in Calls : d # c => answer'[d] = answer[d]
<1>1. /\ JsInv' /\ answer'[queue[1]] # NoAnswer /\ asked' = asked /\ oneAtATime' = oneAtATime
      /\ answer' = [answer EXCEPT ![queue[1]] = answer'[queue[1]]]
      /\ answer \in [Calls -> Witnesses \cup {NoAnswer, Thrown}] /\ oneAtATime
  BY ResumeInv DEF ScriptInv, JsInv, JsTypeOK
<1>2. queue = <<c>> /\ asked[c] = input /\ queue' = Tail(queue)
  BY DEF Resume, Pending
<1>3. queue[1] = c /\ queue' = << >>
  BY <1>2
<1> QED
  BY <1>1, <1>2, <1>3

LEMMA FirstInv ==
  ASSUME ScriptInv, First
  PROVE  ScriptInv'
<1>1. /\ pc = "first" /\ Pending(Look) /\ NotAsked(Make) /\ input \in Json /\ outcome = "none"
      /\ UNCHANGED <<input, outcome, file, owner>>
      /\ Look \in Calls /\ Make \in Calls /\ Look # Make
  BY ScriptAssumption DEF First, Await, ScriptInv, AtStatement, Look, Make
<1>2. CASE Call(Look, input) /\ pc' = pc
  <2>1. /\ JsInv' /\ oneAtATime' /\ queue' = <<Look>> /\ asked'[Look] = input /\ answer' = answer
        /\ answer[Look] = NoAnswer /\ asked'[Make] = asked[Make]
    BY <1>1, <1>2, AwaitCall
  <2> QED
    BY <1>1, <1>2, <2>1 DEF ScriptInv, AtStatement, Pending, NotAsked
<1>3. CASE Resume /\ pc' = "second"
  <2>1. /\ JsInv' /\ oneAtATime' /\ queue' = << >> /\ asked' = asked
        /\ asked[Look] = input /\ answer'[Look] # NoAnswer /\ answer'[Make] = answer[Make]
    BY <1>1, <1>3, AwaitResume
  <2> QED
    BY <1>1, <1>3, <2>1 DEF ScriptInv, AtStatement, Pending, NotAsked, Answered
<1> QED
  BY <1>1, <1>2, <1>3 DEF First, Await, Look

LEMMA SecondInv ==
  ASSUME ScriptInv, Second
  PROVE  ScriptInv'
<1>1. /\ pc = "second" /\ Answered(Look) /\ Pending(Make) /\ input \in Json /\ outcome = "none"
      /\ UNCHANGED <<input, outcome, file, owner>>
      /\ Look \in Calls /\ Make \in Calls /\ Look # Make
  BY ScriptAssumption DEF Second, Await, ScriptInv, AtStatement, Look, Make
<1>2. CASE Call(Make, input) /\ pc' = pc
  <2>1. /\ JsInv' /\ oneAtATime' /\ queue' = <<Make>> /\ asked'[Make] = input /\ answer' = answer
        /\ answer[Make] = NoAnswer /\ asked'[Look] = asked[Look]
    BY <1>1, <1>2, AwaitCall
  <2> QED
    BY <1>1, <1>2, <2>1 DEF ScriptInv, AtStatement, Pending, NotAsked, Answered
<1>3. CASE Resume /\ pc' = "open"
  <2>1. /\ JsInv' /\ oneAtATime' /\ queue' = << >> /\ asked' = asked
        /\ asked[Make] = input /\ answer'[Make] # NoAnswer /\ answer'[Look] = answer[Look]
    BY <1>1, <1>3, AwaitResume
  <2> QED
    BY <1>1, <1>3, <2>1 DEF ScriptInv, AtStatement, Pending, NotAsked, Answered
<1> QED
  BY <1>1, <1>2, <1>3 DEF Second, Await, Make

LEMMA ScriptStepInv ==
  ASSUME ScriptInv, [ScriptNext]_scriptVars
  PROVE  ScriptInv'
<1>1. ASSUME NEW j \in Json, Start(j) PROVE ScriptInv'
  <2>1. /\ FreshInstance /\ pc' = "first" /\ input' = j /\ outcome' = "none"
        /\ Look \in Calls /\ Make \in Calls
    BY <1>1, ScriptAssumption DEF Start, Look, Make
  <2> QED
    BY <2>1, FreshInstanceInv DEF ScriptInv, AtStatement, Pending, NotAsked
<1>2. CASE StartFails
  BY <1>2, ExitInv DEF StartFails
<1>3. CASE First
  BY <1>3, FirstInv
<1>4. CASE Second
  BY <1>4, SecondInv
<1>5. CASE Unhandled
  BY <1>5, ExitInv DEF Unhandled
<1>6. CASE OpenFile
  <2>1. /\ pc = "open" /\ answer[Make] # Thrown /\ pc' = "write" /\ file' = << >> /\ owner' = input
        /\ UNCHANGED <<jsVars, input, outcome>>
    BY <1>6 DEF OpenFile, Make
  <2>2. JsInv'
    BY <2>1 DEF ScriptInv, jsVars, JsInv, JsTypeOK, Waiting, LastCall, Right
  <2> QED
    BY <2>1, <2>2 DEF ScriptInv, AtStatement, Answered, jsVars
<1>7. CASE OpenFails
  BY <1>7, ExitInv DEF OpenFails
<1>8. CASE WriteFile
  <2>1. CASE file' = buff /\ Exit("written")
    <3>1. file' = FileFor(owner')
      BY <1>8, <2>1, BuffIsFile DEF WriteFile
    <3> QED
      BY <2>1, <3>1, ExitInv
  <2>2. CASE Exit("file error")
    BY <2>2, ExitInv
  <2> QED
    BY <1>8, <2>1, <2>2 DEF WriteFile
<1>9. CASE Kill
  BY <1>9, ExitInv DEF Kill
<1>10. CASE UNCHANGED scriptVars
  BY <1>10 DEF scriptVars, jsVars, ScriptInv, AtStatement, Pending, NotAsked, Answered,
     JsInv, JsTypeOK, Waiting, LastCall, Right
<1> QED
  BY <1>1, <1>2, <1>3, <1>4, <1>5, <1>6, <1>7, <1>8, <1>9, <1>10 DEF ScriptNext, Step

LEMMA ScriptInductive == ScriptSpec => []ScriptInv
<1>1. ScriptInv /\ [ScriptNext]_scriptVars => ScriptInv'
  BY ScriptStepInv
<1> QED
  BY <1>1, ScriptInitInv, PTL DEF ScriptSpec

(* The script reports success only when the file is the whole witness of   *)
(* the input it was given.                                                 *)
THEOREM ScriptWritesWhole == ScriptSpec => []WrittenIsWhole
<1>1. ScriptInv => WrittenIsWhole
  BY DEF ScriptInv, WrittenIsWhole
<1> QED
  BY <1>1, ScriptInductive, PTL

-----------------------------------------------------------------------------
LEMMA BuffType ==
  ASSUME ScriptInv, pc = "write"
  PROVE  buff \in Seq({Header} \cup Value \cup {Blank})
<1>1. answer["calculateWTNSBin"] \in Witnesses
  BY ScriptAssumption DEF ScriptInv, AtStatement, Answered, Make, JsInv, JsTypeOK
<1>2. << Header >> \in Seq({Header} \cup Value \cup {Blank})
      /\ answer["calculateWTNSBin"] \in Seq({Header} \cup Value \cup {Blank})
  <2> DEFINE S == {Header} \cup Value \cup {Blank}
  <2>1. Value \cup {Blank} \subseteq S /\ Header \in S
    OBVIOUS
  <2>2. witnessSize \in Nat
    BY InstanceAssumption
  <2> HIDE DEF S
  <2>3. answer["calculateWTNSBin"] \in Seq(S)
    BY <1>1, <2>1, <2>2 DEF Witnesses
  <2>4. << Header >> \in Seq(S)
    BY <2>1
  <2> QED
    BY <2>3, <2>4 DEF S
<1> QED
  BY <1>2 DEF buff

LEMMA BeginningIsPrefix ==
  ASSUME ScriptInv, pc = "write", file' \in Beginnings
  PROVE  Abstract!PrefixOf(file', FileFor(owner))
<1>1. PICK n \in 0 .. Len(buff) : file' = SubSeq(buff, 1, n)
  BY DEF Beginnings
<1>2. buff \in Seq({Header} \cup Value \cup {Blank}) /\ Len(buff) \in Nat
  BY BuffType
<1> HIDE DEF buff
<1>3. Len(file') = n /\ \A k \in 1 .. n : file'[k] = buff[k]
  BY <1>1, <1>2
<1>4. n <= Len(buff)
  BY <1>1, <1>2
<1> QED
  BY <1>3, <1>4, BuffIsFile DEF Abstract!PrefixOf

LEMMA ScriptStepImplements ==
  ASSUME ScriptInv, [ScriptNext]_scriptVars
  PROVE  [Abstract!Next]_<<file, owner>>
<1>1. CASE OpenFile
  <2>1. /\ file' = << >> /\ owner' = input /\ input \in Json
        /\ Answered(Make) /\ answer[Make] # Thrown /\ Make \in Calls
    BY <1>1, ScriptAssumption DEF OpenFile, ScriptInv, AtStatement, Make
  <2>2. Right(Make)
    BY <2>1 DEF ScriptInv, JsInv, Answered
  <2>3. Accepted(owner')
    BY <2>1, <2>2 DEF Right, Answered
  <2> QED
    BY <2>1, <2>3 DEF Abstract!Claim, Abstract!Next
<1>2. ASSUME pc = "write", file' \in Beginnings, UNCHANGED owner PROVE Abstract!Next
  <2>1. file = << >> /\ owner = input /\ owner # NoJson
    BY <1>2, ScriptAssumption DEF ScriptInv, AtStatement
  <2>2. Abstract!PrefixOf(file', FileFor(owner))
    BY <1>2, BeginningIsPrefix
  <2> QED
    BY <1>2, <2>1, <2>2 DEF Abstract!Fill, Abstract!Next
<1>3. CASE WriteFile
  <2>1. pc = "write" /\ UNCHANGED owner /\ (file' = buff \/ file' \in Beginnings)
    BY <1>3 DEF WriteFile
  <2>2. buff \in Beginnings
    <3>1. buff \in Seq({Header} \cup Value \cup {Blank})
      BY <2>1, BuffType
    <3> HIDE DEF buff
    <3>2. Len(buff) \in 0 .. Len(buff) /\ SubSeq(buff, 1, Len(buff)) = buff
      BY <3>1
    <3> QED
      BY <3>2 DEF Beginnings
  <2> QED
    BY <1>2, <2>1, <2>2
<1>4. CASE Kill
  BY <1>2, <1>4 DEF Kill
<1>5. ASSUME \/ StartFails \/ (\E j \in Json : Start(j)) \/ First \/ Second
             \/ Unhandled \/ OpenFails \/ UNCHANGED scriptVars
      PROVE  UNCHANGED <<file, owner>>
  BY <1>5 DEF StartFails, Start, First, Second, Await, Unhandled, OpenFails, scriptVars
<1> QED
  BY <1>1, <1>3, <1>4, <1>5 DEF ScriptNext, Step

(* The script keeps the promise of WitnessFile, like the C++ program.      *)
THEOREM ScriptImplementsWitnessFile == ScriptSpec => FileImplementsWitnessFile
<1>1. ScriptInit => Abstract!Init
  BY DEF ScriptInit, Abstract!Init
<1>2. ScriptInv /\ [ScriptNext]_scriptVars => [Abstract!Next]_<<file, owner>>
  BY ScriptStepImplements
<1> QED
  BY <1>1, <1>2, ScriptInductive, PTL DEF ScriptSpec, FileImplementsWitnessFile, Abstract!Spec
=============================================================================
