--------------------------- MODULE AuthMainProofs ---------------------------
(***************************************************************************)
(* First the component that main drives: what CalcWit promises for every   *)
(* table, every circuit and every order of calls, from one inductive       *)
(* invariant, IInv.                                                        *)
(* Then main itself: for every table, circuit and set of inputs, over any  *)
(* number of runs and kills, AuthMain implements WitnessFile. The          *)
(* inductive invariant says which values of the input have been taken      *)
(* (LoadInv), what memory holds once the file may be opened (Loaded), and  *)
(* what the buffer and the file are beginnings of.                         *)
(***************************************************************************)
EXTENDS AuthMain, FiniteSetTheorems, SequenceTheorems, TLAPS

-----------------------------------------------------------------------------
(* Circom_CalcWit                                                          *)

(* An input signal has a value exactly when it is marked; before the run   *)
(* no computed signal has one.                                             *)
MarkedHaveValues ==
  /\ signalValues[0] = One
  /\ \A s \in InputSignals : inputSignalAssigned[s] <=> signalValues[s] # Unset
  /\ runs = 0 => \A s \in ComputedSignals : signalValues[s] = Unset

IInv ==
  /\ TypeOK
  /\ CounterCountsUnassigned
  /\ RunsOnceWhenComplete
  /\ MarkedHaveValues
  /\ WitnessMatchesInputs

(* Every probe stays in the table.                                         *)
LEMMA ProbeInTable ==
  ASSUME NEW h \in Nat, NEW k \in Slots
  PROVE  Probe(h, k) \in Slots
<1>1. h % HashMapSize \in Nat
  BY SizesAssumption
<1>2. \A x \in Nat : x % HashMapSize \in 0 .. HashMapSize - 1
  BY SizesAssumption
<1> QED
  BY <1>1, <1>2, SizesAssumption DEF Probe, Slots

(* A lookup that does not abort returns a slot that has the hash.          *)
LEMMA LookupReturnsMatch ==
  ASSUME NEW h \in Nat, Found(h)
  PROVE  /\ getInputSignalHashPosition(h) \in Slots
         /\ InputHashMap[getInputSignalHashPosition(h)].hash = h
<1> DEFINE Hit(k) == /\ InputHashMap[Probe(h, k)].hash = h
                     /\ \A l \in 0 .. k - 1 : ~StopsAt(h, l)
<1>1. \E k \in Slots : Hit(k)
  BY DEF Found, getInputSignalHashPosition
<1>2. PICK k \in Slots : k = (CHOOSE l \in Slots : Hit(l)) /\ Hit(k)
  BY <1>1
<1>3. getInputSignalHashPosition(h) = Probe(h, k)
  BY <1>1, <1>2 DEF getInputSignalHashPosition
<1> QED
  BY <1>2, <1>3, ProbeInTable

(* The signal that a call which is not refused writes: a main input that   *)
(* has no value yet.                                                       *)
LEMMA AcceptedIndex ==
  ASSUME TypeOK, NEW h \in Hash, NEW k \in Nat, ~Refused(h, k)
  PROVE  LET si == InputHashMap[getInputSignalHashPosition(h)].signalid + k
         IN  si \in InputSignals /\ ~inputSignalAssigned[si] /\ inputSignalAssignedCounter # 0
<1> DEFINE p == getInputSignalHashPosition(h)
<1>1. p \in Slots /\ k < InputHashMap[p].signalsize /\ inputSignalAssignedCounter # 0
  <2>1. h \in Nat
    BY SizesAssumption
  <2>2. p \in Slots /\ InputHashMap[p].signalsize \in Nat
    BY <2>1, LookupReturnsMatch, TableAssumption DEF Refused
  <2> QED
    BY <2>2 DEF Refused, getInputSignalSize
<1>2. p \in Entries
  BY <1>1, TableAssumption DEF Entries
<1>3. InputHashMap[p].signalid + k \in SignalsOf(p)
  BY <1>1, TableAssumption DEF SignalsOf
<1>4. InputHashMap[p].signalid + k \in InputSignals
  BY <1>2, <1>3, TableAssumption
<1> QED
  BY <1>1, <1>4 DEF Refused

LEMMA InputsAreSignals ==
  /\ InputSignals \subseteq Signals
  /\ 0 \in Signals /\ 0 \notin InputSignals
  /\ ComputedSignals \subseteq Signals
  /\ ComputedSignals \cap InputSignals = {} /\ 0 \notin ComputedSignals
  /\ Signals = InputSignals \cup ComputedSignals \cup {0}
  /\ IsFiniteSet(InputSignals) /\ Cardinality(InputSignals) = MainInputNo
<1>1. IsFiniteSet(InputSignals) /\ Cardinality(InputSignals) = MainInputNo
  BY SizesAssumption, FS_Interval DEF InputSignals
<1> QED
  BY <1>1, SizesAssumption DEF InputSignals, Signals, ComputedSignals

LEMMA InitEstablishes == Init => IInv
<1> SUFFICES ASSUME Init PROVE IInv
  OBVIOUS
<1>1. TypeOK
  <2>1. signalValues \in [Signals -> Value \cup {Unset}]
    BY ValuesAssumption DEF Init, InitialSignals
  <2>2. inputSignalAssigned \in [InputSignals -> BOOLEAN]
    BY DEF Init, NoneAssigned
  <2>3. inputSignalAssignedCounter \in 0 .. MainInputNo
    BY SizesAssumption DEF Init
  <2> QED
    BY <2>1, <2>2, <2>3 DEF Init, TypeOK
<1>2. Unassigned = InputSignals
  BY DEF Init, Unassigned, NoneAssigned
<1>3. InputSignals # {}
  BY SizesAssumption DEF InputSignals
<1>4. CounterCountsUnassigned /\ RunsOnceWhenComplete
  BY <1>2, <1>3, InputsAreSignals
     DEF Init, CounterCountsUnassigned, RunsOnceWhenComplete
<1>5. MarkedHaveValues /\ WitnessMatchesInputs
  BY InputsAreSignals, ValuesAssumption
     DEF Init, MarkedHaveValues, WitnessMatchesInputs, InitialSignals, NoneAssigned
<1> QED
  BY <1>1, <1>4, <1>5 DEF IInv

(* What run leaves in memory.                                              *)
LEMMA RunComputes ==
  ASSUME NEW sv \in [Signals -> Value \cup {Unset}],
         \A s \in InputSignals : sv[s] \in Value
  PROVE  /\ run(sv) \in [Signals -> Value \cup {Unset}]
         /\ \A s \in InputSignals \cup {0} : run(sv)[s] = sv[s]
         /\ \A s \in ComputedSignals :
              run(sv)[s] = Circuit([t \in InputSignals |-> run(sv)[t]], s)
<1> DEFINE in == [s \in InputSignals |-> sv[s]]
<1>1. in \in [InputSignals -> Value]
  OBVIOUS
<1>2. \A s \in InputSignals \cup {0} : run(sv)[s] = sv[s]
  BY InputsAreSignals DEF run
<1>3. [t \in InputSignals |-> run(sv)[t]] = in
  BY <1>2
<1>4. \A s \in ComputedSignals : run(sv)[s] = Circuit(in, s)
  BY InputsAreSignals DEF run
<1>5. \A s \in ComputedSignals : Circuit(in, s) \in Value
  BY <1>1, ValuesAssumption
<1>6. run(sv) \in [Signals -> Value \cup {Unset}]
  BY <1>5, InputsAreSignals DEF run
<1> QED
  BY <1>2, <1>3, <1>4, <1>6

(* A call that is not refused writes one main input that had no value, and *)
(* leaves the other main inputs alone, whether or not the circuit runs.    *)
LEMMA AcceptedCall ==
  ASSUME IInv, NEW h \in Hash, NEW k \in Nat, NEW val \in Value,
         setInputSignal(h, k, val), ~aborted'
  PROVE  LET si == InputHashMap[getInputSignalHashPosition(h)].signalid + k
         IN  /\ si \in InputSignals /\ ~inputSignalAssigned[si]
             /\ inputSignalAssigned' = [inputSignalAssigned EXCEPT ![si] = TRUE]
             /\ signalValues'[si] = val
             /\ \A s \in InputSignals \ {si} : signalValues'[s] = signalValues[s]
<1> DEFINE si == InputHashMap[getInputSignalHashPosition(h)].signalid + k
           sv == [signalValues EXCEPT ![si] = val]
<1>1. ~Refused(h, k)
  BY DEF setInputSignal
<1>2. si \in InputSignals /\ ~inputSignalAssigned[si]
  BY <1>1, AcceptedIndex DEF IInv
<1>3. /\ inputSignalAssigned' = [inputSignalAssigned EXCEPT ![si] = TRUE]
      /\ signalValues' = run(sv) \/ signalValues' = sv
  BY <1>1 DEF setInputSignal, tryRunCircuit
<1>4. sv[si] = val /\ \A s \in InputSignals \ {si} : sv[s] = signalValues[s]
  BY <1>2, InputsAreSignals DEF IInv, TypeOK
<1>5. \A s \in InputSignals : run(sv)[s] = sv[s]
  BY InputsAreSignals DEF run
<1> QED
  BY <1>2, <1>3, <1>4, <1>5

LEMMA CallPreserves ==
  ASSUME IInv, NEW h \in Hash, NEW k \in Nat, NEW val \in Value, setInputSignal(h, k, val)
  PROVE  IInv'
<1>1. CASE Refused(h, k)
  BY <1>1 DEF setInputSignal, IInv, TypeOK, CounterCountsUnassigned, RunsOnceWhenComplete,
              MarkedHaveValues, WitnessMatchesInputs, Unassigned
<1>2. CASE ~Refused(h, k)
  <2> DEFINE si == InputHashMap[getInputSignalHashPosition(h)].signalid + k
             sv == [signalValues EXCEPT ![si] = val]
             left == inputSignalAssignedCounter - 1
  <2>1. /\ si \in InputSignals /\ ~inputSignalAssigned[si]
        /\ inputSignalAssignedCounter \in 1 .. MainInputNo
    BY <1>2, AcceptedIndex, SizesAssumption DEF IInv, TypeOK
  <2>2. /\ inputSignalAssigned' = [inputSignalAssigned EXCEPT ![si] = TRUE]
        /\ inputSignalAssignedCounter' = left
        /\ signalValues' = IF left = 0 THEN run(sv) ELSE sv
        /\ runs' = IF left = 0 THEN runs + 1 ELSE runs
        /\ aborted' = aborted
    BY <1>2 DEF setInputSignal, tryRunCircuit
  <2> HIDE DEF si, sv, left
  <2>3. Unassigned' = Unassigned \ {si} /\ si \in Unassigned
    BY <2>1, <2>2 DEF Unassigned, IInv, TypeOK
  <2>4. IsFiniteSet(Unassigned)
    BY InputsAreSignals, FS_Subset DEF Unassigned
  <2>5. Cardinality(Unassigned') = left /\ IsFiniteSet(Unassigned')
    BY <2>3, <2>4, FS_RemoveElement DEF IInv, CounterCountsUnassigned, left
  <2>6. left \in 0 .. MainInputNo /\ (left = 0 <=> Unassigned' = {})
    BY <2>1, <2>5, FS_EmptySet, SizesAssumption DEF left
  <2>7. runs = 0
    BY <2>3 DEF IInv, RunsOnceWhenComplete
  <2>8. /\ sv \in [Signals -> Value \cup {Unset}]
        /\ sv[si] = val
        /\ \A s \in Signals \ {si} : sv[s] = signalValues[s]
    BY <2>1, InputsAreSignals DEF sv, IInv, TypeOK
  <2>9. \A s \in InputSignals : inputSignalAssigned'[s] <=> sv[s] # Unset
    BY <2>1, <2>2, <2>8, InputsAreSignals, ValuesAssumption DEF IInv, TypeOK, MarkedHaveValues
  <2>10. inputSignalAssigned' \in [InputSignals -> BOOLEAN]
    BY <2>2 DEF IInv, TypeOK
  <2>11. CASE left = 0
    <3>1. \A s \in InputSignals : sv[s] \in Value
      BY <2>6, <2>8, <2>9, <2>11, InputsAreSignals DEF Unassigned
    <3>2. /\ run(sv) \in [Signals -> Value \cup {Unset}]
          /\ \A s \in InputSignals \cup {0} : run(sv)[s] = sv[s]
          /\ \A s \in ComputedSignals :
               run(sv)[s] = Circuit([t \in InputSignals |-> run(sv)[t]], s)
      BY <2>8, <3>1, RunComputes
    <3>3. TypeOK'
      BY <2>2, <2>6, <2>7, <2>10, <2>11, <3>2 DEF IInv, TypeOK
    <3>4. CounterCountsUnassigned' /\ RunsOnceWhenComplete'
      BY <2>2, <2>5, <2>6, <2>7, <2>11 DEF CounterCountsUnassigned, RunsOnceWhenComplete
    <3>5. MarkedHaveValues'
      BY <2>1, <2>2, <2>7, <2>8, <2>9, <2>11, <3>2, InputsAreSignals DEF IInv, MarkedHaveValues
    <3>6. WitnessMatchesInputs'
      BY <2>2, <2>11, <3>2 DEF WitnessMatchesInputs
    <3> QED
      BY <3>3, <3>4, <3>5, <3>6 DEF IInv
  <2>12. CASE left # 0
    <3>1. TypeOK'
      BY <2>2, <2>6, <2>8, <2>10, <2>12 DEF IInv, TypeOK
    <3>2. CounterCountsUnassigned' /\ RunsOnceWhenComplete'
      BY <2>2, <2>5, <2>6, <2>7, <2>12 DEF CounterCountsUnassigned, RunsOnceWhenComplete
    <3>3. MarkedHaveValues'
      BY <2>1, <2>2, <2>7, <2>8, <2>9, <2>12, InputsAreSignals DEF IInv, MarkedHaveValues
    <3>4. WitnessMatchesInputs'
      BY <2>2, <2>7, <2>12 DEF WitnessMatchesInputs
    <3> QED
      BY <3>1, <3>2, <3>3, <3>4 DEF IInv
  <2> QED
    BY <2>11, <2>12
<1> QED
  BY <1>1, <1>2

LEMMA StutterPreserves == IInv /\ UNCHANGED calcwitVars => IInv'
BY DEF calcwitVars, IInv, TypeOK, CounterCountsUnassigned, RunsOnceWhenComplete,
       MarkedHaveValues, WitnessMatchesInputs, Unassigned

LEMMA Inductive == Spec => []IInv
<1>1. IInv /\ [Next]_calcwitVars => IInv'
  <2> SUFFICES ASSUME IInv, [Next]_calcwitVars PROVE IInv'
    OBVIOUS
  <2>1. ASSUME NEW h \in Hash, NEW k \in 0 .. MainInputNo, NEW val \in Value,
               setInputSignal(h, k, val)
        PROVE  IInv'
    BY <2>1, CallPreserves
  <2> QED
    BY <2>1, StutterPreserves DEF Next
<1> QED
  BY <1>1, InitEstablishes, PTL DEF Spec

(* The types of the calculator's fields, whatever calls are made.          *)
THEOREM TypeCorrect == Spec => []TypeOK
<1>1. IInv => TypeOK
  BY DEF IInv
<1> QED
  BY <1>1, Inductive, PTL

(* inputSignalAssignedCounter is the number of main inputs without a       *)
(* value, and the circuit has run, once, exactly when there is none left.  *)
THEOREM RunsOnce == Spec => [](CounterCountsUnassigned /\ RunsOnceWhenComplete)
<1>1. IInv => CounterCountsUnassigned /\ RunsOnceWhenComplete
  BY DEF IInv
<1> QED
  BY <1>1, Inductive, PTL

(* After the run, the computed signals stay those of the inputs in memory. *)
THEOREM WitnessIsOfInputs == Spec => []WitnessMatchesInputs
<1>1. IInv => WitnessMatchesInputs
  BY DEF IInv
<1> QED
  BY <1>1, Inductive, PTL

(* A call that is not refused only writes signals that had no value: the   *)
(* input it is for, and in the last call the computed signals, which no    *)
(* call before it can have set.                                            *)
LEMMA CallWritesOnce ==
  ASSUME IInv, NEW h \in Hash, NEW k \in Nat, NEW val \in Value, setInputSignal(h, k, val),
         NEW s \in Signals, signalValues[s] # Unset
  PROVE  signalValues'[s] = signalValues[s]
<1>1. CASE Refused(h, k)
  BY <1>1 DEF setInputSignal
<1>2. CASE ~Refused(h, k)
  <2> DEFINE si == InputHashMap[getInputSignalHashPosition(h)].signalid + k
             sv == [signalValues EXCEPT ![si] = val]
  <2>1. si \in InputSignals /\ ~inputSignalAssigned[si]
    BY <1>2, AcceptedIndex DEF IInv
  <2>2. signalValues' = run(sv) \/ signalValues' = sv
    BY <1>2 DEF setInputSignal, tryRunCircuit
  <2>3. runs = 0
    BY <2>1 DEF IInv, RunsOnceWhenComplete, Unassigned
  <2>4. s # si /\ s \notin ComputedSignals
    BY <2>1, <2>3 DEF IInv, MarkedHaveValues
  <2>5. sv[s] = signalValues[s]
    BY <2>4 DEF IInv, TypeOK
  <2>6. run(sv)[s] = sv[s]
    BY <2>4 DEF run
  <2> QED
    BY <2>2, <2>5, <2>6
<1> QED
  BY <1>1, <1>2

(* A signal that has a value never gets another one, in no order of calls. *)
THEOREM WrittenOnce == Spec => SignalsWrittenOnce
<1> DEFINE Kept == \A s \in Signals : signalValues[s] # Unset => signalValues'[s] = signalValues[s]
<1>1. IInv /\ [Next]_calcwitVars => [Kept]_calcwitVars
  <2> SUFFICES ASSUME IInv, Next PROVE Kept
    OBVIOUS
  <2>1. PICK h \in Hash, k \in 0 .. MainInputNo, val \in Value : setInputSignal(h, k, val)
    BY DEF Next
  <2> QED
    BY <2>1, CallWritesOnce
<1> QED
  BY <1>1, Inductive, PTL DEF Spec, SignalsWrittenOnce

-----------------------------------------------------------------------------
(* main                                                                    *)

Pos(m)   == getInputSignalHashPosition(fnv1a[json[m].key])
Sid(m)   == InputHashMap[Pos(m)].signalid
Begun    == {m \in 1 .. item : m < item \/ pc = "set"}
Taken(m) == IF m < item THEN Len(json[m].vals) ELSE i

(* Every item begun names a signal and has its size; what was taken from   *)
(* the items is what the marked signals hold; no signal was taken twice.   *)
ItemsMatch == \A m \in Begun : m \in DOMAIN json /\ Pos(m) \in Slots /\ Matches(json[m], Pos(m))

TakenIsStored ==
  \A m \in Begun : \A k \in 0 .. Taken(m) - 1 :
    /\ Sid(m) + k \in InputSignals
    /\ inputSignalAssigned[Sid(m) + k]
    /\ signalValues[Sid(m) + k] = json[m].vals[k + 1]

MarkedWasTaken ==
  \A s \in InputSignals : inputSignalAssigned[s] =>
    \E m \in Begun : \E k \in 0 .. Taken(m) - 1 : s = Sid(m) + k

TakenOnce ==
  \A m, n \in Begun : \A k \in 0 .. Taken(m) - 1, l \in 0 .. Taken(n) - 1 :
    Sid(m) + k = Sid(n) + l => m = n

LoadInv == ItemsMatch /\ TakenIsStored /\ MarkedWasTaken /\ TakenOnce

ControlInv ==
  /\ pc \in {"check", "open", "write"} => item = Len(json) + 1
  /\ pc = "set" => item <= Len(json) /\ i <= Len(json[item].vals)
  /\ aborted => pc = "set"
  /\ pc # "write" => buffer = << >>
  /\ pc = "shell" => json = << >>
  /\ pc # "shell" => json \in Json

Loaded ==
  pc \in {"open", "write"} =>
    /\ Exact(json)
    /\ runs = 1
    /\ \A s \in Signals : signalValues[s] = SignalOf(json, s)

WriteInv == pc = "write" => owner = json /\ file = << >> /\ Abstract!PrefixOf(buffer, WitnessOf(json))

FileInv == IF owner = NoJson THEN file = << >> ELSE Abstract!PrefixOf(file, WitnessOf(owner))

Types ==
  /\ pc \in {"shell", "item", "set", "check", "open", "write"}
  /\ json \in Json \cup {<< >>}
  /\ item \in 1 .. Len(json) + 1
  /\ i \in Nat
  /\ buffer \in Seq(Value \cup {Unset, Header}) /\ Len(buffer) <= WitnessSize + 1
  /\ outcome \in Outcomes
  /\ file \in Seq(Value \cup {Unset, Header})
  /\ owner \in Json \cup {NoJson}

MainInv == IInv /\ Types /\ ControlInv /\ LoadInv /\ Loaded /\ WriteInv /\ FileInv

-----------------------------------------------------------------------------
(* What is known of an input's items.                                      *)
LEMMA JsonItems ==
  ASSUME NEW j \in Json \cup {<< >>}
  PROVE  /\ j \in Seq(Item) /\ DOMAIN j = 1 .. Len(j) /\ Len(j) \in Nat
         /\ \A m \in 1 .. Len(j) : /\ fnv1a[j[m].key] \in Hash /\ fnv1a[j[m].key] \in Nat
                                    /\ j[m].vals \in Seq(Value \cup {BadNumber})
                                    /\ Len(j[m].vals) \in Nat
                                    /\ DOMAIN j[m].vals = 1 .. Len(j[m].vals)
<1>1. j \in Seq(Item)
  BY MainAssumption, EmptySeq
<1>2. DOMAIN j = 1 .. Len(j) /\ Len(j) \in Nat
  BY <1>1
<1>3. \A m \in 1 .. Len(j) : j[m] \in Item
  BY <1>1, ElementOfSeq
<1>4. \A m \in 1 .. Len(j) : j[m].key \in Key /\ j[m].vals \in Seq(Value \cup {BadNumber})
  BY <1>3 DEF Item
<1>5. \A m \in 1 .. Len(j) : fnv1a[j[m].key] \in Hash
  BY <1>4, MainAssumption
<1>6. \A s \in Seq(Value \cup {BadNumber}) : Len(s) \in Nat /\ DOMAIN s = 1 .. Len(s)
  OBVIOUS
<1> QED
  BY <1>1, <1>2, <1>4, <1>5, <1>6, SizesAssumption

(* The entry of a hash, when it has a signal, is the only one.             *)
LEMMA OneSlotPerSignal ==
  ASSUME NEW p \in Slots, NEW q \in Slots, NEW s \in SignalsOf(q),
         InputHashMap[p].hash = InputHashMap[q].hash
  PROVE  p = q
<1>1. /\ InputHashMap[q].signalsize \in Nat /\ InputHashMap[q].signalid \in Nat
  BY TableAssumption
<1>2. InputHashMap[q].signalsize # 0
  BY <1>1 DEF SignalsOf
<1>3. q \in Entries
  BY <1>2, TableAssumption
<1>4. p \in Entries
  BY <1>3, TableAssumption
<1> QED
  BY <1>3, <1>4, TableAssumption

LEMMA EmptyIsPrefix ==
  ASSUME NEW t
  PROVE  Abstract!PrefixOf(<< >>, WitnessOf(t))
<1>1. Len(WitnessOf(t)) = WitnessSize + 1
  BY MainAssumption DEF WitnessOf
<1> QED
  BY <1>1, MainAssumption DEF Abstract!PrefixOf

(* A process that has just begun, or is no more, has taken nothing.        *)
Fresh ==
  /\ Init
  /\ \/ pc = "shell" /\ json = << >>
     \/ pc = "item" /\ json \in Json
  /\ item = 1 /\ i = 0 /\ buffer = << >>

LEMMA FreshProcess == Fresh => IInv /\ ControlInv /\ LoadInv /\ Loaded /\ WriteInv
<1> SUFFICES ASSUME Fresh PROVE IInv /\ ControlInv /\ LoadInv /\ Loaded /\ WriteInv
  OBVIOUS
<1>1. IInv
  BY InitEstablishes DEF Fresh
<1>2. ControlInv /\ Loaded /\ WriteInv
  BY DEF Fresh, Init, ControlInv, Loaded, WriteInv
<1>3. Begun = {}
  BY DEF Fresh, Begun
<1>4. MarkedWasTaken
  BY DEF Fresh, Init, NoneAssigned, MarkedWasTaken
<1>5. LoadInv
  BY <1>3, <1>4 DEF LoadInv, ItemsMatch, TakenIsStored, TakenOnce
<1> QED
  BY <1>1, <1>2, <1>5

LEMMA FreshTypes ==
  ASSUME Fresh, outcome \in Outcomes, file \in Seq(Value \cup {Unset, Header}),
         owner \in Json \cup {NoJson}
  PROVE  Types
<1>1. << >> \in Seq(Value \cup {Unset, Header}) /\ Len(<< >>) = 0
  BY EmptySeq
<1>2. Len(json) \in Nat
  BY JsonItems DEF Fresh
<1> QED
  BY <1>1, <1>2, MainAssumption DEF Fresh, Types

LEMMA InitMain == MainInit => MainInv
<1> SUFFICES ASSUME MainInit PROVE MainInv
  OBVIOUS
<1>1. Fresh
  BY DEF MainInit, Fresh
<1>2. Types
  BY <1>1, FreshTypes, EmptySeq DEF MainInit, Outcomes
<1>3. FileInv
  BY DEF MainInit, FileInv
<1> QED
  BY <1>1, <1>2, <1>3, FreshProcess DEF MainInv

(* LoadInv only looks at the items, the index in them and the inputs.      *)
LEMMA LoadFrame ==
  ASSUME LoadInv, Begun' = Begun,
         UNCHANGED <<json, item, i, signalValues, inputSignalAssigned>>
  PROVE  LoadInv'
<1>1. \A m : Pos(m)' = Pos(m) /\ Sid(m)' = Sid(m) /\ Taken(m)' = Taken(m)
  BY DEF Pos, Sid, Taken
<1>2. ItemsMatch'
  BY <1>1 DEF LoadInv, ItemsMatch
<1>3. TakenIsStored'
  BY <1>1 DEF LoadInv, TakenIsStored
<1>4. MarkedWasTaken'
  BY <1>1 DEF LoadInv, MarkedWasTaken
<1>5. TakenOnce'
  BY <1>1 DEF LoadInv, TakenOnce
<1> QED
  BY <1>2, <1>3, <1>4, <1>5 DEF LoadInv

(* Whatever ends a process, what it leaves is an invariant state if the    *)
(* file is one.                                                            *)
LEMMA FreshPreserves ==
  ASSUME Fresh', outcome' \in Outcomes, file' \in Seq(Value \cup {Unset, Header}),
         owner' \in Json \cup {NoJson}, FileInv'
  PROVE  MainInv'
<1>1. Fresh' => (IInv /\ ControlInv /\ LoadInv /\ Loaded /\ WriteInv)'
  BY FreshProcess, PTL
<1>2. Types'
  <2>1. << >> \in Seq(Value \cup {Unset, Header}) /\ Len(<< >>) = 0
    BY EmptySeq
  <2>2. Len(json') \in Nat
    BY JsonItems DEF Fresh
  <2> QED
    BY <2>1, <2>2, MainAssumption DEF Fresh, Types
<1> QED
  BY <1>1, <1>2 DEF MainInv

LEMMA ExitIsFresh ==
  ASSUME NEW how, Exit(how)
  PROVE  Fresh' /\ outcome' = how
BY DEF Exit, Construct, Init, Fresh

LEMMA ExitPreserves ==
  ASSUME MainInv, NEW how \in Outcomes, Exit(how), UNCHANGED <<file, owner>>
  PROVE  MainInv'
<1>1. FileInv'
  BY DEF MainInv, FileInv
<1> QED
  BY <1>1, ExitIsFresh, FreshPreserves DEF MainInv, Types

LEMMA StartPreserves ==
  ASSUME MainInv, NEW j \in Json, Start(j)
  PROVE  MainInv'
<1>1. FileInv'
  BY DEF Start, MainInv, FileInv
<1>2. Fresh'
  BY DEF Start, Construct, Init, Fresh, MainInv, ControlInv
<1> QED
  BY <1>1, <1>2, FreshPreserves DEF Start, MainInv, Types, Outcomes

-----------------------------------------------------------------------------
(* With nothing taken, every main input is unset: main will not go on.     *)
LEMMA NothingTaken ==
  ASSUME MainInv, pc = "item", json = << >>
  PROVE  inputSignalAssignedCounter # 0
<1>1. item = 1
  BY EmptySeq DEF MainInv, Types
<1>2. Begun = {}
  BY <1>1 DEF Begun
<1>3. \A s \in InputSignals : ~inputSignalAssigned[s]
  BY <1>2 DEF MainInv, LoadInv, MarkedWasTaken
<1>4. Unassigned = InputSignals
  BY <1>3 DEF Unassigned
<1> QED
  BY <1>4, InputsAreSignals, SizesAssumption DEF MainInv, IInv, CounterCountsUnassigned

LEMMA NoItemsPreserves == ASSUME MainInv, NoItems PROVE MainInv'
<1>1. inputSignalAssignedCounter # 0
  BY NothingTaken DEF NoItems
<1>2. /\ UNCHANGED <<calcwitVars, json, item, i, buffer, outcome, file, owner>>
      /\ pc = "item" /\ pc' = "check" /\ json = << >>
  BY <1>1 DEF NoItems, calcwitVars
<1>3. IInv'
  BY <1>2, StutterPreserves DEF MainInv
<1>4. Types'
  BY <1>2 DEF MainInv, Types
<1>5. ControlInv'
  BY <1>2, EmptySeq DEF MainInv, Types, ControlInv, calcwitVars
<1>6. LoadInv'
  <2>1. Begun' = Begun
    BY <1>2 DEF Begun
  <2> QED
    BY <1>2, <2>1, LoadFrame DEF MainInv, calcwitVars
<1>7. Loaded' /\ WriteInv'
  BY <1>2 DEF Loaded, WriteInv
<1>8. FileInv'
  BY <1>2 DEF MainInv, FileInv
<1> QED
  BY <1>3, <1>4, <1>5, <1>6, <1>7, <1>8 DEF MainInv

LEMMA TakeItemPreserves == ASSUME MainInv, TakeItem PROVE MainInv'
<1> DEFINE h == fnv1a[Current.key]
<1>0. item \in 1 .. Len(json) /\ h \in Nat
  BY JsonItems DEF TakeItem, Current, MainInv, Types
<1>1. ASSUME NEW how \in Outcomes, Exit(how)
      PROVE  MainInv'
  BY <1>1, ExitPreserves DEF TakeItem
<1>2. CASE /\ ~HasBadNumber(Current) /\ Found(h) /\ Len(Current.vals) = getInputSignalSize(h)
           /\ pc' = "set" /\ i' = 0
           /\ UNCHANGED <<calcwitVars, json, item, buffer, outcome>>
  <2>1. UNCHANGED <<calcwitVars, json, item, buffer, outcome, file, owner>> /\ pc = "item"
    BY <1>2 DEF TakeItem
  <2>2. IInv'
    BY <2>1, StutterPreserves DEF MainInv
  <2>3. Types'
    BY <1>2, <2>1 DEF MainInv, Types
  <2>4. ControlInv'
    BY <1>0, <1>2, <2>1, JsonItems DEF MainInv, Types, ControlInv, calcwitVars
  <2>5. LoadInv'
    <3>1. Begun' = Begun \cup {item} /\ item \notin Begun
      BY <1>0, <1>2, <2>1 DEF Begun
    <3>2. \A m \in Begun : m < item /\ Taken(m)' = Taken(m)
      BY <1>0, <2>1 DEF Begun, Taken
    <3>3. Taken(item)' = 0
      BY <1>0, <1>2, <2>1 DEF Taken
    <3>4. Pos(item) \in Slots /\ Matches(json[item], Pos(item))
      BY <1>0, <1>2, LookupReturnsMatch DEF Pos, Matches, Current, getInputSignalSize
    <3>5. item \in DOMAIN json
      BY DEF TakeItem
    <3>6. ItemsMatch'
      BY <2>1, <3>1, <3>4, <3>5 DEF MainInv, LoadInv, ItemsMatch, Pos, Matches
    <3>7. TakenIsStored'
      BY <2>1, <3>1, <3>2, <3>3 DEF MainInv, LoadInv, TakenIsStored, Pos, Sid, calcwitVars
    <3>8. MarkedWasTaken'
      BY <2>1, <3>1, <3>2, <3>3 DEF MainInv, LoadInv, MarkedWasTaken, Pos, Sid, calcwitVars
    <3>9. TakenOnce'
      BY <2>1, <3>1, <3>2, <3>3 DEF MainInv, LoadInv, TakenOnce, Pos, Sid, calcwitVars
    <3> QED
      BY <3>6, <3>7, <3>8, <3>9 DEF LoadInv
  <2>6. Loaded' /\ WriteInv'
    BY <1>2 DEF Loaded, WriteInv
  <2>7. FileInv'
    BY <2>1 DEF MainInv, FileInv
  <2> QED
    BY <2>2, <2>3, <2>4, <2>5, <2>6, <2>7 DEF MainInv
<1> QED
  BY <1>1, <1>2 DEF TakeItem, Outcomes

LEMMA ItemDonePreserves == ASSUME MainInv, ItemDone PROVE MainInv'
<1>1. /\ UNCHANGED <<calcwitVars, json, buffer, outcome, file, owner>>
      /\ pc = "set" /\ pc' = "item" /\ item' = item + 1 /\ i' = 0 /\ i = Len(json[item].vals)
      /\ ~aborted
  BY DEF ItemDone, Current
<1>2. item \in 1 .. Len(json) /\ Len(json) \in Nat
  BY <1>1, JsonItems DEF MainInv, Types, ControlInv
<1>3. IInv'
  BY <1>1, StutterPreserves DEF MainInv
<1>4. Types'
  BY <1>1, <1>2 DEF MainInv, Types
<1>5. ControlInv'
  BY <1>1, <1>2 DEF MainInv, ControlInv, calcwitVars
<1>6. LoadInv'
  <2>1. Begun' = Begun
    BY <1>1, <1>2 DEF Begun
  <2>2. \A m \in Begun : Taken(m)' = Taken(m)
    BY <1>1, <1>2 DEF Begun, Taken
  <2> QED
    BY <1>1, <2>1, <2>2, SMTT(30) DEF MainInv, LoadInv, ItemsMatch, TakenIsStored, MarkedWasTaken,
         TakenOnce, Pos, Sid, calcwitVars, Matches
<1>7. Loaded' /\ WriteInv'
  BY <1>1 DEF Loaded, WriteInv
<1>8. FileInv'
  BY <1>1 DEF MainInv, FileInv
<1> QED
  BY <1>3, <1>4, <1>5, <1>6, <1>7, <1>8 DEF MainInv

LEMMA ItemsDonePreserves == ASSUME MainInv, ItemsDone PROVE MainInv'
<1>1. /\ UNCHANGED <<calcwitVars, json, item, i, buffer, outcome, file, owner>>
      /\ pc = "item" /\ pc' = "check" /\ item > Len(json)
  BY DEF ItemsDone
<1>2. item = Len(json) + 1
  BY <1>1, JsonItems DEF MainInv, Types
<1>3. IInv'
  BY <1>1, StutterPreserves DEF MainInv
<1>4. Types' /\ ControlInv'
  BY <1>1, <1>2 DEF MainInv, Types, ControlInv, calcwitVars
<1>5. LoadInv'
  <2>1. Begun' = Begun
    BY <1>1 DEF Begun
  <2> QED
    BY <1>1, <2>1, LoadFrame DEF MainInv, calcwitVars
<1>6. Loaded' /\ WriteInv' /\ FileInv'
  BY <1>1 DEF Loaded, WriteInv, MainInv, FileInv
<1> QED
  BY <1>3, <1>4, <1>5, <1>6 DEF MainInv

(* One value: an assert that fails leaves everything but aborted alone, an *)
(* accepted one is taken from the item and stored in a signal of its own.  *)
LEMMA SetValuePreserves == ASSUME MainInv, SetValue PROVE MainInv'
<1> DEFINE h == fnv1a[Current.key]
           val == Current.vals[i + 1]
           si == Sid(item) + i
<1>1. /\ UNCHANGED <<pc, json, item, buffer, outcome, file, owner>>
      /\ pc = "set" /\ i' = IF aborted' THEN i ELSE i + 1
      /\ i < Len(json[item].vals) /\ setInputSignal(h, i, val) /\ ~aborted
  BY DEF SetValue, Current, setInputSignal
<1>2. item \in 1 .. Len(json) /\ Len(json) \in Nat /\ i \in Nat
  BY <1>1, JsonItems DEF MainInv, Types, ControlInv
<1>3. /\ h \in Hash /\ h \in Nat
      /\ json[item].vals \in Seq(Value \cup {BadNumber}) /\ Len(json[item].vals) \in Nat
      /\ DOMAIN json[item].vals = 1 .. Len(json[item].vals)
  BY <1>2, JsonItems DEF MainInv, Types, Current
<1>4. item \in Begun
  BY <1>1, <1>2 DEF Begun
<1>5. Matches(json[item], Pos(item)) /\ Pos(item) \in Slots
  BY <1>4 DEF MainInv, LoadInv, ItemsMatch
<1>6. val \in Value
  <2>1. i + 1 \in 1 .. Len(json[item].vals)
    BY <1>1, <1>2, <1>3
  <2>2. val \in Value \cup {BadNumber}
    BY <1>3, <2>1, ElementOfSeq DEF Current
  <2>3. val # BadNumber
    BY <1>3, <1>5, <2>1 DEF Matches, HasBadNumber, Current
  <2> QED
    BY <2>2, <2>3
<1>7. IInv'
  BY <1>1, <1>2, <1>3, <1>6, CallPreserves DEF MainInv
<1>8. Types'
  BY <1>1, <1>2 DEF MainInv, Types
<1>9. ControlInv'
  BY <1>1, <1>2, <1>3 DEF MainInv, ControlInv
<1>10. Loaded' /\ WriteInv' /\ FileInv'
  BY <1>1 DEF Loaded, WriteInv, MainInv, FileInv
<1>11. Begun' = Begun
  BY <1>1 DEF Begun
<1>12. LoadInv'
  <2>1. CASE aborted'
    <3>1. /\ json' = json /\ item' = item /\ i' = i
          /\ signalValues' = signalValues /\ inputSignalAssigned' = inputSignalAssigned
      BY <1>1, <2>1 DEF setInputSignal
    <3> QED
      BY <1>11, <3>1, LoadFrame DEF MainInv
  <2>2. CASE ~aborted'
    <3>1. /\ si \in InputSignals /\ ~inputSignalAssigned[si]
          /\ inputSignalAssigned' = [inputSignalAssigned EXCEPT ![si] = TRUE]
          /\ signalValues'[si] = val
          /\ \A s \in InputSignals \ {si} : signalValues'[s] = signalValues[s]
      BY <1>1, <1>2, <1>3, <1>6, <2>2, AcceptedCall, SMTT(30) DEF MainInv, Sid, Pos, Current
    <3>2. /\ \A m \in Begun : Pos(m)' = Pos(m) /\ Sid(m)' = Sid(m)
          /\ \A m \in Begun \ {item} : m \in 1 .. item - 1 /\ Taken(m)' = Taken(m)
          /\ Taken(item) = i /\ Taken(item)' = i + 1
      BY <1>1, <1>2, <2>2 DEF Pos, Sid, Taken, Begun
    <3>3. \A m \in Begun : \A k : k \in 0 .. Taken(m)' - 1 <=>
                                \/ k \in 0 .. Taken(m) - 1
                                \/ m = item /\ k = i
      <4>1. \A k : k \in 0 .. (i + 1) - 1 <=> k \in 0 .. i - 1 \/ k = i
        BY <1>2
      <4>2. ASSUME NEW m \in Begun, NEW k, m = item
            PROVE  k \in 0 .. Taken(m)' - 1 <=> k \in 0 .. Taken(m) - 1 \/ (m = item /\ k = i)
        <5>1. Taken(m)' = i + 1 /\ Taken(m) = i
          BY <1>1, <1>2, <2>2, <4>2 DEF Taken
        <5> QED
          BY <4>1, <4>2, <5>1
      <4>3. ASSUME NEW m \in Begun, NEW k, m # item
            PROVE  k \in 0 .. Taken(m)' - 1 <=> k \in 0 .. Taken(m) - 1 \/ (m = item /\ k = i)
        BY <3>2, <4>3
      <4> QED
        BY <4>2, <4>3
    <3>4. inputSignalAssigned \in [InputSignals -> BOOLEAN]
      BY DEF MainInv, IInv, TypeOK
    <3>5. \A m \in Begun : \A k \in 0 .. Taken(m) - 1 :
            /\ Sid(m) + k \in InputSignals /\ Sid(m) + k # si
            /\ inputSignalAssigned[Sid(m) + k] /\ signalValues[Sid(m) + k] = json[m].vals[k + 1]
      BY <3>1 DEF MainInv, LoadInv, TakenIsStored
    <3>6. ItemsMatch'
      BY <1>1, <1>11, <3>2 DEF MainInv, LoadInv, ItemsMatch, Matches
    <3>7. TakenIsStored'
      <4> SUFFICES ASSUME NEW m \in Begun, NEW k \in 0 .. Taken(m)' - 1
                   PROVE  /\ Sid(m) + k \in InputSignals
                          /\ inputSignalAssigned'[Sid(m) + k]
                          /\ signalValues'[Sid(m) + k] = json[m].vals[k + 1]
        BY <1>1, <1>11, <3>2 DEF TakenIsStored
      <4>1. CASE k \in 0 .. Taken(m) - 1
        BY <4>1, <3>1, <3>4, <3>5
      <4>2. CASE m = item /\ k = i
        BY <4>2, <3>1, <3>4 DEF Current
      <4> QED
        BY <4>1, <4>2, <3>3
    <3>8. MarkedWasTaken'
      <4> SUFFICES ASSUME NEW s \in InputSignals, inputSignalAssigned'[s]
                   PROVE  \E m \in Begun : \E k \in 0 .. Taken(m)' - 1 : s = Sid(m) + k
        BY <1>11, <3>2 DEF MarkedWasTaken
      <4>1. CASE s = si
        BY <4>1, <1>4, <3>3
      <4>2. CASE s # si
        <5>1. inputSignalAssigned[s]
          BY <4>2, <3>1, <3>4
        <5>2. PICK m \in Begun : \E k \in 0 .. Taken(m) - 1 : s = Sid(m) + k
          BY <5>1 DEF MainInv, LoadInv, MarkedWasTaken
        <5> QED
          BY <5>2, <3>3
      <4> QED
        BY <4>1, <4>2
    <3>9. TakenOnce'
      <4> SUFFICES ASSUME NEW m \in Begun, NEW n \in Begun,
                          NEW k \in 0 .. Taken(m)' - 1, NEW l \in 0 .. Taken(n)' - 1,
                          Sid(m) + k = Sid(n) + l
                   PROVE  m = n
        BY <1>11, <3>2 DEF TakenOnce
      <4>1. CASE k \in 0 .. Taken(m) - 1 /\ l \in 0 .. Taken(n) - 1
        BY <4>1 DEF MainInv, LoadInv, TakenOnce
      <4>2. CASE k \in 0 .. Taken(m) - 1 /\ n = item /\ l = i
        BY <4>2, <3>5
      <4>3. CASE l \in 0 .. Taken(n) - 1 /\ m = item /\ k = i
        BY <4>3, <3>5
      <4> QED
        BY <4>1, <4>2, <4>3, <3>3
    <3> QED
      BY <3>6, <3>7, <3>8, <3>9 DEF LoadInv
  <2> QED
    BY <2>1, <2>2
<1> QED
  BY <1>7, <1>8, <1>9, <1>10, <1>12 DEF MainInv

(* When main finds no input left to be set, the JSON was exact and memory  *)
(* holds the signals that it determines.                                   *)
LEMMA CompleteIsExact ==
  ASSUME MainInv, pc = "check", inputSignalAssignedCounter = 0
  PROVE  Exact(json) /\ runs = 1 /\ \A s \in Signals : signalValues[s] = SignalOf(json, s)
<1>1. Unassigned = {}
  BY InputsAreSignals, FS_Subset, FS_EmptySet
     DEF MainInv, IInv, CounterCountsUnassigned, Unassigned
<1>2. \A s \in InputSignals : inputSignalAssigned[s]
  BY <1>1 DEF Unassigned
<1>3. /\ DOMAIN json = 1 .. Len(json) /\ Len(json) \in Nat /\ item = Len(json) + 1
      /\ \A m \in DOMAIN json : Len(json[m].vals) \in Nat
  BY JsonItems DEF MainInv, Types, ControlInv
<1>4. Begun = DOMAIN json /\ \A m \in DOMAIN json : Taken(m) = Len(json[m].vals)
  BY <1>3 DEF Begun, Taken
<1>5. \A m \in DOMAIN json : Pos(m) \in Slots /\ Matches(json[m], Pos(m))
  BY <1>4 DEF MainInv, LoadInv, ItemsMatch
<1>6. ASSUME NEW m \in DOMAIN json, NEW p \in Slots, NEW s \in SignalsOf(p), Matches(json[m], p)
      PROVE  p = Pos(m) /\ s - Sid(m) \in 0 .. Taken(m) - 1 /\ s = Sid(m) + (s - Sid(m))
  <2>1. p = Pos(m)
    BY <1>5, <1>6, OneSlotPerSignal DEF Matches
  <2>2. InputHashMap[p].signalid \in Nat /\ InputHashMap[p].signalsize = Taken(m)
    BY <1>4, <1>6, TableAssumption DEF Matches
  <2> QED
    BY <1>6, <2>1, <2>2, <1>3, <1>4, SMTT(30) DEF Sid, SignalsOf
<1>7. ASSUME NEW m \in DOMAIN json, NEW k \in 0 .. Taken(m) - 1
      PROVE  Covers(json, m, Sid(m) + k)
  <2>1. InputHashMap[Pos(m)].signalid \in Nat /\ InputHashMap[Pos(m)].signalsize = Taken(m)
    BY <1>4, <1>5, TableAssumption DEF Matches
  <2>2. Sid(m) + k \in SignalsOf(Pos(m))
    BY <2>1, <1>3, <1>4 DEF Sid, SignalsOf
  <2> QED
    BY <1>5, <2>2 DEF Covers
<1>8. ASSUME NEW s \in InputSignals
      PROVE  \E m \in DOMAIN json : Covers(json, m, s) /\
                \A n \in DOMAIN json : Covers(json, n, s) => n = m
  <2>0. PICK m \in DOMAIN json : \E k \in 0 .. Taken(m) - 1 : s = Sid(m) + k
    BY <1>2, <1>4 DEF MainInv, LoadInv, MarkedWasTaken
  <2>1. PICK k \in 0 .. Taken(m) - 1 : s = Sid(m) + k
    BY <2>0
  <2>2. ASSUME NEW n \in DOMAIN json, Covers(json, n, s)
        PROVE  n = m
    <3>1. PICK p \in Slots : Matches(json[n], p) /\ s \in SignalsOf(p)
      BY <2>2 DEF Covers
    <3>2. s - Sid(n) \in 0 .. Taken(n) - 1 /\ s = Sid(n) + (s - Sid(n))
      BY <3>1, <1>6
    <3> QED
      BY <2>1, <3>2, <1>4 DEF MainInv, LoadInv, TakenOnce
  <2> QED
    BY <2>1, <2>2, <1>7
<1>9. Exact(json)
  BY <1>5, <1>8 DEF Exact
<1>10. ASSUME NEW s \in InputSignals
       PROVE  InputOf(json)[s] = signalValues[s]
  <2> DEFINE m == CHOOSE n \in DOMAIN json : Covers(json, n, s)
             p == CHOOSE q \in Slots : Matches(json[m], q) /\ s \in SignalsOf(q)
  <2>1. m \in DOMAIN json /\ Covers(json, m, s)
    BY <1>8
  <2>2. p \in Slots /\ Matches(json[m], p) /\ s \in SignalsOf(p)
    BY <2>1 DEF Covers
  <2>3. InputOf(json)[s] = json[m].vals[s - InputHashMap[p].signalid + 1]
    BY DEF InputOf
  <2> HIDE DEF m, p
  <2>4. p = Pos(m) /\ s - Sid(m) \in 0 .. Taken(m) - 1 /\ s = Sid(m) + (s - Sid(m))
    BY <2>1, <2>2, <1>6
  <2>5. signalValues[s] = json[m].vals[s - Sid(m) + 1]
    BY <2>1, <2>4, <1>4 DEF MainInv, LoadInv, TakenIsStored
  <2> QED
    BY <2>3, <2>4, <2>5 DEF Sid
<1>11. InputOf(json) = [s \in InputSignals |-> signalValues[s]]
  BY <1>10 DEF InputOf
<1>12. ASSUME NEW s \in Signals
       PROVE  signalValues[s] = SignalOf(json, s)
  <2>1. CASE s = 0
    BY <2>1, InputsAreSignals DEF SignalOf, MainInv, IInv, MarkedHaveValues
  <2>2. CASE s \in InputSignals
    BY <2>2, <1>10, InputsAreSignals DEF SignalOf
  <2>3. CASE s \in ComputedSignals
    <3>1. runs > 0
      BY <1>1 DEF MainInv, IInv, RunsOnceWhenComplete
    <3>2. signalValues[s] = Circuit(InputOf(json), s)
      BY <2>3, <3>1, <1>11 DEF MainInv, IInv, WitnessMatchesInputs
    <3>3. s # 0 /\ s \notin InputSignals
      BY <2>3, InputsAreSignals
    <3> QED
      BY <3>2, <3>3 DEF SignalOf
  <2> QED
    BY <2>1, <2>2, <2>3, InputsAreSignals
<1>13. runs = 1
  BY <1>1 DEF MainInv, IInv, RunsOnceWhenComplete
<1> QED
  BY <1>9, <1>12, <1>13

LEMMA CheckPreserves == ASSUME MainInv, CheckRemaining PROVE MainInv'
<1>1. CASE inputSignalAssignedCounter # 0
  BY <1>1, ExitPreserves DEF CheckRemaining, Outcomes
<1>2. CASE inputSignalAssignedCounter = 0
  <2>1. /\ UNCHANGED <<calcwitVars, json, item, i, buffer, outcome, file, owner>>
        /\ pc = "check" /\ pc' = "open"
    BY <1>2 DEF CheckRemaining
  <2>2. IInv'
    BY <2>1, StutterPreserves DEF MainInv
  <2>3. Types' /\ ControlInv'
    BY <2>1 DEF MainInv, Types, ControlInv, calcwitVars
  <2>4. LoadInv'
    <3>1. Begun' = Begun
      BY <2>1 DEF Begun
    <3> QED
      BY <2>1, <3>1, LoadFrame DEF MainInv, calcwitVars
  <2>5. Loaded'
    BY <1>2, <2>1, CompleteIsExact DEF Loaded, calcwitVars
  <2>6. WriteInv' /\ FileInv'
    BY <2>1 DEF WriteInv, MainInv, FileInv
  <2> QED
    BY <2>2, <2>3, <2>4, <2>5, <2>6 DEF MainInv
<1> QED
  BY <1>1, <1>2

-----------------------------------------------------------------------------
(* writeBinWitness.                                                        *)
LEMMA OpenPreserves == ASSUME MainInv, OpenWitness PROVE MainInv'
<1>1. ASSUME Exit("killed"), UNCHANGED <<file, owner>> PROVE MainInv'
  BY <1>1, ExitPreserves DEF Outcomes
<1>2. CASE /\ pc' = "write" /\ file' = << >> /\ owner' = json
           /\ UNCHANGED <<calcwitVars, json, item, i, buffer, outcome>>
  <2>1. pc = "open" /\ json \in Json /\ buffer = << >> /\ owner' # NoJson
    BY <1>2, MainAssumption DEF OpenWitness, MainInv, ControlInv
  <2>2. IInv'
    BY <1>2, StutterPreserves DEF MainInv
  <2>3. Types' /\ ControlInv'
    BY <1>2, <2>1, EmptySeq DEF MainInv, Types, ControlInv, calcwitVars
  <2>4. LoadInv'
    <3>1. Begun' = Begun
      BY <1>2, <2>1 DEF Begun
    <3> QED
      BY <1>2, <3>1, LoadFrame DEF MainInv, calcwitVars
  <2>5. Loaded'
    BY <1>2, <2>1 DEF MainInv, Loaded, calcwitVars
  <2>6. WriteInv' /\ FileInv'
    BY <1>2, <2>1, EmptyIsPrefix DEF WriteInv, FileInv
  <2> QED
    BY <2>2, <2>3, <2>4, <2>5, <2>6 DEF MainInv
<1> QED
  BY <1>1, <1>2 DEF OpenWitness

LEMMA WitnessLength ==
  ASSUME NEW j
  PROVE  /\ Len(WitnessOf(j)) = WitnessSize + 1
         /\ WitnessOf(j)[1] = Header
         /\ \A k \in 1 .. WitnessSize : WitnessOf(j)[k + 1] = SignalOf(j, witness2SignalList[k - 1])
<1>1. Len(WitnessOf(j)) = WitnessSize + 1
  BY MainAssumption DEF WitnessOf
<1>2. \A k \in 1 .. WitnessSize + 1 :
        WitnessOf(j)[k] = IF k = 1 THEN Header ELSE SignalOf(j, witness2SignalList[k - 2])
  BY MainAssumption DEF WitnessOf
<1>3. ASSUME NEW k \in 1 .. WitnessSize
      PROVE  k + 1 \in 1 .. WitnessSize + 1 /\ k + 1 # 1 /\ (k + 1) - 2 = k - 1
  BY MainAssumption
<1> QED
  BY <1>1, <1>2, <1>3, MainAssumption

(* Appending the next element of the witness keeps the buffer a beginning. *)
LEMMA AppendKeepsPrefix ==
  ASSUME MainInv, pc = "write", NEW e \in Value \cup {Unset, Header},
         Len(buffer) <= WitnessSize, e = WitnessOf(json)[Len(buffer) + 1],
         buffer' = Append(buffer, e),
         UNCHANGED <<calcwitVars, pc, json, item, i, outcome, file, owner>>
  PROVE  MainInv'
<1>1. /\ buffer \in Seq(Value \cup {Unset, Header})
      /\ Abstract!PrefixOf(buffer, WitnessOf(json))
  BY DEF MainInv, Types, WriteInv
<1>2. /\ buffer' \in Seq(Value \cup {Unset, Header}) /\ Len(buffer') = Len(buffer) + 1
      /\ Len(buffer) \in Nat
      /\ \A k \in 1 .. Len(buffer) : buffer'[k] = buffer[k]
      /\ buffer'[Len(buffer) + 1] = e
  BY <1>1
<1>3. Abstract!PrefixOf(buffer', WitnessOf(json))
  BY <1>1, <1>2, WitnessLength, MainAssumption DEF Abstract!PrefixOf
<1>4. WriteInv'
  BY <1>3 DEF MainInv, WriteInv
<1>5. Types'
  BY <1>2, MainAssumption DEF MainInv, Types
<1>6. IInv'
  BY StutterPreserves DEF MainInv
<1>7. ControlInv' /\ Loaded' /\ FileInv'
  BY DEF MainInv, ControlInv, Loaded, FileInv, calcwitVars
<1>8. LoadInv'
  <2>1. Begun' = Begun
    BY DEF Begun
  <2> QED
    BY <2>1, LoadFrame DEF MainInv, calcwitVars
<1> QED
  BY <1>4, <1>5, <1>6, <1>7, <1>8 DEF MainInv

LEMMA WriteHeaderPreserves == ASSUME MainInv, WriteHeader PROVE MainInv'
<1>1. Len(buffer) = 0 /\ Append(buffer, Header) = << Header >>
  BY DEF WriteHeader
<1> QED
  BY <1>1, AppendKeepsPrefix, WitnessLength, MainAssumption DEF WriteHeader

LEMMA WriteSignalPreserves == ASSUME MainInv, WriteSignal PROVE MainInv'
<1> DEFINE s == witness2SignalList[Len(buffer) - 1]
           e == signalValues[s]
<1>1. Len(buffer) \in 1 .. WitnessSize /\ pc = "write"
  BY DEF WriteSignal
<1>2. s \in Signals
  BY <1>1, MainAssumption
<1>3. e = SignalOf(json, s) /\ e \in Value \cup {Unset, Header}
  BY <1>1, <1>2 DEF MainInv, Loaded, IInv, TypeOK
<1>4. e = WitnessOf(json)[Len(buffer) + 1]
  BY <1>1, <1>3, WitnessLength
<1> QED
  BY <1>1, <1>3, <1>4, AppendKeepsPrefix DEF WriteSignal

(* Any beginning of the buffer is a beginning of the witness.              *)
LEMMA BeginningIsPrefix ==
  ASSUME MainInv, pc = "write", NEW f \in BeginningsOfBuffer
  PROVE  f \in Seq(Value \cup {Unset, Header}) /\ Abstract!PrefixOf(f, WitnessOf(json))
<1>1. PICK n \in 0 .. Len(buffer) : f = SubSeq(buffer, 1, n)
  BY DEF BeginningsOfBuffer
<1>2. /\ buffer \in Seq(Value \cup {Unset, Header}) /\ Len(buffer) \in Nat
      /\ Abstract!PrefixOf(buffer, WitnessOf(json))
  BY DEF MainInv, Types, WriteInv
<1>3. \A k \in 1 .. n : buffer[k] \in Value \cup {Unset, Header}
  BY <1>1, <1>2, ElementOfSeq
<1>4. /\ f \in Seq(Value \cup {Unset, Header}) /\ Len(f) = n
      /\ \A k \in 1 .. n : f[k] = buffer[k]
  BY <1>1, <1>2, <1>3
<1> QED
  BY <1>1, <1>2, <1>4, WitnessLength, MainAssumption DEF Abstract!PrefixOf

(* fclose or a kill while the file is open fills it with a beginning.      *)
LEMMA EndOfWritePreserves ==
  ASSUME MainInv, pc = "write", NEW how \in Outcomes, Exit(how),
         file' \in BeginningsOfBuffer, UNCHANGED owner
  PROVE  MainInv'
<1>1. owner = json /\ json \in Json /\ owner # NoJson
  BY MainAssumption DEF MainInv, WriteInv, ControlInv
<1>2. file' \in Seq(Value \cup {Unset, Header}) /\ Abstract!PrefixOf(file', WitnessOf(json))
  BY BeginningIsPrefix
<1>3. FileInv'
  BY <1>1, <1>2 DEF FileInv
<1> QED
  BY <1>1, <1>2, <1>3, ExitIsFresh, FreshPreserves

LEMMA ClosePreserves == ASSUME MainInv, CloseWitness PROVE MainInv'
BY EndOfWritePreserves DEF CloseWitness, Outcomes

LEMMA KillPreserves == ASSUME MainInv, Kill PROVE MainInv'
<1>1. CASE pc = "write"
  BY <1>1, EndOfWritePreserves DEF Kill, Outcomes
<1>2. CASE pc # "write"
  BY <1>2, ExitPreserves DEF Kill, Outcomes
<1> QED
  BY <1>1, <1>2

LEMMA MainStutterPreserves == ASSUME MainInv, UNCHANGED mainVars PROVE MainInv'
<1>1. UNCHANGED <<calcwitVars, pc, json, item, i, buffer, outcome, file, owner>>
  BY DEF mainVars, procVars
<1>2. IInv'
  BY <1>1, StutterPreserves DEF MainInv
<1>3. Begun' = Begun
  BY <1>1 DEF Begun
<1>4. LoadInv'
  BY <1>1, <1>3, LoadFrame DEF MainInv, calcwitVars
<1>5. Types' /\ ControlInv' /\ Loaded' /\ WriteInv' /\ FileInv'
  BY <1>1 DEF MainInv, Types, ControlInv, Loaded, WriteInv, FileInv, calcwitVars
<1> QED
  BY <1>2, <1>4, <1>5 DEF MainInv

LEMMA MainInductive == MainSpec => []MainInv
<1>1. ASSUME MainInv, [MainNext]_mainVars PROVE MainInv'
  <2>1. CASE Usage
    BY <1>1, <2>1, ExitPreserves DEF Usage, Outcomes
  <2>2. CASE StartFails
    BY <1>1, <2>2, ExitPreserves DEF StartFails, Outcomes
  <2>3. ASSUME NEW j \in Json, Start(j) PROVE MainInv'
    BY <1>1, <2>3, StartPreserves
  <2>4. ASSUME Abort PROVE MainInv'
    BY <1>1, <2>4, ExitPreserves DEF Abort, Outcomes
  <2>5. CASE Step
    BY <1>1, <2>5, <2>4, NoItemsPreserves, TakeItemPreserves, SetValuePreserves,
       ItemDonePreserves, ItemsDonePreserves, CheckPreserves, OpenPreserves,
       WriteHeaderPreserves, WriteSignalPreserves, ClosePreserves DEF Step
  <2>6. CASE Kill
    BY <1>1, <2>6, KillPreserves
  <2>7. CASE UNCHANGED mainVars
    BY <1>1, <2>7, MainStutterPreserves
  <2> QED
    BY <1>1, <2>1, <2>2, <2>3, <2>5, <2>6, <2>7 DEF MainNext
<1> QED
  BY <1>1, InitMain, PTL DEF MainSpec

-----------------------------------------------------------------------------
THEOREM MainTypes == MainSpec => []MainTypeOK
<1>1. MainInv => MainTypeOK
  BY DEF MainInv, IInv, Types, MainTypeOK
<1> QED
  BY <1>1, MainInductive, PTL

(* The circuit has run in every process that reaches writeBinWitness.      *)
THEOREM OpensAfterRun == MainSpec => []OpensOnlyAfterRun
<1>1. MainInv => OpensOnlyAfterRun
  BY DEF MainInv, Loaded, OpensOnlyAfterRun
<1> QED
  BY <1>1, MainInductive, PTL

(* A file as long as its header says is the whole witness of the input of  *)
(* the run that opened it last, whatever was killed and whatever failed.   *)
THEOREM WholeFile == MainSpec => []WholeFileIsWitness
<1>1. MainInv => WholeFileIsWitness
  <2> SUFFICES ASSUME MainInv, Len(file) = WitnessSize + 1
               PROVE  file = WitnessOf(owner)
    BY DEF WholeFileIsWitness
  <2>1. owner # NoJson
    BY EmptySeq, MainAssumption DEF MainInv, FileInv
  <2>2. \A k \in 1 .. WitnessSize + 1 : file[k] = WitnessOf(owner)[k]
    BY <2>1 DEF MainInv, FileInv, Abstract!PrefixOf
  <2>3. file = [k \in 1 .. WitnessSize + 1 |-> file[k]]
    BY DEF MainInv, Types
  <2>4. WitnessOf(owner) = [k \in 1 .. WitnessSize + 1 |-> WitnessOf(owner)[k]]
    BY DEF WitnessOf
  <2> QED
    BY <2>2, <2>3, <2>4
<1> QED
  BY <1>1, MainInductive, PTL

(* Only fclose ends a run as "written", and then the buffer is the whole   *)
(* witness of the input of that run.                                       *)
THEOREM WrittenWhole == MainSpec => WrittenIsWhole
<1>1. ASSUME MainInv, CloseWitness
      PROVE  owner = json /\ buffer = WitnessOf(json) /\ file' \in BeginningsOfBuffer
  <2>1. /\ owner = json /\ file' \in BeginningsOfBuffer
        /\ buffer \in Seq(Value \cup {Unset, Header}) /\ Len(buffer) = WitnessSize + 1
        /\ \A k \in 1 .. WitnessSize + 1 : buffer[k] = WitnessOf(json)[k]
    BY <1>1 DEF CloseWitness, MainInv, WriteInv, Types, Abstract!PrefixOf
  <2>2. buffer = [k \in 1 .. WitnessSize + 1 |-> buffer[k]]
    BY <2>1
  <2>3. WitnessOf(json) = [k \in 1 .. WitnessSize + 1 |-> WitnessOf(json)[k]]
    BY DEF WitnessOf
  <2> QED
    BY <2>1, <2>2, <2>3
<1>2. ASSUME [MainNext]_mainVars, outcome # "written", outcome' = "written"
      PROVE  CloseWitness
  BY <1>2 DEF MainNext, Step, Usage, StartFails, Start, NoItems, TakeItem, SetValue, ItemDone,
     Abort, ItemsDone, CheckRemaining, OpenWitness, WriteHeader, WriteSignal, Kill, Exit,
     mainVars, procVars
<1>3. MainInv /\ [MainNext]_mainVars =>
        [outcome # "written" /\ outcome' = "written" =>
           owner = json /\ buffer = WitnessOf(json) /\ file' \in BeginningsOfBuffer]_mainVars
  BY <1>1, <1>2
<1> QED
  BY <1>3, MainInductive, PTL DEF MainSpec, WrittenIsWhole

(* Every step of the program is a step of WitnessFile, or leaves its       *)
(* variables alone.                                                        *)
LEMMA StepImplements ==
  ASSUME MainInv, MainInv', [MainNext]_mainVars
  PROVE  [Abstract!Next]_<<file, owner>>
<1>1. ASSUME OpenWitness, ~UNCHANGED <<file, owner>>
      PROVE  Abstract!Claim
  <2>1. /\ pc' = "write" /\ file' = << >> /\ owner' = json
        /\ pc = "open"
    BY <1>1 DEF OpenWitness
  <2>2. Exact(owner') /\ owner' \in Json
    BY <2>1 DEF MainInv, Loaded, ControlInv
  <2> QED
    BY <2>1, <2>2 DEF Abstract!Claim
<1>2. ASSUME pc = "write", file' \in BeginningsOfBuffer, UNCHANGED owner
      PROVE  Abstract!Fill
  <2>1. owner = json /\ owner # NoJson /\ file = << >>
    BY <1>2, MainAssumption DEF MainInv, WriteInv, ControlInv
  <2>2. Abstract!PrefixOf(file', WitnessOf(owner))
    BY <1>2, <2>1, BeginningIsPrefix
  <2> QED
    BY <1>2, <2>1, <2>2 DEF Abstract!Fill
<1>3. CASE CloseWitness
  BY <1>2, <1>3 DEF CloseWitness, Abstract!Next
<1>4. CASE Kill
  BY <1>2, <1>4 DEF Kill, Abstract!Next
<1>5. CASE OpenWitness
  BY <1>1, <1>5 DEF Abstract!Next
<1>6. ASSUME \/ Usage \/ StartFails \/ (\E j \in Json : Start(j))
             \/ NoItems \/ TakeItem \/ SetValue \/ ItemDone \/ Abort \/ ItemsDone
             \/ CheckRemaining \/ WriteHeader \/ WriteSignal \/ UNCHANGED mainVars
      PROVE  UNCHANGED <<file, owner>>
  BY <1>6 DEF Usage, StartFails, Start, NoItems, TakeItem, SetValue, ItemDone, Abort, ItemsDone,
     CheckRemaining, WriteHeader, WriteSignal, mainVars
<1> QED
  BY <1>3, <1>4, <1>5, <1>6 DEF MainNext, Step

(* The program implements WitnessFile.                                     *)
THEOREM MainImplementsWitnessFile == MainSpec => FileImplementsWitnessFile
<1>1. MainInit => Abstract!Init
  BY DEF MainInit, Abstract!Init
<1>2. MainInv /\ MainInv' /\ [MainNext]_mainVars => [Abstract!Next]_<<file, owner>>
  BY StepImplements
<1> QED
  BY <1>1, <1>2, MainInductive, PTL DEF MainSpec, FileImplementsWitnessFile, Abstract!Spec
=============================================================================
