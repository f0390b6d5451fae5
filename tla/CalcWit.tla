------------------------------ MODULE CalcWit ------------------------------
(***************************************************************************)
(* Circom_CalcWit, the witness calculator object of auth_cpp/calcwit.cpp:  *)
(* it takes the main component's input signals one at a time through       *)
(* setInputSignal, finds each by the hash of its name in a table probed    *)
(* linearly, and runs the circuit in the call that assigns the last one.   *)
(* An assert of the C++ code that fails ends the process: aborted.         *)
(***************************************************************************)
EXTENDS Integers, FiniteSets

CONSTANTS
  HashMapSize,      (* get_size_of_input_hashmap()                         *)
  InputHashMap,     (* the table of the .dat file: slot -> HashSignalInfo  *)
  Hash,             (* the 64-bit hashes that names are given              *)
  Value,            (* field elements                                      *)
  One,              (* the field element 1                                 *)
  Unset,            (* what new FrElement[] leaves in a signal             *)
  MainInputStart,   (* get_main_input_signal_start()                       *)
  MainInputNo,      (* get_main_input_signal_no()                          *)
  TotalSignals,     (* get_total_signal_no()                               *)
  Circuit(_, _)     (* value that the circuit gives to a signal, from the  *)
                    (* values of the input signals                         *)

Slots   == 0 .. HashMapSize - 1
Signals == 0 .. TotalSignals - 1

(* signalValues is laid out as <<1, outputs, main inputs, the rest>>.      *)
InputSignals    == MainInputStart .. MainInputStart + MainInputNo - 1
ComputedSignals == Signals \ (InputSignals \cup {0})

(* A slot without a signal has signalid 0, which is the signal "one".      *)
Entries == {p \in Slots : InputHashMap[p].signalid # 0}

SignalsOf(p) ==
  InputHashMap[p].signalid .. InputHashMap[p].signalid + InputHashMap[p].signalsize - 1

ASSUME SizesAssumption ==
  /\ HashMapSize \in Nat \ {0}
  /\ MainInputStart \in Nat \ {0}
  /\ MainInputNo \in Nat \ {0}
  /\ TotalSignals \in Nat
  /\ MainInputStart + MainInputNo <= TotalSignals
  /\ Hash \subseteq Nat

(* The slot of the k-th probe for hash h.                                  *)
Probe(h, k) == ((h % HashMapSize) + k) % HashMapSize

(* What the circom compiler writes to auth.dat: the entries of the table   *)
(* are the main inputs, each of them in exactly one entry, which no empty  *)
(* slot separates from its home slot.                                      *)
ASSUME TableAssumption ==
  /\ InputHashMap \in [Slots -> [hash : Nat, signalid : Nat, signalsize : Nat]]
  /\ \A p \in Slots \ Entries : InputHashMap[p].hash = 0 /\ InputHashMap[p].signalsize = 0
  /\ \A p \in Entries : SignalsOf(p) \subseteq InputSignals
  /\ \A s \in InputSignals : \E p \in Entries : s \in SignalsOf(p)
  /\ \A p, q \in Entries : p # q => /\ InputHashMap[p].hash # InputHashMap[q].hash
                                    /\ SignalsOf(p) \cap SignalsOf(q) = {}
  /\ \A p \in Entries :
       LET h == InputHashMap[p].hash
       IN  /\ h # 0
           /\ \E k \in Slots : /\ Probe(h, k) = p
                              /\ \A l \in 1 .. k - 1 : Probe(h, l) \in Entries

ASSUME ValuesAssumption ==
  /\ One \in Value
  /\ Unset \notin Value
  /\ \A f \in [InputSignals -> Value], s \in ComputedSignals : Circuit(f, s) \in Value

VARIABLES
  signalValues,
  inputSignalAssigned,         (* by signal; the code's array starts at    *)
                               (* MainInputStart                           *)
  inputSignalAssignedCounter,  (* counts down to 0                         *)
  runs,                        (* how often the circuit has run (history)  *)
  aborted

calcwitVars ==
  <<signalValues, inputSignalAssigned, inputSignalAssignedCounter, runs, aborted>>

-----------------------------------------------------------------------------
(* Mutant: only the home slot is looked at.                                *)
HomeSlotOnly(h) == IF InputHashMap[Probe(h, 0)].hash = h THEN Probe(h, 0) ELSE -1

(* getInputSignalHashPosition: from the home slot on, once around, up to   *)
(* the first slot that has the hash or is empty. That the home slot is     *)
(* empty does not end the search.                                          *)

NotFound == -1

StopsAt(h, k) ==
  \/ InputHashMap[Probe(h, k)].hash = h
  \/ k > 0 /\ InputHashMap[Probe(h, k)].signalid = 0

getInputSignalHashPosition(h) ==
  IF \E k \in Slots : /\ InputHashMap[Probe(h, k)].hash = h
                      /\ \A l \in 0 .. k - 1 : ~StopsAt(h, l)
  THEN Probe(h, CHOOSE k \in Slots : /\ InputHashMap[Probe(h, k)].hash = h
                                     /\ \A l \in 0 .. k - 1 : ~StopsAt(h, l))
  ELSE NotFound

Found(h) == getInputSignalHashPosition(h) # NotFound

getInputSignalSize(h) == InputHashMap[getInputSignalHashPosition(h)].signalsize

-----------------------------------------------------------------------------
(* The constructor.                                                        *)
InitialSignals == [s \in Signals |-> IF s = 0 THEN One ELSE Unset]
NoneAssigned   == [s \in InputSignals |-> FALSE]

Init ==
  /\ signalValues = InitialSignals
  /\ inputSignalAssigned = NoneAssigned
  /\ inputSignalAssignedCounter = MainInputNo
  /\ runs = 0
  /\ aborted = FALSE

Construct ==
  /\ signalValues' = InitialSignals
  /\ inputSignalAssigned' = NoneAssigned
  /\ inputSignalAssignedCounter' = MainInputNo
  /\ runs' = 0
  /\ aborted' = FALSE

(* run(ctx): every computed signal from the input signals of sv.           *)
run(sv) ==
  LET in == [s \in InputSignals |-> sv[s]]
  IN  [s \in Signals |-> IF s \in ComputedSignals THEN Circuit(in, s) ELSE sv[s]]

(* Mutant: the circuit runs one input early, and again at the last one.    *)
tryRunCircuitOneEarly(sv, left) ==
  /\ inputSignalAssignedCounter' = left
  /\ signalValues' = IF left <= 1 THEN run(sv) ELSE sv
  /\ runs' = IF left <= 1 THEN runs + 1 ELSE runs

(* The end of a call: sv is in memory and left inputs are still to be set. *)
tryRunCircuit(sv, left) ==
  /\ inputSignalAssignedCounter' = left
  /\ signalValues' = IF left = 0 THEN run(sv) ELSE sv
  /\ runs' = IF left = 0 THEN runs + 1 ELSE runs

(* Mutant: the last of the asserts is left out.                            *)
RefusedTwiceAllowed(h, i) ==
  \/ inputSignalAssignedCounter = 0
  \/ ~Found(h)
  \/ i >= getInputSignalSize(h)

(* Mutant: only the lookup is checked.                                     *)
RefusedLookupOnly(h, i) ==
  \/ ~Found(h)
  \/ i >= getInputSignalSize(h)

(* The four asserts of setInputSignal, in the order of the code.           *)
Refused(h, i) ==
  \/ inputSignalAssignedCounter = 0
  \/ ~Found(h)
  \/ i >= getInputSignalSize(h)
  \/ inputSignalAssigned[InputHashMap[getInputSignalHashPosition(h)].signalid + i]

setInputSignal(h, i, val) ==
  /\ ~aborted
  /\ IF Refused(h, i)
     THEN /\ aborted' = TRUE
          /\ UNCHANGED <<signalValues, inputSignalAssigned, inputSignalAssignedCounter, runs>>
     ELSE LET si == InputHashMap[getInputSignalHashPosition(h)].signalid + i
          IN  /\ inputSignalAssigned' = [inputSignalAssigned EXCEPT ![si] = TRUE]
              /\ tryRunCircuit([signalValues EXCEPT ![si] = val],
                               inputSignalAssignedCounter - 1)
              /\ UNCHANGED aborted

(* Any client: whatever order of calls, with any hash, index and value.    *)
Next == \E h \in Hash, i \in 0 .. MainInputNo, val \in Value : setInputSignal(h, i, val)

Spec == Init /\ [][Next]_calcwitVars

-----------------------------------------------------------------------------
TypeOK ==
  /\ signalValues \in [Signals -> Value \cup {Unset}]
  /\ inputSignalAssigned \in [InputSignals -> BOOLEAN]
  /\ inputSignalAssignedCounter \in 0 .. MainInputNo
  /\ runs \in {0, 1}
  /\ aborted \in BOOLEAN

Unassigned == {s \in InputSignals : ~inputSignalAssigned[s]}

(* The counter that decides when to run is the number of main inputs still *)
(* without a value: a call that is refused, or repeated, must not move it. *)
CounterCountsUnassigned == inputSignalAssignedCounter = Cardinality(Unassigned)

(* The circuit has run exactly when every main input has a value, and only *)
(* once, however the calls were ordered.                                   *)
RunsOnceWhenComplete == runs = IF Unassigned = {} THEN 1 ELSE 0

(* Once the circuit has run, every computed signal is still the circuit's  *)
(* value for the inputs in memory: no late or repeated setInputSignal can  *)
(* leave a witness that belongs to other inputs.                           *)
WitnessMatchesInputs ==
  runs > 0 => LET in == [s \in InputSignals |-> signalValues[s]]
              IN  \A s \in ComputedSignals : signalValues[s] = Circuit(in, s)

(* A signal that has a value never gets another one.                       *)
SignalsWrittenOnce ==
  [][\A s \in Signals : signalValues[s] # Unset => signalValues'[s] = signalValues[s]]_calcwitVars
=============================================================================
