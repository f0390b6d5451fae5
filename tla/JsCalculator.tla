---------------------------- MODULE JsCalculator ----------------------------
(***************************************************************************)
(* WitnessCalculator of build/auth_js/witness_calculator.js: asynchronous  *)
(* methods over one WebAssembly instance, whose memory all calls share.    *)
(* calculateWitness, calculateBinWitness and calculateWTNSBin all run      *)
(* _doCalculateWitness when they are called, and read the witness when the *)
(* event loop resumes them, after their await.                             *)
(***************************************************************************)
EXTENDS Integers, FiniteSets, Sequences, Functions

CONSTANTS
  Calls,
  Key,               (* keys of a qualified input                          *)
  SignalOfKey,       (* [Key -> the first signal with that name's hash, or *)
                     (* NoSignal]                                          *)
  SizeOfKey,         (* [Key -> number of signals with that name]          *)
  NoSignal,
  Value,
  BadNumber,         (* a value that BigInt() throws on                    *)
  Json,              (* qualified inputs: sequences of [key, vals]         *)
  One, Blank,        (* the element 1, and what a fresh memory holds       *)
  InputSignals,
  ComputedSignals,
  Circuit(_, _),     (* value the circuit gives a signal, from the inputs  *)
  Evaluated(_),      (* the signals it computes before an assert of the    *)
                     (* circuit fails for these inputs, or all of them     *)
  witnessSize, witness2signal,
  NoAnswer, Thrown

Signals == {0} \cup InputSignals \cup ComputedSignals

Named(it) == SignalOfKey[it.key] # NoSignal

(* The signals of a key follow one another.                                *)
SignalsOf(k) ==
  IF SignalOfKey[k] = NoSignal THEN {}
  ELSE SignalOfKey[k] .. SignalOfKey[k] + SizeOfKey[k] - 1

(* Every input has one name, and a name has no other signals.              *)
ASSUME InstanceAssumption ==
  /\ IsFiniteSet(InputSignals) /\ InputSignals # {} /\ InputSignals \subseteq Int
  /\ ComputedSignals \cap InputSignals = {} /\ 0 \notin InputSignals \cup ComputedSignals
  /\ SignalOfKey \in [Key -> InputSignals \cup {NoSignal}] /\ NoSignal \notin InputSignals
  /\ SizeOfKey \in [Key -> Nat]
  /\ \A k \in Key : SignalOfKey[k] = NoSignal => SizeOfKey[k] = 0
  /\ \A k \in Key : SignalsOf(k) \subseteq InputSignals
  /\ \A s \in InputSignals : \E k \in Key : s \in SignalsOf(k)
  /\ \A k, l \in Key : k # l => SignalsOf(k) \cap SignalsOf(l) = {}
  /\ witnessSize \in Nat /\ witness2signal \in [1 .. witnessSize -> Signals]

Item == [key : Key, vals : Seq(Value \cup {BadNumber})]

ASSUME InputsAssumption ==
  /\ BadNumber \notin Value
  /\ Json \subseteq Seq(Item)
  /\ \A j \in Json : \A m, n \in DOMAIN j : m # n => j[m].key # j[n].key

(* The circuit computes an element from whatever the memory holds.         *)
ASSUME CircuitAssumption ==
  /\ One \in Value
  /\ \A in \in [InputSignals -> Value \cup {Blank}] :
       /\ Evaluated(in) \subseteq ComputedSignals
       /\ \A s \in ComputedSignals : Circuit(in, s) \in Value

Witnesses == [1 .. witnessSize -> Value \cup {Blank}]

ASSUME AnswersAssumption ==
  /\ NoAnswer \notin Json /\ NoAnswer # Thrown
  /\ NoAnswer \notin Witnesses /\ Thrown \notin Witnesses

VARIABLES
  oneAtATime,        (* whether the client awaits each call before the next*)
  signals,           (* the signals in the memory of the instance          *)
  asked,             (* the input of each call, or NoAnswer                *)
  resolved,          (* whether the _doCalculateWitness of a call that     *)
                     (* awaits it returned or threw                        *)
  queue,             (* the continuations in the event loop, in order      *)
  answer,            (* what each call returned: a witness, or Thrown      *)
  latest             (* the call that used the instance last (history)     *)

jsVars == <<oneAtATime, signals, asked, resolved, queue, answer, latest>>

-----------------------------------------------------------------------------
(* The instance: its signals, how many inputs are still to be set, and     *)
(* whether nothing has been thrown.                                        *)

(* Mutant: init is left out; the counter is at 0 from the call before.     *)
initNothing(sv) ==
  [signals |-> sv, left |-> IF latest = NoAnswer THEN Cardinality(InputSignals) ELSE 0, ok |-> TRUE]

(* init: the counter and the components are new, the signals are not.      *)
init(sv) == [signals |-> sv, left |-> Cardinality(InputSignals), ok |-> TRUE]

throw(m) == [m EXCEPT !.ok = FALSE]

InputOf(sv) == [s \in InputSignals |-> sv[s]]

(* The circuit, which stops at an assert of its own that fails.            *)
run(m) ==
  LET in == InputOf(m.signals)
  IN  [m EXCEPT !.signals = [s \in Signals |-> IF s \in Evaluated(in) THEN Circuit(in, s) ELSE @[s]],
                !.ok = Evaluated(in) = ComputedSignals]

(* Mutant: the circuit runs when one input is still to be set, only then.  *)
setInputSignalEarly(m, s, v) ==
  IF m.left = 0 THEN throw(m)
  ELSE LET set == [m EXCEPT !.signals[s] = v, !.left = @ - 1]
       IN  IF set.left = 1 THEN run(set) ELSE set

(* setInputSignal for a signal that exists. The instance has a code for a  *)
(* signal that is set already, but nothing in it ever sets the flag.       *)
setInputSignal(m, s, v) ==
  IF m.left = 0 THEN throw(m)
  ELSE LET set == [m EXCEPT !.signals[s] = v, !.left = @ - 1]
       IN  IF set.left = 0 THEN run(set) ELSE set

(* One value: BigInt(), then setInputSignal.                               *)
setValue(m, it, n) ==
  IF ~m.ok \/ it.vals[n] = BadNumber THEN throw(m)
  ELSE setInputSignal(m, SignalOfKey[it.key] + n - 1, it.vals[n])

(* One key of the input. getInputSignalSize answers 0 for a name that it   *)
(* does not find: its "not found" is never less than 0.                    *)
setItem(m, it) ==
  IF ~m.ok \/ Len(it.vals) # SizeOfKey[it.key] THEN throw(m)
  ELSE LET set[n \in 0 .. Len(it.vals)] == IF n = 0 THEN m ELSE setValue(set[n - 1], it, n)
       IN  set[Len(it.vals)]

(* The keys of the input, in their order.                                  *)
setItems(m, j) ==
  LET set[n \in 0 .. Len(j)] == IF n = 0 THEN m ELSE setItem(set[n - 1], j[n])
  IN  set[Len(j)]

(* Mutant: the inputs are not counted at the end.                          *)
doCalculateWitnessUncounted(j) == setItems(init(signals), j)

(* _doCalculateWitness, from init to the count of the inputs at the end.   *)
doCalculateWitness(j) ==
  LET m == setItems(init(signals), j)
  IN  IF m.left > 0 THEN throw(m) ELSE m

Witness(sv) == [k \in 1 .. witnessSize |-> sv[witness2signal[k]]]

-----------------------------------------------------------------------------
Init ==
  /\ oneAtATime \in BOOLEAN
  /\ signals = [s \in Signals |-> IF s = 0 THEN One ELSE Blank]
  /\ asked = [c \in Calls |-> NoAnswer]
  /\ resolved = [c \in Calls |-> FALSE]
  /\ queue = << >>
  /\ answer = [c \in Calls |-> NoAnswer]
  /\ latest = NoAnswer

(* Mutant: the client forgets to await.                                    *)
CallNoAwait(c, j) ==
  /\ asked[c] = NoAnswer
  /\ LET m == doCalculateWitness(j)
     IN  /\ signals' = m.signals
         /\ resolved' = [resolved EXCEPT ![c] = m.ok]
  /\ asked' = [asked EXCEPT ![c] = j]
  /\ queue' = Append(queue, c)
  /\ latest' = c
  /\ UNCHANGED <<oneAtATime, answer>>

(* A call, up to its await: _doCalculateWitness never waits itself, so the *)
(* promise that is awaited is settled and the continuation is queued.      *)
Call(c, j) ==
  /\ asked[c] = NoAnswer
  /\ oneAtATime => queue = << >>
  /\ LET m == doCalculateWitness(j)
     IN  /\ signals' = m.signals
         /\ resolved' = [resolved EXCEPT ![c] = m.ok]
  /\ asked' = [asked EXCEPT ![c] = j]
  /\ queue' = Append(queue, c)
  /\ latest' = c
  /\ UNCHANGED <<oneAtATime, answer>>

(* Mutant: a call whose _doCalculateWitness threw is never settled.        *)
ResumeUnsettled ==
  /\ queue # << >> /\ resolved[Head(queue)]
  /\ answer' = [answer EXCEPT ![Head(queue)] = Witness(signals)]
  /\ queue' = Tail(queue)
  /\ UNCHANGED <<oneAtATime, signals, asked, resolved, latest>>

(* The event loop resumes the call that waits longest: it throws what was  *)
(* thrown, or reads the witness out of the instance, in one go.            *)
Resume ==
  /\ queue # << >>
  /\ LET c == Head(queue)
     IN  answer' = [answer EXCEPT ![c] = IF resolved[c] THEN Witness(signals) ELSE Thrown]
  /\ queue' = Tail(queue)
  /\ UNCHANGED <<oneAtATime, signals, asked, resolved, latest>>

Next == Resume \/ \E c \in Calls, j \in Json : Call(c, j)

(* The event loop runs what is queued. Nobody has to make a call.          *)
Spec == Init /\ [][Next]_jsVars /\ WF_jsVars(Resume)

-----------------------------------------------------------------------------
(* What the calls should answer, whatever the instance went through.       *)

Covers(it, s) == s \in SignalsOf(it.key)

Inputs(j) ==
  [s \in InputSignals |->
     LET it == CHOOSE it \in Range(j) : Covers(it, s)
     IN  it.vals[s - SignalOfKey[it.key] + 1]]

(* Every key has as many values as signals and no value is bad; every      *)
(* input is there; no assert of the circuit fails.                         *)
Accepted(j) ==
  /\ \A it \in Range(j) : Len(it.vals) = SizeOfKey[it.key] /\ BadNumber \notin Range(it.vals)
  /\ \A s \in InputSignals : \E it \in Range(j) : Covers(it, s)
  /\ Evaluated(Inputs(j)) = ComputedSignals

SignalsFor(j) ==
  [s \in Signals |-> CASE s = 0 -> One
                       [] s \in InputSignals -> Inputs(j)[s]
                       [] OTHER -> Circuit(Inputs(j), s)]

WitnessFor(j) == Witness(SignalsFor(j))

JsTypeOK ==
  /\ oneAtATime \in BOOLEAN
  /\ signals \in [Signals -> Value \cup {Blank}]
  /\ asked \in [Calls -> Json \cup {NoAnswer}]
  /\ resolved \in [Calls -> BOOLEAN]
  /\ queue \in Seq(Calls)
  /\ answer \in [Calls -> Witnesses \cup {NoAnswer, Thrown}]
  /\ latest \in Calls \cup {NoAnswer}

(* A call throws exactly for the inputs that are not accepted, whatever    *)
(* earlier and overlapping calls, refused ones too, left in the instance.  *)
ThrowsExactlyRefused ==
  \A c \in Calls : answer[c] # NoAnswer => (answer[c] = Thrown <=> ~Accepted(asked[c]))

(* What overlapping calls get: a call that is resumed returns the witness  *)
(* of the call that used the instance last, whoever made it. Its own if    *)
(* no call was made since; if that last call was refused, nothing is said, *)
(* and the witness may be a mixture of several inputs.                     *)
ReturnsWitnessOfLatest ==
  [][\A c \in Calls :
       answer[c] = NoAnswer /\ answer'[c] \notin {NoAnswer, Thrown} /\ Accepted(asked[latest])
         => answer'[c] = WitnessFor(asked[latest])]_jsVars

(* A client that awaits each call before the next, like that of the        *)
(* repository (generate_witness.js), has a WitnessService: each call       *)
(* answers for its own input, whatever the instance was used for before.   *)
(* (A client whose calls may overlap uses the service for none of them.)   *)
Awaited(calls) == IF oneAtATime THEN calls ELSE [c \in Calls |-> NoAnswer]
Service == INSTANCE WitnessService
             WITH Witness <- WitnessFor, asked <- Awaited(asked), answer <- Awaited(answer)
ImplementsWitnessService == Service!Spec

(* Every call is settled.                                                  *)
EveryCallSettles == \A c \in Calls : asked[c] # NoAnswer ~> answer[c] # NoAnswer

(* witness_calculator.js:147-148: a key that names no signal is refused    *)
(* ("Signal ... not found").                                               *)
UnknownNameIsRefused ==
  \A c \in Calls : asked[c] # NoAnswer /\ (\E it \in Range(asked[c]) : ~Named(it))
                     => answer[c] \in {NoAnswer, Thrown}
=============================================================================
