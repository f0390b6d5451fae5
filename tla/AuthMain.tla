------------------------------ MODULE AuthMain ------------------------------
(***************************************************************************)
(* The auth program (auth_cpp/main.cpp): main builds a Circom_CalcWit, has *)
(* loadJson feed it the qualified JSON input, and writes the witness with  *)
(* writeBinWitness. One process runs at a time; a session starts it again  *)
(* and again on the same output file, and may kill it at any point.        *)
(***************************************************************************)
EXTENDS CalcWit, Sequences

CONSTANTS
  Key,             (* the keys of a qualified input                        *)
  fnv1a,           (* [Key -> Hash]                                        *)
  BadNumber,       (* a JSON value that json2FrElements throws on          *)
  Json,            (* qualified inputs: sequences of [key, vals], keys     *)
                   (* distinct, in the order of the std::map               *)
  NoJson,
  Header,          (* everything writeBinWitness writes before the data    *)
  WitnessSize,     (* get_size_of_witness()                                *)
  witness2SignalList

Item == [key : Key, vals : Seq(Value \cup {BadNumber})]

ASSUME MainAssumption ==
  /\ fnv1a \in [Key -> Hash]
  /\ BadNumber \notin Value
  /\ Json \subseteq Seq(Item)
  /\ \A j \in Json : \A m, n \in DOMAIN j : m # n => j[m].key # j[n].key
  /\ NoJson \notin Json
  /\ WitnessSize \in Nat
  /\ witness2SignalList \in [0 .. WitnessSize - 1 -> Signals]

VARIABLES
  pc,        (* where the process is; "shell" when none runs               *)
  json,      (* j of loadJson                                              *)
  item,      (* the item of j that the loop is at                          *)
  i,         (* its next value                                             *)
  buffer,    (* what the process has handed to fwrite since fopen          *)
  outcome,   (* how the last process ended                                 *)
  file,      (* the output file                                            *)
  owner      (* the input of the process that last emptied it (history)    *)

procVars == <<pc, json, item, i, buffer>>
mainVars == <<calcwitVars, procVars, outcome, file, owner>>

Outcomes == {"none", "usage", "written", "thrown", "aborted", "killed"}

MainInit ==
  /\ Init
  /\ pc = "shell" /\ json = << >> /\ item = 1 /\ i = 0 /\ buffer = << >>
  /\ outcome = "none"
  /\ file = << >>
  /\ owner = NoJson

(* Mutant: the next process starts its loop where the last one stopped.    *)
ExitKeepsItem(how) ==
  /\ Construct
  /\ pc' = "shell" /\ json' = << >> /\ i' = 0 /\ buffer' = << >>
  /\ outcome' = how
  /\ UNCHANGED item

(* The process ends and its memory is gone.                                *)
Exit(how) ==
  /\ Construct
  /\ pc' = "shell" /\ json' = << >> /\ item' = 1 /\ i' = 0 /\ buffer' = << >>
  /\ outcome' = how

-----------------------------------------------------------------------------
(* main with a wrong number of arguments prints the usage and returns 0.   *)
Usage ==
  /\ pc = "shell"
  /\ Exit("usage")
  /\ UNCHANGED <<file, owner>>

(* loadCircuit, the constructor of Circom_CalcWit, and the qualified input.*)
Start(j) ==
  /\ pc = "shell"
  /\ Construct
  /\ pc' = "item" /\ json' = j /\ item' = 1 /\ i' = 0
  /\ outcome' = "none"
  /\ UNCHANGED <<buffer, file, owner>>

(* The .dat or JSON file cannot be read or parsed, or the types in an      *)
(* array differ: the process ends before it looks at any item.             *)
StartFails ==
  /\ pc = "shell"
  /\ \E how \in {"thrown", "aborted"} : Exit(how)
  /\ UNCHANGED <<file, owner>>

(* loadJson with no items at all: the circuit runs if nothing is to be set.*)
NoItems ==
  /\ pc = "item" /\ json = << >>
  /\ IF inputSignalAssignedCounter = 0
     THEN tryRunCircuit(signalValues, 0)
     ELSE UNCHANGED <<signalValues, inputSignalAssignedCounter, runs>>
  /\ pc' = "check"
  /\ UNCHANGED <<inputSignalAssigned, aborted, json, item, i, buffer, outcome, file, owner>>

Current == json[item]
HasBadNumber(it) == \E k \in DOMAIN it.vals : it.vals[k] = BadNumber

(* Mutant: the lookup of a name that is in no entry never stops probing.   *)
TakeItemProbesOn ==
  /\ pc = "item" /\ item \in DOMAIN json
  /\ LET h == fnv1a[Current.key]
     IN  \/ /\ HasBadNumber(Current)
            /\ Exit("thrown")
         \/ /\ ~HasBadNumber(Current) /\ Found(h)
            /\ Len(Current.vals) # getInputSignalSize(h)
            /\ Exit("thrown")
         \/ /\ ~HasBadNumber(Current) /\ Found(h)
            /\ Len(Current.vals) = getInputSignalSize(h)
            /\ pc' = "set" /\ i' = 0
            /\ UNCHANGED <<calcwitVars, json, item, buffer, outcome>>
  /\ UNCHANGED <<file, owner>>

(* The next item of j: its values are converted, then its signal is looked *)
(* up (an assert), then the sizes are compared.                            *)
TakeItem ==
  /\ pc = "item" /\ item \in DOMAIN json
  /\ LET h == fnv1a[Current.key]
     IN  \/ /\ HasBadNumber(Current)
            /\ Exit("thrown")
         \/ /\ ~HasBadNumber(Current) /\ ~Found(h)
            /\ Exit("aborted")
         \/ /\ ~HasBadNumber(Current) /\ Found(h)
            /\ Len(Current.vals) # getInputSignalSize(h)
            /\ Exit("thrown")
         \/ /\ ~HasBadNumber(Current) /\ Found(h)
            /\ Len(Current.vals) = getInputSignalSize(h)
            /\ pc' = "set" /\ i' = 0
            /\ UNCHANGED <<calcwitVars, json, item, buffer, outcome>>
  /\ UNCHANGED <<file, owner>>

(* The next value of the item; an assert in setInputSignal that fails      *)
(* leaves aborted set, and Abort ends the process.                         *)
SetValue ==
  /\ pc = "set" /\ i < Len(Current.vals)
  /\ setInputSignal(fnv1a[Current.key], i, Current.vals[i + 1])
  /\ i' = IF aborted' THEN i ELSE i + 1
  /\ UNCHANGED <<pc, json, item, buffer, outcome, file, owner>>

ItemDone ==
  /\ pc = "set" /\ ~aborted /\ i = Len(Current.vals)
  /\ pc' = "item" /\ item' = item + 1 /\ i' = 0
  /\ UNCHANGED <<calcwitVars, json, buffer, outcome, file, owner>>

Abort ==
  /\ pc = "set" /\ aborted
  /\ Exit("aborted")
  /\ UNCHANGED <<file, owner>>

ItemsDone ==
  /\ pc = "item" /\ json # << >> /\ item > Len(json)
  /\ pc' = "check"
  /\ UNCHANGED <<calcwitVars, json, item, i, buffer, outcome, file, owner>>

(* Mutant: main writes a witness whatever is still to be set.              *)
CheckRemainingSkipped ==
  /\ pc = "check"
  /\ pc' = "open"
  /\ UNCHANGED <<calcwitVars, json, item, i, buffer, outcome, file, owner>>

(* main: with inputs still to be set, no file is touched.                  *)
CheckRemaining ==
  /\ pc = "check"
  /\ \/ /\ inputSignalAssignedCounter # 0
        /\ Exit("aborted")
     \/ /\ inputSignalAssignedCounter = 0
        /\ pc' = "open"
        /\ UNCHANGED <<calcwitVars, json, item, i, buffer, outcome>>
  /\ UNCHANGED <<file, owner>>

-----------------------------------------------------------------------------
(* Mutant: the file is opened without being emptied ("r+b").               *)
OpenWitnessKeeps ==
  /\ pc = "open"
  /\ \/ /\ pc' = "write"
        /\ owner' = json
        /\ UNCHANGED <<calcwitVars, json, item, i, buffer, outcome, file>>
     \/ /\ Exit("killed")
        /\ UNCHANGED <<file, owner>>

(* writeBinWitness. fopen("wb") empties the file; if it fails, fwrite gets *)
(* NULL, which kills the process.                                          *)
OpenWitness ==
  /\ pc = "open"
  /\ \/ /\ pc' = "write"
        /\ file' = << >> /\ owner' = json
        /\ UNCHANGED <<calcwitVars, json, item, i, buffer, outcome>>
     \/ /\ Exit("killed")
        /\ UNCHANGED <<file, owner>>

WriteHeader ==
  /\ pc = "write" /\ buffer = << >>
  /\ buffer' = << Header >>
  /\ UNCHANGED <<calcwitVars, pc, json, item, i, outcome, file, owner>>

(* One element: getWitness and fwrite.                                     *)
WriteSignal ==
  /\ pc = "write" /\ Len(buffer) \in 1 .. WitnessSize
  /\ buffer' = Append(buffer, signalValues[witness2SignalList[Len(buffer) - 1]])
  /\ UNCHANGED <<calcwitVars, pc, json, item, i, outcome, file, owner>>

(* stdio writes its buffer when it sees fit, the disk may fill, and no     *)
(* result of fwrite or fclose is looked at: any beginning of what was      *)
(* written may have reached the file. (A disk that is full stays full for  *)
(* the rest of the run: no other process gives room back. TwoWriters has   *)
(* those that do.)                                                         *)
BeginningsOfBuffer == {SubSeq(buffer, 1, n) : n \in 0 .. Len(buffer)}

(* Mutant: the loop over the witness stops one element early.              *)
CloseWitnessEarly ==
  /\ pc = "write" /\ Len(buffer) = WitnessSize
  /\ file' \in BeginningsOfBuffer
  /\ Exit("written")
  /\ UNCHANGED owner

CloseWitness ==
  /\ pc = "write" /\ Len(buffer) = WitnessSize + 1
  /\ file' \in BeginningsOfBuffer
  /\ Exit("written")
  /\ UNCHANGED owner

Kill ==
  /\ pc # "shell"
  /\ file' \in IF pc = "write" THEN BeginningsOfBuffer ELSE {file}
  /\ Exit("killed")
  /\ UNCHANGED owner

Step ==
  \/ NoItems \/ TakeItem \/ SetValue \/ ItemDone \/ Abort \/ ItemsDone
  \/ CheckRemaining \/ OpenWitness \/ WriteHeader \/ WriteSignal \/ CloseWitness

MainNext ==
  \/ Usage \/ StartFails \/ (\E j \in Json : Start(j))
  \/ Step \/ Kill

MainSpec == MainInit /\ [][MainNext]_mainVars

(* A process that the operating system schedules keeps going.              *)
FairSpec == MainSpec /\ WF_mainVars(Step)

-----------------------------------------------------------------------------
(* What the program should do with an input, said without the table's      *)
(* probing, the counter and the order of the calls.                        *)

Matches(it, p) ==
  /\ InputHashMap[p].hash = fnv1a[it.key]
  /\ Len(it.vals) = InputHashMap[p].signalsize
  /\ ~HasBadNumber(it)

Covers(j, m, s) == \E p \in Slots : Matches(j[m], p) /\ s \in SignalsOf(p)

(* Every item names a signal and has its size, and every main input gets   *)
(* its value from exactly one item.                                        *)
Exact(j) ==
  /\ \A m \in DOMAIN j : \E p \in Slots : Matches(j[m], p)
  /\ \A s \in InputSignals :
       \E m \in DOMAIN j : Covers(j, m, s) /\ \A n \in DOMAIN j : Covers(j, n, s) => n = m

InputOf(j) ==
  [s \in InputSignals |->
     LET m == CHOOSE m \in DOMAIN j : Covers(j, m, s)
         p == CHOOSE p \in Slots : Matches(j[m], p) /\ s \in SignalsOf(p)
     IN  j[m].vals[s - InputHashMap[p].signalid + 1]]

SignalOf(j, s) ==
  CASE s = 0 -> One
    [] s \in InputSignals -> InputOf(j)[s]
    [] OTHER -> Circuit(InputOf(j), s)

WitnessOf(j) ==
  [k \in 1 .. WitnessSize + 1 |-> IF k = 1 THEN Header ELSE SignalOf(j, witness2SignalList[k - 2])]

-----------------------------------------------------------------------------
MainTypeOK ==
  /\ TypeOK
  /\ pc \in {"shell", "item", "set", "check", "open", "write"}
  /\ json \in Json \cup {<< >>}
  /\ item \in 1 .. Len(json) + 1
  /\ i \in Nat
  /\ buffer \in Seq(Value \cup {Unset, Header}) /\ Len(buffer) <= WitnessSize + 1
  /\ outcome \in Outcomes
  /\ file \in Seq(Value \cup {Unset, Header})
  /\ owner \in Json \cup {NoJson}

(* Over any number of runs, the file is emptied only for an exact input    *)
(* and filled once, with a beginning of that input's witness: no run that  *)
(* fails touches it, and no two runs mix in it.                            *)
Abstract == INSTANCE WitnessFile WITH Accepted <- Exact, Witness <- WitnessOf
FileImplementsWitnessFile == Abstract!Spec

(* A process that returns from main after writing has handed the whole     *)
(* witness of its own input to stdio: if the disk takes it, it is the file.*)
WrittenIsWhole ==
  [][outcome # "written" /\ outcome' = "written" =>
       owner = json /\ buffer = WitnessOf(json) /\ file' \in BeginningsOfBuffer]_mainVars

(* What a reader that compares the file's length with its header relies    *)
(* on, even when the disk may fill or the process be killed.               *)
WholeFileIsWitness == Len(file) = WitnessSize + 1 => file = WitnessOf(owner)

(* The circuit has run in every process that opens the file.               *)
OpensOnlyAfterRun == pc \in {"open", "write"} => runs = 1

(* Every process ends, and one with an exact input that nobody kills ends  *)
(* by writing its witness.                                                 *)
EveryRunEnds == pc # "shell" ~> pc = "shell"

ExactInputIsWritten ==
  pc = "item" /\ Exact(json) ~> pc = "shell" /\ outcome \in {"written", "killed"}
=============================================================================
