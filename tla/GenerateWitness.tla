-------------------------- MODULE GenerateWitness --------------------------
(***************************************************************************)
(* build/auth_js/generate_witness.js: a process that builds a calculator,  *)
(* computes the witness of its input twice (first to look at it, then in   *)
(* the format of the file), and writes the file. A session starts the      *)
(* script again and again on the same output file, and may kill it.        *)
(***************************************************************************)
EXTENDS JsCalculator

CONSTANTS
  Header,      (* everything calculateWTNSBin writes before the witness    *)
  NoJson

ASSUME ScriptAssumption ==
  /\ Calls = {"calculateWitness", "calculateWTNSBin"}
  /\ NoJson \notin Json

VARIABLES
  pc,          (* the statement the script is at; "shell" when none runs   *)
  input,       (* what it read from the JSON file                          *)
  outcome,     (* how the last process ended                               *)
  file,        (* the output file                                          *)
  owner        (* the input of the process that last emptied it (history)  *)

scriptVars == <<jsVars, pc, input, outcome, file, owner>>

ScriptInit ==
  /\ Init /\ oneAtATime
  /\ pc = "shell" /\ input = NoJson /\ outcome = "none"
  /\ file = << >> /\ owner = NoJson

(* A new process: the module is compiled and instantiated.                 *)
FreshInstance ==
  /\ signals' = [s \in Signals |-> IF s = 0 THEN One ELSE Blank]
  /\ asked' = [c \in Calls |-> NoAnswer]
  /\ resolved' = [c \in Calls |-> FALSE]
  /\ queue' = << >>
  /\ answer' = [c \in Calls |-> NoAnswer]
  /\ latest' = NoAnswer
  /\ UNCHANGED oneAtATime

Exit(how) == FreshInstance /\ pc' = "shell" /\ input' = NoJson /\ outcome' = how

Start(j) ==
  /\ pc = "shell"
  /\ FreshInstance
  /\ pc' = "first" /\ input' = j /\ outcome' = "none"
  /\ UNCHANGED <<file, owner>>

(* Wrong arguments, a file that cannot be read or parsed, or no module.    *)
StartFails ==
  /\ pc = "shell"
  /\ \E how \in {"usage", "thrown"} : Exit(how)
  /\ UNCHANGED <<file, owner>>

(* await calculateWitness(input, 0), then await calculateWTNSBin(input, 0) *)
Await(here, call, next) ==
  /\ pc = here
  /\ \/ /\ Call(call, input)
        /\ UNCHANGED pc
     \/ /\ Resume
        /\ pc' = next
  /\ UNCHANGED <<input, outcome, file, owner>>

First  == Await("first", "calculateWitness", "second")
Second == answer["calculateWitness"] # Thrown /\ Await("second", "calculateWTNSBin", "open")

(* An error that nobody catches ends the process.                          *)
Unhandled ==
  /\ pc # "shell"
  /\ \E c \in Calls : answer[c] = Thrown
  /\ Exit("thrown")
  /\ UNCHANGED <<file, owner>>

(* Mutant: the file is not emptied when it is opened.                      *)
OpenFileKeeps ==
  /\ pc = "open" /\ answer["calculateWTNSBin"] # Thrown
  /\ pc' = "write"
  /\ owner' = input
  /\ UNCHANGED <<jsVars, input, outcome, file>>

(* writeFile empties the file, writes it and closes it; its callback       *)
(* throws an error that any of this met.                                   *)
OpenFile ==
  /\ pc = "open" /\ answer["calculateWTNSBin"] # Thrown
  /\ pc' = "write"
  /\ file' = << >> /\ owner' = input
  /\ UNCHANGED <<jsVars, input, outcome>>

OpenFails ==
  /\ pc = "open" /\ answer["calculateWTNSBin"] # Thrown
  /\ Exit("file error")
  /\ UNCHANGED <<file, owner>>

buff       == << Header >> \o answer["calculateWTNSBin"]
Beginnings == {SubSeq(buff, 1, n) : n \in 0 .. Len(buff)}

(* Mutant: the callback ignores the error.                                 *)
WriteFileUnchecked ==
  /\ pc = "write"
  /\ file' \in Beginnings /\ Exit("written")
  /\ UNCHANGED owner

WriteFile ==
  /\ pc = "write"
  /\ \/ file' = buff /\ Exit("written")
     \/ file' \in Beginnings /\ Exit("file error")
  /\ UNCHANGED owner

Kill ==
  /\ pc # "shell"
  /\ file' \in IF pc = "write" THEN Beginnings ELSE {file}
  /\ Exit("killed")
  /\ UNCHANGED owner

Step == First \/ Second \/ Unhandled \/ OpenFile \/ OpenFails \/ WriteFile

ScriptNext == StartFails \/ (\E j \in Json : Start(j)) \/ Step \/ Kill

(* A process that the operating system schedules keeps going.              *)
ScriptSpec == ScriptInit /\ [][ScriptNext]_scriptVars /\ WF_scriptVars(Step)

-----------------------------------------------------------------------------
FileFor(j) == << Header >> \o WitnessFor(j)

(* The script keeps the same promise about its file as the C++ program.    *)
Abstract == INSTANCE WitnessFile WITH Witness <- FileFor, Accepted <- Accepted
FileImplementsWitnessFile == Abstract!Spec

(* The script reports success (no error, and an end of its own) only when  *)
(* the file holds the whole witness of the input it was given.             *)
WrittenIsWhole == outcome = "written" => file = FileFor(owner)

(* A run with an input that is accepted writes its witness, unless it is   *)
(* killed or meets a file error; its calculations never fail.              *)
AcceptedIsWritten ==
  pc = "first" /\ Accepted(input)
    ~> pc = "shell" /\ outcome \in {"written", "killed", "file error"}
=============================================================================
