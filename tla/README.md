# Verification of the auth zero-knowledge proof program

The repository proves in zero knowledge that a user knows the password and the
role behind stored Poseidon hashes. A *circuit* (circom) fixes the relation; a
*witness calculator* computes, from a JSON input, a value for every signal of
the circuit and writes the witness to a `.wtns` file; snarkjs turns the witness
into a Groth16 proof, and a Solidity contract verifies the proof. This
directory holds TLA+ models of the repository's own code, the TLC runs that
check them and the theorems about them that TLAPS checks.

## The system

| Component | State it keeps | Operations | Talks to |
|---|---|---|---|
| `Circom_CalcWit` (auth_cpp/calcwit.cpp, calcwit.hpp, circom.hpp) | signalValues, inputSignalAssigned, its counter, componentMemory | constructor, setInputSignal, getInputSignalSize, tryRunCircuit, getWitness | called by main; calls run |
| the auth program (auth_cpp/main.cpp) | the input, the position in it, the output file | main, loadCircuit, loadJson, writeBinWitness | Circom_CalcWit, the file system |
| generated circuit (auth_cpp/auth.cpp) | signalValues and componentMemory of the calculator | `X_create`, `X_run` of 72 templates, release_memory_component | Fr, Circom_CalcWit |
| field arithmetic (auth_cpp/fr.cpp, fr.hpp, fr.asm) | none; an element is short, long or Montgomery | add, sub, mul, inv, comparisons, toInt, str2element, ... | called by auth.cpp, main.cpp |
| JSON reader (main.cpp: qualify_input, check_type, json2FrElements) | none | flattens nested keys, converts values | called by loadJson |
| JavaScript calculator (build/auth_js/witness_calculator.js) | one WebAssembly instance, errStr, msgStr | calculateWitness, calculateBinWitness, calculateWTNSBin (asynchronous) | auth.wasm, the event loop |
| generate_witness.js | its input, the output file | two calculations, one after the other, and writeFile | the calculator, the file system |
| circuit source (circuits/auth.circom, libs/comparators.circom) | none | constraints and witness assignments | compiled to r1cs, wasm, C++ |
| verifier contract (contracts/Verifier.sol) | none | verifyProof | EVM precompiles 6, 7, 8 |
| scripts, build artefacts, vendored packages | - | - | - |

The C++ program in auth_cpp was generated from an *earlier* circuit Auth with
four inputs (storedHash, storedRole, role, password); circuits/auth.circom,
the WebAssembly in build/ and the contract (seven public signals) belong to a
later one with ten. The models say for each part which one they are of.

How a run goes: main loads `auth.dat` (hash table of the input names, list of
the witness signals, constants), builds a Circom_CalcWit, and loadJson hands
it the inputs one value at a time. setInputSignal counts down, and *the call
that assigns the last input runs the whole circuit*; main then checks that
nothing is left to be set and writes the witness.

What is hard in this code, and what makes each part correct:

- *Order of calls.* When the circuit runs is decided by a counter that every
  call moves. It must run exactly once, with all the inputs, and nothing that
  arrives later may change what it was computed from.
- *Probing.* Names are found by their 64-bit hash in a table with linear
  probing whose first slot is treated differently. Each input must be found
  wherever it was pushed, and a name of no input must be refused, in a bounded
  number of steps.
- *Many ways to refuse.* Exceptions, asserts and a final count at five places
  must together accept exactly the inputs that give each signal one value.
- *Partial failure.* fopen, fwrite and fclose are not checked, the process can
  be killed at any point, and the file is reused by the next run. The file
  must never hold a mixture of two runs or data of a refused input.
- *Generated schedule.* About 230 copies between 149 components, in unrolled
  loops with computed indices and offsets: a signal read too early, two ranges
  that overlap, or a counter that does not fit the feeds would go unnoticed,
  since `signalValues` is uninitialized memory.
- *A shared instance under `await`* (JavaScript). A call runs the circuit at
  once but reads the witness when the event loop resumes it; other calls may
  have used the instance, or failed in the middle of it, since.
- *Forms of an element.* Fr stores a number as a short or a long, each plain
  or in Montgomery form, and has a path for every pair of forms; operations
  write the type of their result before they have read both operands.
- *Two readers of one document.* main.cpp and witness_calculator.js flatten and
  convert the same input.json by different rules; a user may take one for the
  other.
- *A file taken apart by sizes that are compiled in.* loadCircuit copies
  auth.dat and follows lengths that stand in it, without looking at its size.
- *Wrap-around in the field* (circuit): requiredMinAge - 1, differences of
  ages, products of comparisons; and constraints that might leave a prover a
  choice.
- *Calls that fail* and scratch memory shared between calls (contract).
- *Several processes on one output file*, which nothing in the code orders.

## Modules

| Module | Of | Content |
|---|---|---|
| `CalcWit` | calcwit.cpp | the calculator under any client |
| `AuthMain` | main.cpp, extends `CalcWit` | sessions of runs of the program on one output file |
| `WitnessFile` | - | abstract specification: what the output file promises |
| `TwoWriters` | main.cpp, generate_witness.js | any number of processes writing one file at once |
| `LoadCircuit` | main.cpp | loadCircuit on whole, cut and arbitrary files |
| `AuthRun` | auth.cpp | run(ctx): the tree of components, call by call |
| `FieldElements`, `FieldBits`, `FieldCalls` | fr.asm, fr.cpp | the forms of an element, the operations on them, a program that calls them |
| `JsonValues`, `JsonReader`, `JsInput` | main.cpp, witness_calculator.js | the readers of the two programs, step by step |
| `InputReaders` | instantiates both readers | one document through both |
| `JsCalculator` | witness_calculator.js, auth.wasm | asynchronous calls on one instance |
| `WitnessService` | - | abstract specification: each call answers for its own input |
| `GenerateWitness` | generate_witness.js, extends `JsCalculator` | sessions of runs of the script on one output file |
| `AuthCircuit` | auth.circom and the circomlib templates it uses | what the constraints leave possible, beside what the calculators compute |
| `Groth16Verifier` | Verifier.sol | verifyProof, call by call |
| `CommonLemmas` | - | lemmas on induction over sets, recursive functions, division, primes and sequences of sequences |
| `AuthMainProofs`, `AuthRunProofs`, `FilesProofs`, `Groth16VerifierProofs`, `AuthCircuitProofs`, `FieldCallsProofs`, `GenerateWitnessProofs` | the modules of their names (the first also `CalcWit`, the last also `JsCalculator`; the third `TwoWriters` and `LoadCircuit`) | theorems |
| `MC...` | - | values of the constants for TLC |

### CalcWit

State: `signalValues` (an element, or `Unset` for what `new FrElement[]`
leaves), `inputSignalAssigned`, `inputSignalAssignedCounter`; `runs` counts the
runs of the circuit (history) and `aborted` says that an assert failed. The
one action, `setInputSignal(h, i, val)`, is the whole method: its asserts in
their order (`Refused`), the two assignments, and `tryRunCircuit`.
`getInputSignalHashPosition` is the probe loop, said as "the first probe that
stops, if it stops at the hash". The circuit is an arbitrary function
`Circuit(inputs, signal)`. What the compiler puts in `auth.dat` is
`TableAssumption`: the entries are the main inputs, each in exactly one entry
that no empty slot separates from its home slot; TLC evaluates it on every
table it is given, and the table of the repository's `auth.dat` satisfies it
(four inputs, each in its home slot).

### AuthMain and WitnessFile

`pc` follows one process from `Start` to the shell. `Start` is
loadCircuit, the constructor and the flattening of the JSON input; `NoItems`,
`TakeItem`, `SetValue`, `ItemDone`, `Abort` and `ItemsDone` are loadJson (the
conversion of an item's values comes before the lookup of its name and the
comparison of the sizes, as in the code); `CheckRemaining` is main's check;
`OpenWitness`, `WriteHeader`, `WriteSignal` and `CloseWitness` are
writeBinWitness. `buffer` is what was handed to fwrite; stdio may have written
any beginning of it when the process is killed, and, as the disk may fill and no
result is looked at, also at fclose. That it is a beginning assumes that a disk
which has refused a write refuses the later ones of the same run: nothing else
runs that could give room back. (`TwoWriters` does not assume it.) `Usage` and `StartFails` are the early
ends. `Exit` drops everything the process had in memory; only `file` (and the history variable `owner`, the
input of the process that opened it last) survives.

`Exact(j)` says, without probing, counter or order, which inputs ought to be
accepted, and `WitnessOf(j)` what the file must then contain. `WitnessFile`
has two steps over the file alone: *claim* it (empty it) for an accepted input
and *fill* it once with a beginning of that input's witness. `AuthMain`
implements it with `Accepted <- Exact` and `Witness <- WitnessOf`.

### AuthRun

`componentMemory` and `signalValues` have the addresses of the program:
`Subs` gives each subcomponent's offset in both (the create calls), `Body` the
feeds of a run function in the order of its unrolled loops, for any number of
partial rounds `RP`. `stack` holds the active run functions. `Create` is the
block of create calls, `FeedNext` one feed: copy, count down, and run the
subcomponent if the counter is 0 (a template without subcomponents runs at
once, the others get a stack entry), with the asserts of Auth's
"need to run" and "no need to run" feeds. `Return` writes the output and
releases the subcomponents. Reading an unset signal, or using or releasing a
released component, sets `failed`. The program finds the inputs and outputs of
Ark, Mix and MixS in the io map (`templateInsId2IOSignalInfo`) and their run
functions in `_functionTable`, both by the component's templateId; `In`,
`Counter` and the feeds have the places that result. This assumes the io map of
the repository's auth.dat: its 66 entries, of exactly the 8 Ark, 2 Mix and 56
MixS templates, all have two definitions of size 1, the outputs at 0 and the
inputs at 2 (read out of the file for this purpose; that the program loads what
the file holds is `LoadedIsInFile`). The field is the integers modulo a small
prime and Poseidon's constants are arbitrary; the inputs of a feed count down
an unsigned counter, of which only whether it is 0 matters here, so the model
has -1 where the program has 2^32 - 1.

### JsCalculator, WitnessService and GenerateWitness

State: `signals` is the memory of the instance; `asked` and `answer` are the
calls; `resolved` tells a call whose _doCalculateWitness returned from one
where it threw; `queue` is the event loop. `Call` is a method up to its await.
As _doCalculateWitness never waits itself, all of it is in that step, a
recursive function over the keys of the input (`setItems`) and, in each, over
its values (`setItem`, `setValue`, `setInputSignal`), with a record that says
what it left in the instance and whether it threw. Its promise is then settled, so the continuation is queued
at once; `Resume` runs the continuation that waits longest, which throws or
reads the whole witness in one go. A client may call at any time, also between
two continuations, unless `oneAtATime`, which is chosen at the start, says that it
awaits each call.

What the instance does was read in the binary: `init` sets the counter to the
number of inputs, clears the flags of the inputs and frees the components, but
leaves the signals as they are; `setInputSignal` refuses when the counter is
0, copies the value, counts down and runs the circuit at 0; it tests the flag
"already set", but no code sets that flag, which no input can show, since the
keys of an object are distinct and each index is set once (two keys with the
same 64-bit hash are excluded by `InstanceAssumption`). A run stops at the
first assert of the circuit that fails and leaves the signals computed before
(`Evaluated`); for this circuit that is Num2Bits of an age that is too large.

`GenerateWitness` uses `Call` and `Resume` for its two calls, on a fresh
instance per process. Errors nobody catches end the process (`Unhandled`), as
do file errors. It implements the same `WitnessFile` as `AuthMain`, with
`Accepted` and `FileFor`.

### TwoWriters

A process opens (and thereby empties) the file, writes it in pieces from a
position of its own, closes it or is killed; the others do the same in
between. A write behind the end leaves a hole. `sent` counts what has left the
buffer of a process and `pos` what has arrived. They differ when a write has
failed: writeBinWitness looks at no result, stdio drops what it could not
write, and the loop goes on to fclose (`Lose`, `Close`). What is handed over
later is written at the position reached if there is room by then, and another
process that empties the file makes room. writeFile reports the failure and the
script throws, which is a `Kill`; so processes in `Script` lose nothing
unnoticed. An element is any unit: the theorems hold for bytes too, so that a
write may fail inside a number.
`last` and `alone` are history.

### LoadCircuit

The file is a sequence of words with up to three bytes after it. The four
sections are copied by compiled-in sizes; a copy beyond the last page kills
the process, and within it yields zeros. (Another mapping might follow the
page; then the copy of the rest to `dataiomap`, with a negative size, is what
kills the process, and still nothing is loaded.) `ReadEntry`, `ReadDef` and `EndEntry`
take the io map (and the buses) apart from the stack array `dataiomap`; what
lies behind it is undefined, and the model says "undefined" where the code
would read it. A circuit (`Circuits`) is four sections and the definitions of
its entries; `Written` puts it down as circom does, `WholeFiles` are the files
so written and `Layout` is what was loaded, put down again, so that the
properties do not depend on the code that reads. The layout was compared with the repository's auth.dat, whose
io map has 66 entries of 594 words in all, and no buses: that a bus fits its
room is an assumption about other circuits, and says nothing of this one.

### FieldElements, FieldBits and FieldCalls

An element has one of four forms. `FieldElements` has each arithmetic
operation and comparison as its paths over the pairs of forms, `FieldBits` the
bitwise ones and the shifts, `FieldCalls` the operations of fr.cpp that go
through GMP, and a program that applies any operation to the two cells it has
and puts the result into one of them, so that operands take every form that
computations reach. `over` says which operand shares its cell with the result;
`Seen` is what is read there after the type was written. Longs are integers
and not words with carries, of `Words` words of `WordBits` bits (4 of 64 in the
program, whose q, 254 bits and shorts of 31 bits and a sign satisfy
`FieldAssumption`). The model was compared with the assembler's output
for the operations on random operands in all forms.

### JsonReader, JsInput and InputReaders

Both readers are steps on a stack of values still to be qualified. A name is a
sequence of tokens, so that names can collide as their concatenations do. A
number is twice its value (for halves), with a significand of `Precision`
bits; a string belongs to a class that check_valid_number or BigInt tells
apart. The order of keys is that of std::map in C++ and of the text in
JavaScript.

### AuthCircuit

Each step binds the output of one component (RoleEquality, LessThan) to any
value that its constraints allow; the operators ending in `Hint` are what the
calculators assign with `<--`. `RefuseAge` is the assertion that fails when the
hints do not satisfy the constraints.

### Groth16Verifier

`mem` is the memory verifyProof uses, word by word: the sum at `pVk`, the
twelve pairs at `pPairing`, the scratch words behind them. `Multiply`, `Add`
and `Pairing` are the precompiled calls, any of which may fail (`CallFails`,
and the second case of `Pairing`). The groups are the integers modulo R, in
which a pairing is a product.

### Composition

`CalcWit!run` is one atomic step in `CalcWit` and `AuthMain`; `AuthRun` opens
that step. It is justified because nothing interleaves with it, it always
returns (`Returns`), and it gives every signal a value that depends on the
inputs alone (`LeavesNothingOut`, `ComputesAuth`), which is what
`ValuesAssumption` says of `Circuit`. `AuthRun` in turn computes with integers
modulo q, which is what `ResultIsRight` says of the calls to Fr. `Json` in
`AuthMain` and `JsCalculator` is what the readers produce, a bad value being
one they refuse (`InputReaders`). The tables of `CalcWit` are those that
`LoadCircuit` loads (`LoadedIsInFile`). Runs of the program one after the other
are `AuthMain`, at the same time `TwoWriters`.

## Runs

| Run | Bounds | Shows |
|---|---|---|
| calcwit | 3 inputs (one scalar, one array of 2), 4 slots, hashes that match, collide, miss or are 0, index 0..3, 3 values | TypeOK, RunsOnceWhenComplete, WitnessMatchesInputs, SignalsWrittenOnce |
| auth_main | the same table with an entry behind another; every input over keys a, b, c (unknown) and d (same hash as a), with too few, too many, unconvertible and missing values; kills anywhere; fopen may fail; the disk may fill unnoticed | MainTypeOK, WholeFileIsWitness, WrittenIsWhole, FileImplementsWitnessFile, EveryRunEnds, ExactInputIsWritten |
| auth_run | RP = 56 as in the program: 149 components, 592 signals; field of 103 elements (x^5 is a permutation, as in the program's field); 6 passwords, 3 stored hashes and 2 roles each | NeverFails, RunsWhenFed, LeavesNothingOut, ComputesAuth, WrittenOnce, Returns |
| js_overlap | 3 calls, one at a time or overlapping; inputs of one to three keys, in two orders: accepted, with a bad value, a missing input, an unknown key, or refused by an assert of the circuit | ThrowsExactlyRefused, ImplementsWitnessService, ReturnsWitnessOfLatest, EveryCallSettles |
| js_unknown_name | one call, every input over the keys | UnknownNameIsRefused is violated (see Findings) |
| generate_witness | accepted and refused inputs over two keys; kills and file errors anywhere | WrittenIsWhole, FileImplementsWitnessFile, AcceptedIsWritten |
| field_calls | q = 37, two words of 4 bits (R = 256), shorts of -4..3, 6 bits; every operation on every pair of elements, in every form that one or more operations reach | ResultIsRight, InPlaceIsRight, AnswersAreRight |
| input_readers | field of 13 elements, significands of 3 bits; documents with every kind of leaf alone and in pairs in an array, nested objects and arrays of up to three levels, names that meet, in every order | SameSignals, LastOneWins, LeavesArrive, OnlyOneRefuses |
| load_circuit | an entry of 2 words, 2 signals, a constant, 2 io map entries, a bus; every file of that shape, whole, cut by 1 to 20 words, inside a word, or with something behind it; arbitrary words in place of the io map | LoadedIsInFile, WholeFileLoads, CutFileDoesNotLoad |
| two_writers | 3 processes, one of them the script, each opening any number of times, 2 inputs, 3 elements; writes fail unnoticed anywhere in the other two | LastIsWhole, ElementsInPlace |
| auth_circuit | field of 23 elements, 2-bit ages; all pairs of ages; all combinations of roles, matching and other hashes, specialties | OneWitness, RefusesOnlyTheUnprovable, OutputsMean |
| groth16_verifier | groups of 5 elements, 2 public signals of 0..5; every pair of points, words that are no point, a y above q; any call may fail | AcceptsExactlyProofs, FailureIsFalse |

Why the bounds are enough. The calculator treats signals alike: an array of
two and a scalar cover "first, middle and last input", and four slots hold a
home slot, a pushed entry, an empty slot and a wrap-around. Runs of the program
only share the output file, whose content and owner are part of the state, so
that a session of any length is covered. The schedule of `AuthRun` does not
depend on the values, so that few inputs check all of it; the others check the
function.
Calls on a shared instance influence each other only through its signals and
the order of the queue: a call that is overlapped by an accepted or a refused
one, and a third behind it, cover the cases, and what one call can leave for
the next is covered by every input before every input.
An operation of Fr decides by the forms, the signs, whether a short overflows
and whether a long reaches q or falls below 0: with shorts of three bits beside
a modulus of six, every combination occurs. The readers decide by the kind of a
value, of its neighbour in the same array and of the value around it. In
verifyProof all public signals are alike, but the first and the last.

`CHECK_DEADLOCK FALSE`: after an assert (CalcWit), when run has returned
(AuthRun), when all calls are answered (JsCalculator), when a document is read
(InputReaders), a file is loaded (LoadCircuit), all is bound (AuthCircuit) or
verifyProof returned, the program has stopped. The sessions of AuthMain never stop; the
configurations only say the same for uniformity.

ComputesAuth is weaker than it looks at first sight, and deliberately so:
the generated IsEqual computes 1 - (a-b)^2, which is 1 exactly for equal
inputs but not 0 for others, so that the product of two comparisons is 1 for a
match, not 1 for one mismatch, and can be anything for two.

ReturnsWitnessOfLatest is what the calculator really promises to clients that
overlap calls: the witness of the call that used the instance last, which is
its own only if it made no other since. When the last call was refused, the
instance holds a mixture, and nothing is promised. No document of the
repository says that calls may overlap, and generate_witness.js never does.

The two readers agree on everything both accept, except for names that two
members of a document lead to (`LastOneWins`: the last in the order of names
in C++, in the order of the text in JavaScript). `OnlyOneRefuses` lists what
only one of them takes: JavaScript refuses fractions, which C++ rounds, and
"0x" alone, which C++ takes for 0; C++ refuses negative and padded strings,
booleans, and arrays of numbers of both signs or with an empty array inside.

In place, an operation of Fr is wrong for some mixtures of forms: Fr_add,
Fr_sub and the bitwise operations write the result's type first and then
convert an operand that is the same cell as what it no longer is.
`InPlaceIsRight` says for which operands the result is right. auth.cpp gives
every call a result of its own.

`AnswersAreRight` says of Fr_toInt only what a loop counter needs. For a long
element that stands for no short it should fail (Fr_longErr), but Fr_longNeg
(fr.asm:323) requires that every subtraction of a word of q borrows and not
that the higher differences are all ones: some elements far from q are
answered with the difference of their lowest word. No index of auth.cpp is
such an element. Nor is anything lost by the missing return after a small
product in Fr_mul and Fr_square (fr.asm:2393, 2313): the product is stored
again as a long of the same value.

The outputs of the circuit are independent of each other: canRequestExpert and
isAdultPatient do not depend on isAuthenticated (`OutputsMean` says what each
one means), so that a verifier has to look at all of those it relies on. What they mean is
relative to the inputs, and all inputs except requiredSpecialty and
requiredMinAge are private (auth.circom:103): the prover chooses the "stored"
hashes too, so that isAuthenticated alone says that the prover knows a role and
a password for *some* hashes, and nothing in the circuit binds them to a user's.
isAdultPatient is right also for requiredMinAge = 0, where requiredMinAge - 1
is q - 1. An age is refused only when the difference does not fit 33 bits.

LastIsWhole is all that two writers are promised: with different inputs that
overlap, a file of the right length may mix two witnesses, each element in its
place as long as no write has failed (`ElementsInPlace`), so that its length
does not show it. With the file to itself, a C++ process that lost something
leaves a file that is too short, which is the only sign of it: the process
closes and ends as if all were well. When several share the file, not even that
is left: with the same input in all of them, one that lost an element moves the
later ones forward, over what the others have written.

## Findings

js_unknown_name: witness_calculator.js:147 refuses a key when
getInputSignalSize is less than 0 ("Signal ... not found"). The instance
answers 0 for a name that it does not know, so that check never fires; a key
that names no signal is accepted when its value is an empty array, and refused
with the wrong message ("Too many values") otherwise. The C++ program aborts
in both cases (calcwit.cpp:68).

## Fairness

`AuthMain!FairSpec` has WF on `Step`: a process that the operating system
schedules keeps executing. The lookup of a name is one expression of such a
step; that its loop ends is therefore in the definition (a probe for each slot
at most, as the code comes back to its first slot), and EveryRunEnds shows what
follows: that what it answers lets every run end. No fairness is put on starting a process, and none
on `Kill`. `GenerateWitness!ScriptSpec` is the same for the script.
`JsCalculator!Spec` has WF on `Resume`: the event loop runs what is queued; no
call ever has to be made. `AuthRun!Spec` has WF on its next-state relation: run
is sequential code that nothing blocks. The other modules state safety only.

## Theorems

Checked by TLAPS for every value of the constants that satisfies the named
assumptions:

| Module | Assumptions | Theorems |
|---|---|---|
| `AuthMainProofs`, of CalcWit | `SizesAssumption`, `TableAssumption`, `ValuesAssumption` | `TypeCorrect`, `RunsOnce` (CounterCountsUnassigned, RunsOnceWhenComplete), `WitnessIsOfInputs`, `WrittenOnce` (SignalsWrittenOnce) |
| `AuthMainProofs`, of AuthMain | these and `MainAssumption` | `MainTypes`, `OpensAfterRun` (no process opens the file before the circuit has run), `WholeFile`, `WrittenWhole`, `MainImplementsWitnessFile` |
| `AuthRunProofs` | `FieldAssumption`: q a prime; `PoseidonAssumption`: the constants are elements, RP any number | `ClockDetermines`, `RunNeverFails` (NeverFails), `ComponentsRunWhenFed` (RunsWhenFed), `SignalsAreWrittenOnce` (WrittenOnce), `RunLeavesNothingOut` (LeavesNothingOut), `RunComputesAuth` (ComputesAuth) |
| `FilesProofs`, of TwoWriters | `WritersAssumption` | `InPlace` (ElementsInPlace), `LastWhole` (LastIsWhole) |
| `FilesProofs`, of LoadCircuit | `LoadAssumption`; `CircuitsAssumption`: a circuit has the compiled-in sizes, and its buses fit their room | `LoadTypesHold`, `LoadTakesTheFile` (LoadedIsInFile), `WholeFilesLoad` (WholeFileLoads), `CutFilesDoNotLoad` (CutFileDoesNotLoad) |
| `GenerateWitnessProofs` | `InstanceAssumption`, `InputsAssumption`, `CircuitAssumption`, `AnswersAssumption`, `ScriptAssumption` | `JsTypes`, `Throws` (ThrowsExactlyRefused), `ReturnsLatest` (ReturnsWitnessOfLatest), `CalculatorImplementsService`, `ScriptWritesWhole`, `ScriptImplementsWitnessFile` |
| `AuthCircuitProofs` | `CircuitAssumption`: Q a prime above 2^(N+2) | `Determined` (OneWitness), `Refused` (RefusesOnlyTheUnprovable), `Meant` (OutputsMean) |
| `FieldCallsProofs` | `FieldAssumption`: Q an odd prime, and how its size lies to those of words and shorts | `ResultsRight` (ResultIsRight), `InPlaceRight` (InPlaceIsRight), `AnswersRight` (AnswersAreRight) |
| `Groth16VerifierProofs` | `VerifierAssumption` | `Summed` (SumSoFar), `Failure` (FailureIsFalse), `Accepts` (AcceptsExactlyProofs) |

*The calculator.* The invariant `IInv` is the type invariant,
"the counter is the number of unassigned inputs", "the circuit has run iff
that number is 0" and "then the computed signals are those of the inputs".
None is inductive alone: that the circuit runs once needs that a call after it
is refused, which needs the counter; that the counter is right needs that a
refused call moves nothing and that an accepted one assigns an input that was
unassigned, hence that a found slot is an entry whose signals are inputs
(`LookupReturnsMatch`, `AcceptedIndex`).

*The program.* `MainInv` adds what the loops of loadJson have
done so far, namely that the items before the current one match an entry and
that exactly the signals they cover are assigned, with their values. When the
loop is over and the counter is 0, every input is covered by exactly one item,
so that the input is `Exact` and the signals are those of `WitnessOf`; the
buffer is then a beginning of the witness. The refinement's steps follow:
`OpenWitness` claims, `CloseWitness` and `Kill` fill, all others stutter.

*The generated functions.* Nothing interleaves with run, so that the number of
steps it has made, the clock, determines all but the values: the stack
(`StackAt`), the components that exist and what they wait for (`MemoryAt`), and
which signals are set. That this is so (`RunInv`) is one case for each range of
the clock, for any RP; the addresses are arithmetic in RP. The five safety
properties need only to be looked up in it, ComputesAuth besides the values:
each wire is the copy of its source and what a component that has run leaves is
the function of its inputs (both are in the invariant and stay true, as no
signal is written twice), so that at the end each full and each partial round
has computed its step of Poseidon (`FullRoundComputes`, `PartialRoundComputes`,
`LastRoundComputes`), and the recursive definition of Poseidon has one solution
(`PoseidonIs`). That IsEqual is 1 only for equal inputs needs that q is prime:
1 - (a-b)^2 is 1 only if (a-b)^2 is 0.

*Processes on one file.* An opening empties the file, so that it never holds
an element of an input no process has now, and every element there was moved
by what its process had lost when it wrote it, which never becomes less
(`OfSomeInput`). What the last to open it has written stays written, by it or
over it: there is no hole before its position (`LastCovers`). Every process has
sent everything when it closes, and a script's position is where it has sent to
(`ClosedAtEnd`). With the file to itself, all that is in it is its own
(`AloneWrites`). LastIsWhole and ElementsInPlace follow from the four, as the
position is at the end only if nothing was lost (`AllWritten`).

*The data file.* `LoadInv` relates the state to the file and to each circuit
the file might hold. To the file: the sections, and then what has been taken
of the entries (`Parsed`: those that are done, the count of the current one and
its definitions so far), written down again, are the words before the pointer
(`SectionsStand`, `EntriesStand`); each read adds the same words to both sides
(`StandsMore`). To a circuit: if no word of the file differs from what would be
written of the circuit (`Agrees`, which files that begin with a whole one and
files that were cut have in common), then the pointer is where that circuit's
next entry or definition begins (`Follows`, with the places from `EntryOffset`
and `DefOffset`). A whole file then always has the next word; and a cut one
ends before the pointer could reach the end of what was written, while the
checks before each read keep the pointer in the file. That the index names no
template twice is needed only for what an entry may replace, hence in
`LoadedIsInFile` and not in the other two.

*The JavaScript calculator.* `Fed` is the claim about the loops of
_doCalculateWitness: once the inputs of a set A are given, the counter is the
number of those that are missing, the signals of A have their values, and the
circuit has run if none is missing; and whenever something was thrown, the input
is not accepted. It is carried by induction over the keys and, in each, over
its values; from it, the call succeeds exactly for `Accepted` inputs, and leaves
`SignalsFor` them whatever the signals were. `JsInv` ties the queue to the calls
(`Waiting`), the instance to the call made last (`LastCall`) and each answer to
its call (`Right`); `ScriptInv` adds what the script has asked and got at each
of its statements (`AtStatement`). The two refinements follow step by step.

*The circuit.* Arithmetic modulo a prime: IsZero determines its output because
a product is 0 only if a factor is (`PrimeProduct`), and its hint exists because
every other residue has an inverse (`PrimeInverse`, from the least positive
multiple). Num2Bits determines its bits because a number below 2^(N+1) has one
expansion and nothing wraps around, hence the size of the prime; the same size
makes LessThan compare numbers. `CircuitInv` says that the components are bound
in their order (`InOrder`) to values that satisfy the constraints (`Satisfied`),
and that it ends with the outputs or with an age whose bits do not add up
(`Ended`).

*The field.* `FieldInv`: both operands are well formed, that is, their parts
are in range and the image beside a short is that of the short. Congruence
modulo Q (`Cong`) carries the rest: R has an inverse modulo Q, so that what a
Montgomery multiplication leaves is determined by being, times R, the product
(`MMul`), and each conversion keeps the number of an element. Then one lemma
for each operation goes through its paths (`Adds`, `Subtracts`, `Multiplies`,
`Squares`, `Orders`, `Equal`, `BitOpIs`, `ShiftsLeft`, `Divides`, ...), and
`ResultsAreRight` puts them together. Bits are defined bit by bit, so that
`LowBitsExist` and `BitsBelow` bound them; that Fr_toInt recognises a negative
short by a borrow from every word is `Borrows`. The operands stay well formed
because only results with a cell of their own are kept.

*The contract.* `VerifierInv`: between the calls, the sum at pVk is that of the
signals so far (`SumSoFar`); before an addition, the words it reads hold the
product of the signal in work and a copy of that sum (`AddendsInv`); the signals
already looked at are in the field and nothing has failed before the answer
(`ControlInv`). Each call's scratch words overlap others', so that every step
says which words it leaves alone.

*Induction.* None of the provers can instantiate an induction theorem over a
predicate. The library's `WFMin` (a set that is not empty has a least element)
is about sets, and gives induction over the set of numbers that satisfy the
claim: `SetInduction`, `IntervalInduction` and, for the existence of a function
defined by recursion on numbers, `RecursionExists`. Powers are recursive
functions (`Pow2`), as `^` means nothing to the provers.

Only model-checked: all liveness (EveryRunEnds, ExactInputIsWritten,
EveryCallSettles, AcceptedIsWritten, Returns; fairness is out of the prover's
reach), and what InputReaders claims. JsonValues and what is
built on it (JsonReader, JsInput, InputReaders) declare RECURSIVE operators over
documents, which rules out proofs. UnknownNameIsRefused is violated. The type
invariants and strengthenings that no run lists (JsTypeOK, RunTypeOK,
VerifierTypeOK and SumSoFar, WritersTypeOK, LoadTypeOK, CircuitTypeOK,
CounterCountsUnassigned) are there for proofs.

## Not modelled, and why

- Most lines of auth.cpp: it has 217,000 generated lines, of which about
  147,000 are the tables of Poseidon's constants and most others repeat one
  template for each round (58 copies of MixS alone). `AuthRun` models each
  template once, for any round, with the tables as constants; its map names one
  copy of each.
- RawFr (fr.cpp, fr.hpp) and Fr_rawSwap: library code nothing in the program
  uses. (Read on the way: RawFr::toRprBE does not write leading zero words.)
- The carries between the words of a long, in Fr's assembler.
- fnv1a and the texts of numbers: any hash with collisions, classes of strings.
- The text of messages, errStr, getTrace, generate_position_array: formatting.
- A circuit without inputs: with an input of no items the code runs the
  circuit (`NoItems`), with any other it would never; `SizesAssumption` takes
  at least one input, which this program has.
- The body of the WebAssembly circuit, which has no source here: an arbitrary
  function with the exports that its code shows.
- Parallel components, which auth.cpp does not have, and the lookups in the io
  map and in `_functionTable`, which `AuthRun` has only by their results.
- The number of bytes of an element and of the header: `Header` is one block.
- Poseidon's strength, the soundness of Groth16 and the curve: cryptography.
- Build artefacts, deployment script and configuration, vendored packages.

## Plan

The components are modelled as far as the notes above say, and what the runs
check of the safety of each is proved, except for the two readers of documents.
What would be left to do:

- *InputReaders*: its readers on documents as functions on paths instead of
  RECURSIVE operators, so that SameSignals and LeavesArrive could be proved by
  induction over the depth of a document.
