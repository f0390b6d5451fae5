----------------------------- MODULE TwoWriters ------------------------------
(***************************************************************************)
(* Processes that are told to write the same output file.  writeBinWitness *)
(* (auth_cpp/main.cpp) and writeFile (build/auth_js/generate_witness.js)   *)
(* empty the file when they open it and then write from a position of      *)
(* their own; there is no lock and no temporary file.  A process that      *)
(* writes behind the end leaves a hole, as the file system has it.         *)
(*                                                                         *)
(* writeBinWitness looks at no result of fwrite and fclose.  When the disk *)
(* is full, stdio drops what it could not write and the loop goes on; if   *)
(* there is room again by then, for example because another process has    *)
(* emptied the file, what follows is written where the lost part belonged. *)
(* writeFile reports a failed write, and the script throws.                *)
(***************************************************************************)
EXTENDS Integers, Sequences

CONSTANTS
  Process,     (* processes that may run at the same time                  *)
  Script,      (* those that run generate_witness.js, and not the C++ one  *)
  Json,        (* their inputs                                             *)
  Witness,     (* [Json -> what is to be written, all of one length]       *)
  Hole,        (* what is read where nothing was written                   *)
  NoProcess

Words == UNION {{Witness[j][n] : n \in DOMAIN Witness[j]} : j \in Json}

ASSUME WritersAssumption ==
  /\ Script \subseteq Process
  /\ Json # {} /\ Witness \in [Json -> Seq(Words)]
  /\ \A j, k \in Json : Len(Witness[j]) = Len(Witness[k])
  /\ \A j \in Json : \A n \in DOMAIN Witness[j] : Witness[j][n] # Hole
  /\ NoProcess \notin Process

VARIABLES
  file,        (* the file                                                 *)
  status,      (* [Process -> ready, open, closed, killed]                 *)
  input,       (* [Process -> Json]                                        *)
  sent,        (* [Process -> how many elements have left its buffer]      *)
  pos,         (* [Process -> its position in the file: how many arrived]  *)
  last,        (* the process that opened the file last (history)          *)
  alone        (* no other had it open then or opened it since (history)   *)

vars == <<file, status, input, sent, pos, last, alone>>

Size == LET j == CHOOSE j \in Json : TRUE IN Len(Witness[j])

Init ==
  /\ file = << >>
  /\ status = [p \in Process |-> "ready"]
  /\ input \in [Process -> Json]
  /\ sent = [p \in Process |-> 0] /\ pos = [p \in Process |-> 0]
  /\ last = NoProcess /\ alone = TRUE

(* Mutant: the position is where the last process left it.                 *)
OpenKeepsPosition(p, j) ==
  /\ status[p] # "open"
  /\ status' = [status EXCEPT ![p] = "open"]
  /\ input' = [input EXCEPT ![p] = j]
  /\ file' = << >> /\ sent' = [sent EXCEPT ![p] = 0]
  /\ last' = p
  /\ alone' = (\A o \in Process \ {p} : status[o] # "open")
  /\ UNCHANGED pos

(* A new process with input j opens the file.                              *)
Open(p, j) ==
  /\ status[p] # "open"
  /\ status' = [status EXCEPT ![p] = "open"]
  /\ input' = [input EXCEPT ![p] = j]
  /\ file' = << >> /\ sent' = [sent EXCEPT ![p] = 0] /\ pos' = [pos EXCEPT ![p] = 0]
  /\ last' = p
  /\ alone' = (\A o \in Process \ {p} : status[o] # "open")

(* The next n elements that leave its buffer.                              *)
Chunk(p, n) == SubSeq(Witness[input[p]], sent[p] + 1, sent[p] + n)

WriteAt(f, at, words) ==
  [n \in 1 .. (IF at + Len(words) > Len(f) THEN at + Len(words) ELSE Len(f)) |->
     IF n > at /\ n <= at + Len(words) THEN words[n - at]
     ELSE IF n <= Len(f) THEN f[n] ELSE Hole]

Flush(p) ==
  /\ status[p] = "open"
  /\ \E n \in 1 .. Size - sent[p] :
       /\ file' = WriteAt(file, pos[p], Chunk(p, n))
       /\ sent' = [sent EXCEPT ![p] = @ + n] /\ pos' = [pos EXCEPT ![p] = @ + n]
  /\ UNCHANGED <<status, input, last, alone>>

(* Mutant: the callback of writeFile does not look at its error.           *)
LoseInScript(p) ==
  /\ status[p] = "open"
  /\ \E n \in 1 .. Size - sent[p] : sent' = [sent EXCEPT ![p] = @ + n]
  /\ UNCHANGED <<file, status, input, pos, last, alone>>

(* The disk is full: stdio drops elements, and nobody notices.             *)
Lose(p) ==
  /\ status[p] = "open" /\ p \notin Script
  /\ \E n \in 1 .. Size - sent[p] : sent' = [sent EXCEPT ![p] = @ + n]
  /\ UNCHANGED <<file, status, input, pos, last, alone>>

(* fclose, or the callback of writeFile without an error: the last element *)
(* has left the buffer.                                                    *)
Close(p) ==
  /\ status[p] = "open" /\ sent[p] = Size
  /\ status' = [status EXCEPT ![p] = "closed"]
  /\ UNCHANGED <<file, input, sent, pos, last, alone>>

(* What it has not written yet is lost.  This is also how the script ends  *)
(* when a write fails.                                                     *)
Kill(p) ==
  /\ status[p] = "open"
  /\ status' = [status EXCEPT ![p] = "killed"]
  /\ UNCHANGED <<file, input, sent, pos, last, alone>>

Next ==
  \E p \in Process :
    (\E j \in Json : Open(p, j)) \/ Flush(p) \/ Lose(p) \/ Close(p) \/ Kill(p)

Spec == Init /\ [][Next]_vars

-----------------------------------------------------------------------------
WritersTypeOK ==
  /\ file \in Seq(Words \cup {Hole}) /\ Len(file) <= Size
  /\ status \in [Process -> {"ready", "open", "closed", "killed"}]
  /\ input \in [Process -> Json]
  /\ sent \in [Process -> 0 .. Size]
  /\ pos \in [Process -> 0 .. Size] /\ \A p \in Process : pos[p] <= sent[p]
  /\ last \in Process \cup {NoProcess} /\ alone \in BOOLEAN

Lost(p) == sent[p] - pos[p]

(* All elements of p have reached the file.  A script that has closed it   *)
(* knows that they have; the C++ program ends in the same way if not.      *)
HasWritten(p) == pos[p] = Size \/ (p \in Script /\ status[p] = "closed")

(* Witnesses are only mixed by processes that overlap with inputs that     *)
(* differ, or by one that has lost something.  A file that one process had *)
(* to itself since it opened it is its witness if the length is right,     *)
(* even after unnoticed failures; one that several share is, once the last *)
(* to open it has written everything, if the others write the same and     *)
(* none has lost anything, even in the middle of that, or killed there.    *)
LastIsWhole ==
  last # NoProcess =>
    /\ alone /\ (Len(file) = Size \/ HasWritten(last)) => file = Witness[input[last]]
    /\ HasWritten(last) /\ (\A p \in Process : input[p] = input[last] /\ Lost(p) = 0) =>
         file = Witness[input[last]]

(* Whatever the inputs and however often a write fails, an element that is *)
(* not in its place has moved forward, by no more than its process has     *)
(* lost; and what the last to open the file has written stays without a    *)
(* hole, to the end if nothing was lost.  A reader can not tell by the     *)
(* length that two witnesses are mixed.                                    *)
ElementsInPlace ==
  /\ \A n \in DOMAIN file :
       file[n] = Hole \/ \E p \in Process : \E d \in 0 .. Lost(p) :
                           n + d <= Size /\ file[n] = Witness[input[p]][n + d]
  /\ last # NoProcess => pos[last] <= Len(file) /\ \A n \in 1 .. pos[last] : file[n] # Hole
  /\ last # NoProcess /\ HasWritten(last) => Len(file) = Size
=============================================================================
