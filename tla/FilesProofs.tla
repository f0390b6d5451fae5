---------------------------- MODULE FilesProofs -----------------------------
(***************************************************************************)
(* The two files of the C++ program.  What TwoWriters promises of the      *)
(* witness for any number of processes, any inputs and any length, and     *)
(* what LoadCircuit promises of the circuit's data for any sizes, any file *)
(* and any circuits.                                                       *)
(***************************************************************************)
EXTENDS TwoWriters, LoadCircuit, CommonLemmas

(* Every change of an input empties the file, so that it never holds an    *)
(* element of a witness that none of the processes has now.                *)
OfSomeInput ==
  \A n \in DOMAIN file :
    file[n] = Hole \/ \E p \in Process : \E d \in 0 .. Lost(p) :
                        n + d <= Size /\ file[n] = Witness[input[p]][n + d]

(* What the last process to open the file has written is not taken back.   *)
LastCovers ==
  last # NoProcess => /\ status[last] # "ready"
                      /\ pos[last] <= Len(file)
                      /\ \A n \in 1 .. pos[last] : file[n] # Hole

ClosedAtEnd ==
  /\ \A p \in Process : status[p] = "closed" => sent[p] = Size
  /\ \A p \in Script : pos[p] = sent[p]

(* With the file to itself, a process has written all that is in it.       *)
AloneWrites ==
  alone => /\ \A p \in Process : p # last => status[p] # "open"
           /\ last # NoProcess =>
                /\ Len(file) = pos[last]
                /\ Lost(last) = 0 =>
                     \A n \in 1 .. pos[last] : file[n] = Witness[input[last]][n]

WritersInv == WritersTypeOK /\ OfSomeInput /\ LastCovers /\ ClosedAtEnd /\ AloneWrites

-----------------------------------------------------------------------------
LEMMA WitnessShape ==
  /\ Size \in Nat
  /\ \A j \in Json : /\ Witness[j] \in Seq(Words) /\ Len(Witness[j]) = Size
                     /\ DOMAIN Witness[j] = 1 .. Size
                     /\ \A n \in 1 .. Size : Witness[j][n] \in Words /\ Witness[j][n] # Hole
<1>1. \A j \in Json : Witness[j] \in Seq(Words)
  BY WritersAssumption
<1>2. PICK k \in Json : Size = Len(Witness[k])
  BY WritersAssumption DEF Size
<1>3. Size \in Nat
  BY <1>1, <1>2
<1>4. \A j \in Json : Len(Witness[j]) = Size /\ DOMAIN Witness[j] = 1 .. Size
  BY <1>1, <1>2, WritersAssumption
<1>5. \A j \in Json : \A n \in 1 .. Size : Witness[j][n] \in Words
  BY <1>4 DEF Words
<1> QED
  BY <1>1, <1>3, <1>4, <1>5, WritersAssumption

(* A write of the next n elements of a witness at its own position: the    *)
(* file reaches at least to their end, has these elements there, forward   *)
(* by as many as were lost before them, and what it had elsewhere; only    *)
(* behind the old end may there be holes.                                  *)
LEMMA WriteInPlace ==
  ASSUME WritersTypeOK, NEW p \in Process, NEW n \in 1 .. Size - sent[p]
  PROVE  LET f   == WriteAt(file, pos[p], Chunk(p, n))
             end == pos[p] + n
         IN  /\ f \in Seq(Words \cup {Hole})
             /\ Len(f) = IF end > Len(file) THEN end ELSE Len(file)
             /\ end \in 1 .. Size /\ Len(f) <= Size
             /\ \A m \in pos[p] + 1 .. end :
                  m + Lost(p) \in 1 .. Size /\ f[m] = Witness[input[p]][m + Lost(p)]
             /\ \A m \in 1 .. Len(f) : m \notin pos[p] + 1 .. end =>
                  f[m] = IF m <= Len(file) THEN file[m] ELSE Hole
<1> DEFINE w   == Witness[input[p]]
           at  == pos[p]
           b   == sent[p]
           end == at + n
           c   == Chunk(p, n)
           f   == WriteAt(file, at, c)
           len == IF end > Len(file) THEN end ELSE Len(file)
<1>1. /\ w \in Seq(Words) /\ Len(w) = Size /\ Size \in Nat
      /\ at \in 0 .. Size /\ b \in 0 .. Size /\ at <= b /\ n \in Nat /\ b + n <= Size
      /\ end \in 1 .. Size /\ Len(file) \in 0 .. Size /\ Lost(p) = b - at
  BY WitnessShape DEF WritersTypeOK, Lost
<1>2. /\ Len(c) = n /\ DOMAIN c = 1 .. n
      /\ \A m \in 1 .. n : c[m] = w[b + m] /\ w[b + m] \in Words
  <2>1. b + 1 \in Int /\ b + n \in Int /\ \A m \in b + 1 .. b + n : w[m] \in Words
    BY <1>1
  <2>2. /\ SubSeq(w, b + 1, b + n) \in Seq(Words)
        /\ Len(SubSeq(w, b + 1, b + n)) = IF b + 1 <= b + n THEN (b + n) - (b + 1) + 1 ELSE 0
        /\ \A m \in 1 .. (b + n) - (b + 1) + 1 : SubSeq(w, b + 1, b + n)[m] = w[(b + 1) + m - 1]
    <3> HIDE DEF w, b
    <3> QED
      BY <2>1, SubSeqProperties
  <2>3. c = SubSeq(w, b + 1, b + n)
    BY DEF Chunk
  <2> HIDE DEF c, w, b
  <2>4. /\ (b + n) - (b + 1) + 1 = n
        /\ \A m \in 1 .. n : (b + 1) + m - 1 = b + m /\ b + m \in b + 1 .. b + n
    BY <1>1
  <2>5. Len(c) = n /\ \A m \in 1 .. n : c[m] = w[b + m]
    BY <1>1, <2>2, <2>3, <2>4
  <2> QED
    BY <2>1, <2>2, <2>3, <2>4, <2>5
<1>3. f = [m \in 1 .. len |->
             IF m > at /\ m <= end THEN c[m - at]
             ELSE IF m <= Len(file) THEN file[m] ELSE Hole]
  BY <1>1, <1>2 DEF WriteAt
<1> HIDE DEF c, f
<1>4. len \in 0 .. Size
  BY <1>1
<1>5. \A m \in at + 1 .. end :
        m + Lost(p) \in 1 .. Size /\ f[m] = w[m + Lost(p)] /\ f[m] \in Words
  <2> TAKE m \in at + 1 .. end
  <2>1. m \in 1 .. len /\ m > at /\ m <= end /\ m - at \in 1 .. n
    BY <1>1
  <2>2. f[m] = c[m - at]
    BY <1>3, <2>1
  <2>3. b + (m - at) = m + Lost(p) /\ m + Lost(p) \in 1 .. Size
    <3>1. m \in Nat /\ m >= 1 /\ m <= at + n
      BY <1>1, <2>1
    <3> HIDE DEF at, b, end, w
    <3>2. b + (m - at) = m + (b - at) /\ m + (b - at) \in 1 .. Size
      BY <1>1, <2>1, <3>1
    <3> QED
      BY <1>1, <3>2
  <2>4. c[m - at] = w[b + (m - at)] /\ w[b + (m - at)] \in Words
    BY <1>2, <2>1
  <2> QED
    BY <2>2, <2>3, <2>4
<1>6. \A m \in 1 .. len : m \notin at + 1 .. end =>
        f[m] = IF m <= Len(file) THEN file[m] ELSE Hole
  BY <1>1, <1>3, <1>4
<1>7. \A m \in 1 .. len : f[m] \in Words \cup {Hole}
  <2> TAKE m \in 1 .. len
  <2>1. CASE m \in at + 1 .. end
    BY <1>1, <1>5, <2>1
  <2>2. CASE m \notin at + 1 .. end
    <3>1. file \in Seq(Words \cup {Hole})
      BY DEF WritersTypeOK
    <3>2. m <= Len(file) => file[m] \in Words \cup {Hole}
      BY <1>1, <3>1
    <3> QED
      BY <1>6, <2>2, <3>2
  <2> QED
    BY <2>1, <2>2
<1>8. f \in Seq(Words \cup {Hole}) /\ Len(f) = len
  <2>1. f = [m \in 1 .. len |-> f[m]]
    BY <1>3
  <2> HIDE DEF len
  <2> QED
    BY <1>4, <1>7, <2>1
<1> QED
  BY <1>1, <1>4, <1>5, <1>6, <1>8 DEF f, c

LEMMA WritersInit == Init => WritersInv
<1> SUFFICES ASSUME Init PROVE WritersInv
  OBVIOUS
<1>1. WritersTypeOK
  BY WitnessShape, EmptySeq DEF Init, WritersTypeOK
<1> QED
  BY <1>1, WritersAssumption
     DEF Init, WritersInv, OfSomeInput, LastCovers, ClosedAtEnd, AloneWrites

LEMMA OpenPreserves ==
  ASSUME WritersInv, NEW p \in Process, NEW j \in Json, Open(p, j)
  PROVE  WritersInv'
<1> USE DEF WritersInv, WritersTypeOK
<1>1. /\ file' = << >> /\ last' = p
      /\ sent' = [sent EXCEPT ![p] = 0] /\ pos' = [pos EXCEPT ![p] = 0]
      /\ status' = [status EXCEPT ![p] = "open"] /\ input' = [input EXCEPT ![p] = j]
      /\ alone' = (\A o \in Process \ {p} : status[o] # "open")
  BY DEF Open
<1>2. WritersTypeOK'
  <2>1. Size \in Nat /\ 0 \in 0 .. Size
    BY WitnessShape
  <2>2. sent' \in [Process -> 0 .. Size] /\ pos' \in [Process -> 0 .. Size]
        /\ \A o \in Process : pos'[o] <= sent'[o]
    BY <1>1, <2>1
  <2> QED
    BY <1>1, <2>1, <2>2, EmptySeq
<1>3. file' = << >> /\ Len(file') = 0 /\ DOMAIN file' = {} /\ pos'[p] = 0 /\ sent'[p] = 0
  BY <1>1, EmptySeq
<1>4. OfSomeInput' /\ LastCovers'
  BY <1>1, <1>3 DEF OfSomeInput, LastCovers
<1>5. ClosedAtEnd'
  BY <1>1, WritersAssumption DEF ClosedAtEnd
<1>6. AloneWrites'
  <2>1. ASSUME alone' PROVE \A o \in Process : o # last' => status'[o] # "open"
    BY <1>1, <2>1
  <2>2. Len(file') = pos'[last'] /\ 1 .. pos'[last'] = {}
    BY <1>1, <1>3
  <2> QED
    BY <2>1, <2>2 DEF AloneWrites
<1> QED
  BY <1>2, <1>4, <1>5, <1>6

LEMMA FlushPreserves ==
  ASSUME WritersInv, NEW p \in Process, Flush(p)
  PROVE  WritersInv'
<1> USE DEF WritersInv
<1>1. PICK n \in 1 .. Size - sent[p] :
        /\ file' = WriteAt(file, pos[p], Chunk(p, n))
        /\ sent' = [sent EXCEPT ![p] = @ + n] /\ pos' = [pos EXCEPT ![p] = @ + n]
  BY DEF Flush
<1>2. status[p] = "open" /\ UNCHANGED <<status, input, last, alone>>
  BY DEF Flush
<1> DEFINE end == pos[p] + n
<1>3. /\ file' \in Seq(Words \cup {Hole})
      /\ Len(file') = IF end > Len(file) THEN end ELSE Len(file)
      /\ end \in 1 .. Size /\ Len(file') <= Size
      /\ \A m \in pos[p] + 1 .. end :
           m + Lost(p) \in 1 .. Size /\ file'[m] = Witness[input[p]][m + Lost(p)]
      /\ \A m \in 1 .. Len(file') : m \notin pos[p] + 1 .. end =>
           file'[m] = IF m <= Len(file) THEN file[m] ELSE Hole
  BY <1>1, WriteInPlace
<1>4. /\ Size \in Nat /\ sent \in [Process -> 0 .. Size] /\ pos \in [Process -> 0 .. Size]
      /\ pos[p] \in 0 .. Size /\ sent[p] \in 0 .. Size /\ n \in Nat
      /\ \A o \in Process : pos[o] <= sent[o]
  BY WitnessShape DEF WritersTypeOK
<1>5. pos'[p] = end /\ sent'[p] = sent[p] + n
      /\ \A o \in Process \ {p} : pos'[o] = pos[o] /\ sent'[o] = sent[o]
  BY <1>1, <1>4
<1>6. WritersTypeOK'
  <2>1. sent' \in [Process -> 0 .. Size] /\ pos' \in [Process -> 0 .. Size]
    BY <1>1, <1>3, <1>4
  <2>2. \A o \in Process : pos'[o] <= sent'[o]
    BY <1>4, <1>5
  <2> QED
    BY <1>2, <1>3, <2>1, <2>2 DEF WritersTypeOK
<1>7. Len(file) \in Nat /\ DOMAIN file = 1 .. Len(file) /\ DOMAIN file' = 1 .. Len(file')
  BY <1>3 DEF WritersTypeOK
<1>8. \A o \in Process : Lost(o)' = Lost(o) /\ Lost(o) \in Nat
  BY <1>4, <1>5 DEF Lost
<1> HIDE DEF end
<1>9. OfSomeInput'
  <2> SUFFICES ASSUME NEW m \in 1 .. Len(file'), file'[m] # Hole
               PROVE  \E o \in Process : \E d \in 0 .. Lost(o) :
                        m + d <= Size /\ file'[m] = Witness[input[o]][m + d]
    BY <1>2, <1>7, <1>8 DEF OfSomeInput
  <2>1. CASE m \in pos[p] + 1 .. end
    <3>1. Lost(p) \in 0 .. Lost(p) /\ m + Lost(p) <= Size
      BY <1>3, <1>8, <2>1
    <3> QED
      BY <1>3, <2>1, <3>1
  <2>2. CASE m \notin pos[p] + 1 .. end
    <3>1. m \in 1 .. Len(file) /\ file'[m] = file[m]
      BY <1>3, <1>7, <2>2
    <3> QED
      BY <1>7, <3>1 DEF OfSomeInput
  <2> QED
    BY <2>1, <2>2
<1>10. LastCovers'
  <2> SUFFICES ASSUME last # NoProcess
               PROVE  /\ pos'[last] <= Len(file')
                      /\ \A m \in 1 .. pos'[last] : file'[m] # Hole
    BY <1>2 DEF LastCovers
  <2>1. last \in Process
    BY DEF WritersTypeOK
  <2>2. pos'[last] <= Len(file')
    BY <1>3, <1>4, <1>5, <1>7, <2>1 DEF LastCovers
  <2>3. ASSUME NEW m \in 1 .. pos'[last] PROVE file'[m] # Hole
    <3>1. CASE m \in pos[p] + 1 .. end
      <4>1. input[p] \in Json
        BY DEF WritersTypeOK
      <4> QED
        BY <1>3, <3>1, <4>1, WitnessShape
    <3>2. CASE m \notin pos[p] + 1 .. end
      <4>1. m \in 1 .. pos[last]
        <5>1. CASE last = p
          BY <1>3, <1>4, <1>5, <3>2, <5>1
        <5>2. CASE last # p
          BY <1>5, <2>1, <5>2
        <5> QED
          BY <5>1, <5>2
      <4>2. m <= Len(file) /\ m \in 1 .. Len(file')
        <5>1. pos[last] \in Nat /\ pos[last] <= Len(file)
          BY <1>4, <2>1 DEF LastCovers
        <5> QED
          BY <1>3, <1>7, <4>1, <5>1
      <4> QED
        BY <1>3, <3>2, <4>1, <4>2 DEF LastCovers
    <3> QED
      BY <3>1, <3>2
  <2> QED
    BY <2>2, <2>3
<1>11. ClosedAtEnd'
  BY <1>2, <1>5, <1>4, WritersAssumption DEF ClosedAtEnd, end
<1>12. AloneWrites'
  <2> SUFFICES ASSUME alone, last # NoProcess
               PROVE  /\ Len(file') = pos'[last]
                      /\ Lost(last)' = 0 =>
                           \A m \in 1 .. pos'[last] : file'[m] = Witness[input[last]][m]
    BY <1>2 DEF AloneWrites
  <2>1. p = last
    BY <1>2 DEF AloneWrites
  <2>2. Len(file) = pos[p]
    BY <2>1 DEF AloneWrites
  <2>3. Len(file') = end
    BY <1>3, <1>4, <2>2 DEF end
  <2>4. ASSUME Lost(p) = 0, NEW m \in 1 .. end PROVE file'[m] = Witness[input[p]][m]
    <3>1. CASE m \in pos[p] + 1 .. end
      <4>1. m + Lost(p) = m
        BY <2>4
      <4> QED
        BY <1>3, <3>1, <4>1
    <3>2. CASE m \notin pos[p] + 1 .. end
      <4>1. m \in 1 .. pos[p] /\ m <= Len(file) /\ m \in 1 .. Len(file')
        BY <1>3, <1>4, <2>2, <2>3, <3>2
      <4> QED
        BY <1>3, <2>1, <2>4, <3>2, <4>1 DEF AloneWrites
    <3> QED
      BY <3>1, <3>2
  <2>5. Lost(last)' = Lost(p)
    BY <1>2, <1>8, <2>1 DEF Lost
  <2> QED
    BY <1>5, <2>1, <2>3, <2>4, <2>5
<1> QED
  BY <1>6, <1>9, <1>10, <1>11, <1>12

(* What is lost makes an element's way forward longer, and moves none.     *)
LEMMA LosePreserves ==
  ASSUME WritersInv, NEW p \in Process, Lose(p)
  PROVE  WritersInv'
<1> USE DEF WritersInv
<1>1. PICK n \in 1 .. Size - sent[p] : sent' = [sent EXCEPT ![p] = @ + n]
  BY DEF Lose
<1>2. status[p] = "open" /\ p \notin Script /\ UNCHANGED <<file, status, input, pos, last, alone>>
  BY DEF Lose
<1>3. /\ Size \in Nat /\ sent \in [Process -> 0 .. Size] /\ pos \in [Process -> 0 .. Size]
      /\ sent[p] \in 0 .. Size /\ n \in Nat /\ sent[p] + n \in 0 .. Size
      /\ \A o \in Process : pos[o] <= sent[o]
  BY WitnessShape DEF WritersTypeOK
<1>4. sent'[p] = sent[p] + n /\ \A o \in Process \ {p} : sent'[o] = sent[o]
  BY <1>1, <1>3
<1>5. WritersTypeOK'
  <2>1. sent' \in [Process -> 0 .. Size] /\ \A o \in Process : pos'[o] <= sent'[o]
    BY <1>1, <1>2, <1>3, <1>4
  <2> QED
    BY <1>2, <2>1 DEF WritersTypeOK
<1>6. \A o \in Process : Lost(o) \in Nat /\ Lost(o)' \in Nat /\ Lost(o) <= Lost(o)'
  BY <1>2, <1>3, <1>4 DEF Lost
<1>7. OfSomeInput'
  <2> SUFFICES ASSUME NEW m \in DOMAIN file, file[m] # Hole
               PROVE  \E o \in Process : \E d \in 0 .. Lost(o)' :
                        m + d <= Size /\ file[m] = Witness[input[o]][m + d]
    BY <1>2 DEF OfSomeInput
  <2>1. PICK o \in Process : \E d \in 0 .. Lost(o) :
          m + d <= Size /\ file[m] = Witness[input[o]][m + d]
    BY DEF OfSomeInput
  <2>2. 0 .. Lost(o) \subseteq 0 .. Lost(o)'
    BY <1>6
  <2> QED
    BY <2>1, <2>2
<1>8. LastCovers'
  BY <1>2 DEF LastCovers
<1>9. ClosedAtEnd'
  BY <1>2, <1>4, WritersAssumption DEF ClosedAtEnd
<1>10. AloneWrites'
  <2>1. last \in Process /\ Lost(last)' = 0 => Lost(last) = 0
    <3>1. last \in Process => Lost(last)' = sent'[last] - pos[last]
      BY <1>2 DEF Lost
    <3>2. last \in Process =>
            /\ sent'[last] \in Nat /\ sent[last] \in Nat /\ pos[last] \in Nat
            /\ pos[last] <= sent[last] /\ sent[last] <= sent'[last]
      BY <1>3, <1>4
    <3> QED
      BY <3>1, <3>2 DEF Lost
  <2> QED
    BY <1>2, <2>1 DEF AloneWrites, WritersTypeOK
<1> QED
  BY <1>5, <1>7, <1>8, <1>9, <1>10

LEMMA ClosePreserves ==
  ASSUME WritersInv, NEW p \in Process, Close(p)
  PROVE  WritersInv'
<1> USE DEF WritersInv, WritersTypeOK, Close
<1>1. WritersTypeOK' /\ OfSomeInput'
  BY DEF OfSomeInput, Lost
<1>2. LastCovers' /\ ClosedAtEnd' /\ AloneWrites'
  BY DEF LastCovers, ClosedAtEnd, AloneWrites, Lost
<1> QED
  BY <1>1, <1>2

LEMMA KillPreserves ==
  ASSUME WritersInv, NEW p \in Process, Kill(p)
  PROVE  WritersInv'
<1> USE DEF WritersInv, WritersTypeOK, Kill
<1>1. WritersTypeOK' /\ OfSomeInput'
  BY DEF OfSomeInput, Lost
<1>2. LastCovers' /\ ClosedAtEnd' /\ AloneWrites'
  BY DEF LastCovers, ClosedAtEnd, AloneWrites, Lost
<1> QED
  BY <1>1, <1>2

LEMMA WritersInductive == Spec => []WritersInv
<1>1. WritersInv /\ [Next]_vars => WritersInv'
  <2> SUFFICES ASSUME WritersInv, [Next]_vars PROVE WritersInv'
    OBVIOUS
  <2>1. ASSUME NEW p \in Process, NEW j \in Json, Open(p, j) PROVE WritersInv'
    BY <2>1, OpenPreserves
  <2>2. ASSUME NEW p \in Process, Flush(p) PROVE WritersInv'
    BY <2>2, FlushPreserves
  <2>3. ASSUME NEW p \in Process, Close(p) PROVE WritersInv'
    BY <2>3, ClosePreserves
  <2>4. ASSUME NEW p \in Process, Kill(p) PROVE WritersInv'
    BY <2>4, KillPreserves
  <2>5. ASSUME NEW p \in Process, Lose(p) PROVE WritersInv'
    BY <2>5, LosePreserves
  <2>6. CASE UNCHANGED vars
    BY <2>6 DEF vars, WritersInv, WritersTypeOK, OfSomeInput, LastCovers, ClosedAtEnd, AloneWrites, Lost
  <2> QED
    BY <2>1, <2>2, <2>3, <2>4, <2>5, <2>6 DEF Next
<1> QED
  BY <1>1, WritersInit, PTL DEF Spec

-----------------------------------------------------------------------------
(* The last process to open the file has written all of its witness if it  *)
(* has lost nothing on the way, and only then.                             *)
LEMMA AllWritten ==
  ASSUME WritersInv, last # NoProcess, HasWritten(last)
  PROVE  /\ last \in Process /\ pos[last] = Size /\ Lost(last) = 0 /\ Size \in Nat
         /\ Len(file) = Size /\ DOMAIN file = 1 .. Size /\ \A n \in 1 .. Size : file[n] # Hole
<1> USE DEF WritersInv
<1>1. /\ last \in Process /\ Size \in Nat /\ pos[last] \in 0 .. Size /\ sent[last] \in 0 .. Size
      /\ pos[last] <= sent[last]
  BY WitnessShape DEF WritersTypeOK
<1>2. pos[last] = Size
  BY <1>1 DEF HasWritten, ClosedAtEnd
<1>3. Lost(last) = 0
  BY <1>1, <1>2 DEF Lost
<1>4. Size <= Len(file) /\ \A n \in 1 .. Size : file[n] # Hole
  BY <1>2 DEF LastCovers
<1>5. Len(file) = Size /\ DOMAIN file = 1 .. Size
  BY <1>1, <1>4 DEF WritersTypeOK
<1> QED
  BY <1>1, <1>2, <1>3, <1>4, <1>5

(* The types, for any number of processes that open, write, lose, close    *)
(* and are killed in any order.                                            *)
THEOREM WritersTypes == Spec => []WritersTypeOK
<1>1. WritersInv => WritersTypeOK
  BY DEF WritersInv
<1> QED
  BY <1>1, WritersInductive, PTL

(* Whatever is mixed or lost, no element is further from its place than    *)
(* its process has lost, and there is no hole in what the last process to  *)
(* open the file has written, which is all of the file if nothing failed.  *)
THEOREM InPlace == Spec => []ElementsInPlace
<1>1. WritersInv => ElementsInPlace
  <2> SUFFICES ASSUME WritersInv PROVE ElementsInPlace
    OBVIOUS
  <2>1. OfSomeInput /\ LastCovers
    BY DEF WritersInv
  <2>2. last # NoProcess /\ HasWritten(last) => Len(file) = Size
    BY AllWritten
  <2> QED
    BY <2>1, <2>2 DEF ElementsInPlace, OfSomeInput, LastCovers
<1> QED
  BY <1>1, WritersInductive, PTL

(* What the last process to open the file has written is its own witness,  *)
(* if it had the file to itself and the length is right or it has written  *)
(* everything, or if it has and the others have the same input and have    *)
(* lost nothing.                                                           *)
THEOREM LastWhole == Spec => []LastIsWhole
<1>1. WritersInv => LastIsWhole
  <2> SUFFICES ASSUME WritersInv, last # NoProcess PROVE LastIsWhole
    BY DEF LastIsWhole
  <2> USE DEF WritersInv
  <2> DEFINE w == Witness[input[last]]
  <2>1. last \in Process /\ w \in Seq(Words) /\ Len(w) = Size /\ Size \in Nat
    BY WitnessShape DEF WritersTypeOK
  <2>2. file \in Seq(Words \cup {Hole}) /\ w \in Seq(Words \cup {Hole})
    BY <2>1 DEF WritersTypeOK
  <2>3. ASSUME Len(file) = Size, \A n \in 1 .. Size : file[n] = w[n]
        PROVE  file = w
    <3> HIDE DEF w
    <3> QED
      BY <2>1, <2>2, <2>3, SeqEqual
  <2>4. ASSUME alone, Len(file) = Size \/ HasWritten(last) PROVE file = w
    <3>1. Len(file) = Size
      BY <2>4, AllWritten
    <3>2. pos[last] = Size
      BY <2>4, <3>1 DEF AloneWrites
    <3>3. Lost(last) = 0
      BY <3>2, AllWritten DEF HasWritten
    <3> QED
      BY <2>3, <2>4, <3>1, <3>2, <3>3 DEF AloneWrites
  <2>5. ASSUME HasWritten(last), \A p \in Process : input[p] = input[last] /\ Lost(p) = 0
        PROVE  file = w
    <3>1. Len(file) = Size /\ DOMAIN file = 1 .. Size /\ \A n \in 1 .. Size : file[n] # Hole
      BY <2>5, AllWritten
    <3>2. ASSUME NEW n \in 1 .. Size PROVE file[n] = w[n]
      <4>1. PICK p \in Process : \E d \in 0 .. Lost(p) : file[n] = Witness[input[p]][n + d]
        BY <3>1 DEF OfSomeInput
      <4>2. input[p] = input[last] /\ Lost(p) = 0
        BY <2>5
      <4>3. \A d \in 0 .. Lost(p) : n + d = n
        BY <4>2
      <4> QED
        BY <4>1, <4>2, <4>3
    <3> QED
      BY <2>3, <3>1, <3>2
  <2> QED
    BY <2>4, <2>5 DEF LastIsWhole
<1> QED
  BY <1>1, WritersInductive, PTL

-----------------------------------------------------------------------------
(* loadCircuit.                                                            *)
Steps == {"open", "copy", "entry", "def", "loaded", "thrown", "aborted", "killed", "undefined"}

(* The io map is being taken apart, or has been.                           *)
Parsing == pc \in {"entry", "def"} \/ (pc = "loaded" /\ NIo > 0)

InMap == IF done <= NIo THEN done ELSE NIo      (* entries of the io map   *)
InBus == IF done <= NIo THEN 0 ELSE done - NIo  (* entries of the buses    *)

LoadTypes ==
  /\ dat \in [words : Seq(Word), rest : 0 .. 3]
  /\ pc \in Steps
  /\ sections \in Seq(Seq(Word)) /\ Len(sections) <= 4
  /\ \A s \in 1 .. Len(sections) : Len(sections[s]) = Sizes[s]
  /\ pc \in {"entry", "def", "loaded"} => Len(sections) = 4
  /\ inisize \in Nat /\ inisize <= Pages * PageWords
  /\ pu32 \in Nat /\ pu32 <= Len(dat.words)
  /\ left \in Nat /\ done \in 0 .. NIo + NBus
  /\ defs \in Seq(FieldDef)
  /\ busInsId2FieldInfo \in Seq(Seq(FieldDef)) /\ Len(busInsId2FieldInfo) = InBus
  /\ \A t \in DOMAIN templateInsId2IOSignalInfo : templateInsId2IOSignalInfo[t] \in Seq(FieldDef)
  /\ pc \in {"open", "copy"} \/ (pc = "loaded" /\ NIo = 0) => pu32 = 0 /\ done = 0
  /\ pc = "loaded" /\ NIo > 0 => done = NIo + NBus
  /\ pc = "def" => done < NIo + NBus

(* What the four copies took is what stands at the beginning of the file.  *)
SectionsStand ==
  /\ inisize = Len(FlattenSeq(sections))
  /\ \A n \in 1 .. inisize : FlattenSeq(sections)[n] = WordAt(n)

(* While the io map is taken apart, the pointer is in the file, and the    *)
(* entries of the index so far are in the map.                             *)
ParsingInv ==
  Parsing =>
    /\ NIo > 0 /\ dat.rest = 0
    /\ inisize + pu32 <= Len(dat.words)
    /\ \A n \in 1 .. InMap : sections[4][n] \in DOMAIN templateInsId2IOSignalInfo

(* The entries that have been taken, and the words of the current one.     *)
Taken ==
  [n \in 1 .. done |-> IF n <= NIo THEN templateInsId2IOSignalInfo[sections[4][n]]
                                   ELSE busInsId2FieldInfo[n - NIo]]
Partial == IF pc = "def" THEN <<left + Len(defs)>> \o FlattenSeq(DefsWords(defs)) ELSE << >>
Parsed  == FlattenSeq(EntriesWords(Taken)) \o Partial

(* Written down again, they are the words before the pointer, if the map   *)
(* still has them all.                                                     *)
EntriesStand ==
  Parsing /\ IsInjective(sections[4]) =>
    /\ Len(Parsed) = pu32
    /\ \A n \in 1 .. pu32 : Parsed[n] = WordAt(inisize + n)

Pieces(c)    == c.sections \o EntriesWords(c.entries)
Offset(c, k) == Len(Preceding(Pieces(c), k))

(* No word of the file is another one than that of c's in its place.       *)
Agrees(c) ==
  \A n \in 1 .. Len(Written(c)) : n <= Len(dat.words) => dat.words[n] = Written(c)[n]

(* Then the file is taken apart as c was put together.                     *)
Follows(c) ==
  /\ pc = "entry" => inisize + pu32 = Offset(c, done + 5)
  /\ pc = "def" =>
       /\ left + Len(defs) = Len(c.entries[done + 1])
       /\ inisize + pu32 = Offset(c, done + 5) + 1
                             + Len(Preceding(DefsWords(c.entries[done + 1]), Len(defs) + 1))
  /\ pc = "loaded" /\ NIo > 0 => inisize + pu32 = Len(Written(c))
  /\ Len(Written(c)) <= Len(dat.words) /\ dat.rest = 0 => pc \notin {"aborted", "killed", "undefined"}

LoadInv ==
  /\ LoadTypes /\ SectionsStand /\ ParsingInv /\ EntriesStand
  /\ \A c \in Circuits : inisize = Offset(c, Len(sections) + 1) /\ (Agrees(c) => Follows(c))

(* What LoadAssumption says, constant by constant.                         *)
LEMMA NumbersAre ==
  /\ NHash \in Nat \ {0} /\ HashWords \in Nat \ {0} /\ PageWords \in Nat \ {0}
  /\ NWitness \in Nat /\ WitnessWords \in Nat /\ FrWords \in Nat /\ NConstants \in Nat
  /\ NIo \in Nat /\ NBus \in Nat /\ BusFields \in Nat
  /\ 0 \in Word /\ Word \subseteq Nat
BY LoadAssumption, Zenon

LEMMA SizesAre == \A s \in 1 .. 4 : Sizes[s] \in Nat
<1>1. NHash * HashWords \in Nat /\ NWitness * WitnessWords \in Nat /\ NConstants * FrWords \in Nat
  BY NumbersAre
<1> QED
  BY <1>1, NumbersAre DEF Sizes

(* The hash table is never empty.                                          *)
LEMMA FirstSize == Sizes[1] > 0
<1>1. NHash * HashWords > 0
  BY NumbersAre
<1> QED
  BY <1>1 DEF Sizes

(* The words of a definition, one by one.                                  *)
LEMMA DefWordsAre ==
  ASSUME NEW d \in FieldDef
  PROVE  LET w == DefWords(d)
             l == Len(d.lengths)
         IN  /\ w \in Seq(Nat) /\ l \in Nat /\ Len(w) = l + 4
             /\ w[1] = d.offset /\ w[2] = l
             /\ \A k \in 1 .. l : w[k + 2] = d.lengths[k]
             /\ w[l + 3] = d.size /\ w[l + 4] = d.busId
<1> DEFINE a == <<d.offset, Len(d.lengths)>>
           b == d.lengths
           c == a \o b
           e == <<d.size, d.busId>>
           w == c \o e
           two == 2
           K == Len(b) + two
<1>1. d.offset \in Nat /\ d.size \in Nat /\ d.busId \in Nat /\ b \in Seq(Nat) /\ Len(b) \in Nat
  <2>1. d.offset \in Word /\ d.size \in Word /\ d.busId \in Word /\ b \in Seq(Word)
    BY DEF FieldDef
  <2> QED
    <3>1. Word \subseteq Nat
      BY NumbersAre
    <3>2. b \in Seq(Nat)
      BY <2>1, <3>1, SeqMonotonic
    <3>3. Len(b) \in Nat
      BY <3>2, LenProperties
    <3>4. d.offset \in Nat /\ d.size \in Nat /\ d.busId \in Nat
      BY <2>1, <3>1
    <3> QED
      BY <3>2, <3>3, <3>4
<1>2. a \in Seq(Nat) /\ Len(a) = two /\ a[1] = d.offset /\ a[2] = Len(b)
  BY <1>1
<1>3. e \in Seq(Nat) /\ Len(e) = two /\ e[1] = d.size /\ e[2] = d.busId
  BY <1>1
<1>4. DefWords(d) = w
  BY DEF DefWords
<1>5. two \in Nat
  OBVIOUS
<1> HIDE DEF a, b, e, two
<1>6. /\ c \in Seq(Nat) /\ Len(c) = K /\ K \in Nat
      /\ \A n \in 1 .. two : c[n] = a[n]
      /\ \A n \in 1 .. Len(b) : c[n + two] = b[n]
  <2>1. a \in Seq(Nat) /\ Len(a) = two /\ b \in Seq(Nat)
    BY <1>1, <1>2
  <2>2. Joined(Nat, c, a, b, two)
    BY <1>5, <2>1, ConcatIs
  <2> HIDE DEF c
  <2> QED
    BY <1>5, <2>2 DEF Joined
<1> HIDE DEF c, K
<1>7. /\ w \in Seq(Nat) /\ Len(w) = Len(e) + K
      /\ \A n \in 1 .. K : w[n] = c[n]
      /\ \A n \in 1 .. Len(e) : w[n + K] = e[n]
  <2>1. c \in Seq(Nat) /\ Len(c) = K /\ K \in Nat /\ e \in Seq(Nat)
    BY <1>3, <1>6
  <2>2. Joined(Nat, w, c, e, K)
    BY <2>1, ConcatIs
  <2> HIDE DEF w
  <2> QED
    BY <2>1, <2>2 DEF Joined
<1> HIDE DEF w
<1>8. Len(w) = Len(b) + 4
  BY <1>1, <1>3, <1>7 DEF K, two
<1>9. w[1] = d.offset /\ w[2] = Len(b)
  <2>1. 1 \in 1 .. two /\ 2 \in 1 .. two /\ 1 \in 1 .. K /\ 2 \in 1 .. K
    BY <1>1 DEF K, two
  <2>2. c[1] = a[1] /\ c[2] = a[2]
    BY <1>6, <2>1
  <2>3. w[1] = c[1] /\ w[2] = c[2]
    BY <1>7, <2>1
  <2> QED
    BY <1>2, <2>2, <2>3
<1>10. \A n \in 1 .. Len(b) : w[n + 2] = b[n]
  <2>1. ASSUME NEW n \in 1 .. Len(b) PROVE w[n + two] = b[n]
    <3>1. n + two \in 1 .. K
      BY <1>1 DEF K, two
    <3> QED
      BY <1>6, <1>7, <3>1
  <2> QED
    BY <2>1 DEF two
<1>11. w[Len(b) + 3] = d.size /\ w[Len(b) + 4] = d.busId
  <2>1. w[1 + K] = e[1] /\ w[2 + K] = e[2]
    BY <1>3, <1>7 DEF two
  <2>2. 1 + K = Len(b) + 3 /\ 2 + K = Len(b) + 4
    BY <1>1 DEF K, two
  <2> QED
    BY <1>3, <2>1, <2>2
<1> QED
  BY <1>1, <1>4, <1>7, <1>8, <1>9, <1>10, <1>11 DEF b

(* Of several definitions: as many sequences of words.                     *)
LEMMA DefsWordsAre ==
  ASSUME NEW ds \in Seq(FieldDef)
  PROVE  /\ DefsWords(ds) \in Seq(Seq(Nat)) /\ Len(DefsWords(ds)) = Len(ds)
         /\ \A n \in 1 .. Len(ds) : DefsWords(ds)[n] = DefWords(ds[n])
         /\ FlattenSeq(DefsWords(ds)) \in Seq(Nat)
<1>1. \A n \in 1 .. Len(ds) : DefWords(ds[n]) \in Seq(Nat)
  BY DefWordsAre
<1>2. DOMAIN ds = 1 .. Len(ds) /\ Len(ds) \in Nat
  OBVIOUS
<1>3. DefsWords(ds) \in Seq(Seq(Nat)) /\ Len(DefsWords(ds)) = Len(ds)
  BY <1>1, <1>2 DEF DefsWords
<1>4. \A n \in 1 .. Len(ds) : DefsWords(ds)[n] = DefWords(ds[n])
  BY <1>2 DEF DefsWords
<1> QED
  BY <1>3, <1>4, FlattenTypes

(* The words of one more definition are written behind the others.         *)
LEMMA DefsWordsAppend ==
  ASSUME NEW ds \in Seq(FieldDef), NEW d \in FieldDef
  PROVE  FlattenSeq(DefsWords(Append(ds, d))) = FlattenSeq(DefsWords(ds)) \o DefWords(d)
<1> DEFINE es == Append(ds, d)
           a  == DefsWords(ds)
           x  == DefWords(d)
           b  == DefsWords(es)
<1>1. es \in Seq(FieldDef) /\ Len(es) = Len(ds) + 1 /\ Len(ds) \in Nat
      /\ es[Len(ds) + 1] = d /\ \A n \in 1 .. Len(ds) : es[n] = ds[n]
  OBVIOUS
<1>2. a \in Seq(Seq(Nat)) /\ Len(a) = Len(ds) /\ x \in Seq(Nat)
  BY DefsWordsAre, DefWordsAre
<1> HIDE DEF es
<1>3. /\ b \in Seq(Seq(Nat)) /\ Len(b) = Len(es)
      /\ \A n \in 1 .. Len(es) : b[n] = DefWords(es[n])
  BY <1>1, DefsWordsAre
<1>4. b[Len(ds) + 1] = x /\ \A n \in 1 .. Len(ds) : b[n] = a[n]
  BY <1>1, <1>3, DefsWordsAre
<1> HIDE DEF a, b, x
<1>5. b = Append(a, x)
  BY <1>1, <1>2, <1>3, <1>4
<1>6. FlattenSeq(Append(a, x)) = FlattenSeq(a) \o x
  BY <1>2, FlattenAppend
<1> QED
  BY <1>5, <1>6 DEF a, b, x, es

(* An entry is the number of its definitions and then their words.         *)
LEMMA EntryWordsAre ==
  ASSUME NEW ds \in Seq(FieldDef)
  PROVE  LET f == FlattenSeq(DefsWords(ds))
         IN  /\ EntryWords(ds) \in Seq(Nat) /\ Len(EntryWords(ds)) = Len(f) + 1
             /\ Len(f) \in Nat /\ EntryWords(ds)[1] = Len(ds)
             /\ \A n \in 1 .. Len(f) : EntryWords(ds)[n + 1] = f[n]
<1> DEFINE f == FlattenSeq(DefsWords(ds))
           a == <<Len(ds)>>
           w == a \o f
           one == 1
<1>1. f \in Seq(Nat)
  BY DefsWordsAre
<1>2. a \in Seq(Nat) /\ Len(a) = one /\ a[1] = Len(ds)
  OBVIOUS
<1>3. EntryWords(ds) = w
  BY DEF EntryWords
<1>4. one \in Nat
  OBVIOUS
<1> HIDE DEF a, f, one
<1>5. /\ w \in Seq(Nat) /\ Len(w) = Len(f) + one /\ Len(f) \in Nat
      /\ \A n \in 1 .. one : w[n] = a[n]
      /\ \A n \in 1 .. Len(f) : w[n + one] = f[n]
  <2>1. a \in Seq(Nat) /\ Len(a) = one /\ f \in Seq(Nat) /\ one \in Nat
    BY <1>1, <1>2, <1>4
  <2>2. Joined(Nat, w, a, f, one)
    BY <2>1, ConcatIs
  <2> QED
    BY <2>2 DEF Joined
<1> HIDE DEF w
<1> QED
  BY <1>2, <1>3, <1>5 DEF f, one

(* Of several entries.                                                     *)
LEMMA EntriesWordsAre ==
  ASSUME NEW e \in Seq(Seq(FieldDef))
  PROVE  /\ EntriesWords(e) \in Seq(Seq(Nat)) /\ Len(EntriesWords(e)) = Len(e)
         /\ \A n \in 1 .. Len(e) : EntriesWords(e)[n] = EntryWords(e[n])
         /\ FlattenSeq(EntriesWords(e)) \in Seq(Nat)
<1>1. \A n \in 1 .. Len(e) : EntryWords(e[n]) \in Seq(Nat)
  BY EntryWordsAre
<1>2. DOMAIN e = 1 .. Len(e) /\ Len(e) \in Nat
  OBVIOUS
<1>3. EntriesWords(e) \in Seq(Seq(Nat)) /\ Len(EntriesWords(e)) = Len(e)
  BY <1>1, <1>2 DEF EntriesWords
<1>4. \A n \in 1 .. Len(e) : EntriesWords(e)[n] = EntryWords(e[n])
  BY <1>2 DEF EntriesWords
<1> QED
  BY <1>3, <1>4, FlattenTypes

(* The words of one more entry are written behind the others.              *)
LEMMA EntriesWordsAppend ==
  ASSUME NEW e \in Seq(Seq(FieldDef)), NEW ds \in Seq(FieldDef)
  PROVE  FlattenSeq(EntriesWords(Append(e, ds))) = FlattenSeq(EntriesWords(e)) \o EntryWords(ds)
<1> DEFINE es == Append(e, ds)
           a  == EntriesWords(e)
           x  == EntryWords(ds)
           b  == EntriesWords(es)
<1>1. es \in Seq(Seq(FieldDef)) /\ Len(es) = Len(e) + 1 /\ Len(e) \in Nat
      /\ es[Len(e) + 1] = ds /\ \A n \in 1 .. Len(e) : es[n] = e[n]
  OBVIOUS
<1>2. a \in Seq(Seq(Nat)) /\ Len(a) = Len(e) /\ x \in Seq(Nat)
  BY EntriesWordsAre, EntryWordsAre
<1> HIDE DEF es
<1>3. /\ b \in Seq(Seq(Nat)) /\ Len(b) = Len(es)
      /\ \A n \in 1 .. Len(es) : b[n] = EntryWords(es[n])
  BY <1>1, EntriesWordsAre
<1>4. b[Len(e) + 1] = x /\ \A n \in 1 .. Len(e) : b[n] = a[n]
  BY <1>1, <1>3, EntriesWordsAre
<1> HIDE DEF a, b, x
<1>5. b = Append(a, x)
  BY <1>1, <1>2, <1>3, <1>4
<1>6. FlattenSeq(Append(a, x)) = FlattenSeq(a) \o x
  BY <1>2, FlattenAppend
<1> QED
  BY <1>5, <1>6 DEF a, b, x, es

(* A whole file is four sections of known sizes and then the entries.      *)
LEMMA PiecesAre ==
  ASSUME NEW c \in Circuits
  PROVE  /\ c.entries \in Seq(Seq(FieldDef)) /\ Len(c.entries) = NIo + NBus
         /\ NIo \in Nat /\ NBus \in Nat
         /\ Pieces(c) \in Seq(Seq(Nat)) /\ Len(Pieces(c)) = NIo + NBus + 4
         /\ \A s \in 1 .. 4 : Len(Pieces(c)[s]) = Sizes[s]
         /\ \A n \in 1 .. NIo + NBus : Pieces(c)[n + 4] = EntryWords(c.entries[n])
         /\ Written(c) = FlattenSeq(Pieces(c)) /\ Written(c) \in Seq(Nat)
<1> DEFINE a == c.sections
           b == EntriesWords(c.entries)
           w == a \o b
           four == 4
<1>1. /\ c.entries \in Seq(Seq(FieldDef)) /\ Len(c.entries) = NIo + NBus
      /\ a \in Seq(Seq(Word)) /\ Len(a) = four /\ \A s \in 1 .. four : Len(a[s]) = Sizes[s]
  BY CircuitsAssumption
<1>2. NIo \in Nat /\ NBus \in Nat /\ Word \subseteq Nat
  BY NumbersAre
<1>3. a \in Seq(Seq(Nat))
  <2>1. Seq(Word) \subseteq Seq(Nat)
    BY <1>2, SeqMonotonic
  <2> QED
    BY <1>1, <2>1, SeqMonotonic
<1>4. /\ b \in Seq(Seq(Nat)) /\ Len(b) = NIo + NBus
      /\ \A n \in 1 .. NIo + NBus : b[n] = EntryWords(c.entries[n])
  BY <1>1, EntriesWordsAre
<1>5. Pieces(c) = w /\ Written(c) = FlattenSeq(w)
  BY DEF Pieces, Written
<1>6. four \in Nat
  OBVIOUS
<1> HIDE DEF a, b, four
<1>7. /\ w \in Seq(Seq(Nat)) /\ Len(w) = Len(b) + four
      /\ \A s \in 1 .. four : w[s] = a[s]
      /\ \A n \in 1 .. Len(b) : w[n + four] = b[n]
  <2>1. a \in Seq(Seq(Nat)) /\ Len(a) = four /\ b \in Seq(Seq(Nat)) /\ four \in Nat
    BY <1>1, <1>3, <1>4, <1>6
  <2>2. Joined(Seq(Nat), w, a, b, four)
    BY <2>1, ConcatIs
  <2> HIDE DEF w
  <2> QED
    BY <1>4, <2>1, <2>2 DEF Joined
<1>8. FlattenSeq(w) \in Seq(Nat)
  BY <1>7, FlattenTypes
<1> HIDE DEF w
<1>9. /\ Len(w) = NIo + NBus + 4
      /\ \A s \in 1 .. 4 : Len(w[s]) = Sizes[s]
      /\ \A n \in 1 .. NIo + NBus : w[n + 4] = EntryWords(c.entries[n])
  BY <1>1, <1>2, <1>4, <1>7 DEF four
<1> QED
  BY <1>1, <1>2, <1>5, <1>7, <1>8, <1>9

-----------------------------------------------------------------------------
(* Where the pieces of a whole file stand in it                            *)

(* Where the pieces of a whole file begin: each where the one before it    *)
(* ends.                                                                   *)
LEMMA OffsetsAre ==
  ASSUME NEW c \in Circuits
  PROVE  /\ Offset(c, 1) = 0 /\ Offset(c, NIo + NBus + 5) = Len(Written(c)) /\ Len(Written(c)) \in Nat
         /\ \A k \in 1 .. NIo + NBus + 5 : Offset(c, k) \in Nat /\ Offset(c, k) <= Len(Written(c))
         /\ \A k \in 1 .. NIo + NBus + 4 :
              Offset(c, k + 1) = Offset(c, k) + Len(Pieces(c)[k]) /\ Len(Pieces(c)[k]) \in Nat
<1> DEFINE p == Pieces(c)
           w == Written(c)
<1>1. /\ p \in Seq(Seq(Nat)) /\ Len(p) = NIo + NBus + 4 /\ NIo \in Nat /\ NBus \in Nat
      /\ w = FlattenSeq(p) /\ w \in Seq(Nat)
  BY PiecesAre
<1> HIDE DEF p, w
<1>2. Preceding(p, 1) = << >>
  BY <1>1, PrecedingFirst
<1>3. Preceding(p, NIo + NBus + 5) = w
  <2>1. Len(p) + 1 = NIo + NBus + 5
    BY <1>1
  <2> QED
    BY <1>1, <2>1, PrecedingAll
<1>4. ASSUME NEW k \in 1 .. NIo + NBus + 5
      PROVE  Len(Preceding(p, k)) \in Nat /\ Len(Preceding(p, k)) <= Len(w)
  <2>1. k \in 1 .. Len(p) + 1
    BY <1>1
  <2> QED
    BY <1>1, <2>1, PrecedingTypes, PrecedingBegins DEF Begins
<1>5. ASSUME NEW k \in 1 .. NIo + NBus + 4
      PROVE  Len(Preceding(p, k + 1)) = Len(Preceding(p, k)) + Len(p[k]) /\ Len(p[k]) \in Nat
  <2>1. k \in 1 .. Len(p)
    BY <1>1
  <2>2. Len(p[k]) \in Nat
    BY <1>1, <2>1
  <2>3. Len(Preceding(p, k + 1)) = Len(Preceding(p, k)) + Len(p[k])
    BY <1>1, <2>1, PrecedingNext
  <2> QED
    BY <2>2, <2>3
<1>6. Len(<< >>) = 0 /\ Len(w) \in Nat
  BY <1>1
<1> QED
  BY <1>2, <1>3, <1>4, <1>5, <1>6 DEF Offset, p, w

(* A section of a whole file.                                              *)
LEMMA SectionOffset ==
  ASSUME NEW c \in Circuits, NEW s \in 1 .. 4
  PROVE  /\ Offset(c, s + 1) = Offset(c, s) + Sizes[s]
         /\ Offset(c, s) \in Nat /\ Offset(c, s + 1) \in Nat /\ Offset(c, s + 1) <= Len(Written(c))
<1>1. NIo \in Nat /\ NBus \in Nat /\ Len(Pieces(c)[s]) = Sizes[s]
  BY PiecesAre
<1>2. s \in 1 .. NIo + NBus + 4 /\ s \in 1 .. NIo + NBus + 5 /\ s + 1 \in 1 .. NIo + NBus + 5
  BY <1>1
<1> QED
  BY <1>1, <1>2, OffsetsAre

(* An entry of a whole file: its first word counts the definitions behind  *)
(* it.                                                                     *)
LEMMA EntryOffset ==
  ASSUME NEW c \in Circuits, NEW k \in 1 .. NIo + NBus
  PROVE  LET e == c.entries[k]
             f == FlattenSeq(DefsWords(e))
             w == Written(c)
         IN  /\ e \in Seq(FieldDef) /\ Len(f) \in Nat /\ Offset(c, k + 4) \in Nat
             /\ Offset(c, k + 5) = Offset(c, k + 4) + 1 + Len(f)
             /\ Offset(c, k + 5) <= Len(w)
             /\ w[Offset(c, k + 4) + 1] = Len(e)
             /\ \A n \in 1 .. Len(f) : w[Offset(c, k + 4) + 1 + n] = f[n]
<1> DEFINE e == c.entries[k]
           f == FlattenSeq(DefsWords(e))
           w == Written(c)
           p == Pieces(c)
           x == EntryWords(e)
           o == Len(Preceding(p, k + 4))
<1>1. /\ c.entries \in Seq(Seq(FieldDef)) /\ Len(c.entries) = NIo + NBus
      /\ NIo \in Nat /\ NBus \in Nat /\ p \in Seq(Seq(Nat)) /\ Len(p) = NIo + NBus + 4
      /\ p[k + 4] = x /\ w = FlattenSeq(p)
  BY PiecesAre
<1>2. e \in Seq(FieldDef)
  BY <1>1
<1> HIDE DEF e
<1>3. /\ x \in Seq(Nat) /\ Len(x) = Len(f) + 1 /\ Len(f) \in Nat /\ x[1] = Len(e)
      /\ \A n \in 1 .. Len(f) : x[n + 1] = f[n]
  BY <1>2, EntryWordsAre
<1>4. k + 4 \in 1 .. Len(p) /\ k + 4 \in 1 .. NIo + NBus + 4 /\ k + 5 \in 1 .. NIo + NBus + 5
      /\ (k + 4) + 1 = k + 5 /\ k + 4 \in 1 .. NIo + NBus + 5
  BY <1>1
<1> HIDE DEF w, p, x, f
<1>5. o + Len(x) <= Len(w) /\ \A n \in 1 .. Len(x) : w[o + n] = x[n]
  <2>1. o + Len(p[k + 4]) <= Len(w) /\ \A n \in 1 .. Len(p[k + 4]) : w[o + n] = p[k + 4][n]
    BY <1>1, <1>4, FlattenPiece
  <2> QED
    BY <1>1, <2>1
<1>6. o \in Nat /\ Offset(c, k + 4) = o
  BY <1>4, OffsetsAre DEF Offset, p
<1>7. Offset(c, k + 5) = o + Len(x)
  <2>1. Offset(c, (k + 4) + 1) = Offset(c, k + 4) + Len(p[k + 4])
    BY <1>4, OffsetsAre DEF p
  <2> QED
    BY <1>1, <1>4, <1>6, <2>1
<1> HIDE DEF o
<1>8. ASSUME NEW n \in 1 .. Len(f) PROVE w[o + 1 + n] = f[n]
  <2>1. n + 1 \in 1 .. Len(x) /\ o + (n + 1) = o + 1 + n
    BY <1>3, <1>6
  <2> QED
    BY <1>3, <1>5, <2>1
<1>9. w[o + 1] = Len(e)
  BY <1>3, <1>5
<1>10. Offset(c, k + 5) = o + 1 + Len(f) /\ o + 1 + Len(f) <= Len(w)
  BY <1>3, <1>5, <1>6, <1>7
<1> QED
  BY <1>2, <1>3, <1>6, <1>8, <1>9, <1>10 DEF f, w, e

(* A definition of a whole file stands behind those before it in its       *)
(* entry.                                                                  *)
LEMMA DefOffset ==
  ASSUME NEW c \in Circuits, NEW k \in 1 .. NIo + NBus, NEW j \in 1 .. Len(c.entries[k])
  PROVE  LET e == c.entries[k]
             o == Offset(c, k + 4) + 1 + Len(Preceding(DefsWords(e), j))
             x == DefWords(e[j])
             w == Written(c)
         IN  /\ e[j] \in FieldDef /\ o \in Nat
             /\ Offset(c, k + 4) + 1 + Len(Preceding(DefsWords(e), j + 1)) = o + Len(x)
             /\ o + Len(x) <= Len(w)
             /\ \A n \in 1 .. Len(x) : w[o + n] = x[n]
<1> DEFINE e == c.entries[k]
           a == Offset(c, k + 4) + 1
           d == DefsWords(e)
           f == FlattenSeq(d)
           b == Len(Preceding(d, j))
           x == DefWords(e[j])
           w == Written(c)
<1>1. /\ e \in Seq(FieldDef) /\ a \in Nat /\ Len(f) \in Nat
      /\ a + Len(f) <= Len(w) /\ \A n \in 1 .. Len(f) : w[a + n] = f[n]
  <2> DEFINE o == Offset(c, k + 4)
             r == Offset(c, k + 5)
  <2>1. /\ e \in Seq(FieldDef) /\ Len(f) \in Nat /\ o \in Nat /\ r = o + 1 + Len(f) /\ r <= Len(w)
        /\ \A n \in 1 .. Len(f) : w[o + 1 + n] = f[n]
    BY EntryOffset
  <2> HIDE DEF o, r, e, f, w
  <2>2. a = o + 1
    BY DEF o
  <2> HIDE DEF a
  <2> QED
    BY <2>1, <2>2
<1>2. Len(w) \in Nat
  BY OffsetsAre
<1> HIDE DEF a, w
<1>3. e[j] \in FieldDef
  BY <1>1
<1>4. d \in Seq(Seq(Nat)) /\ Len(d) = Len(e) /\ d[j] = x
  BY <1>1, DefsWordsAre
<1>5. j \in 1 .. Len(d) /\ j \in 1 .. Len(d) + 1 /\ x \in Seq(Nat)
  BY <1>3, <1>4, DefWordsAre
<1> HIDE DEF e, d, x
<1>6. b + Len(x) <= Len(f) /\ \A n \in 1 .. Len(x) : f[b + n] = x[n]
  <2>1. b + Len(d[j]) <= Len(f) /\ \A n \in 1 .. Len(d[j]) : f[b + n] = d[j][n]
    BY <1>4, <1>5, FlattenPiece
  <2> QED
    BY <1>4, <2>1
<1>7. b \in Nat /\ Len(x) \in Nat
  BY <1>4, <1>5, PrecedingTypes
<1>8. Len(Preceding(d, j + 1)) = b + Len(x)
  <2>1. Len(Preceding(d, j + 1)) = b + Len(d[j])
    BY <1>4, <1>5, PrecedingNext
  <2> QED
    BY <1>4, <2>1
<1> DEFINE g == Len(Preceding(d, j + 1))
<1> HIDE DEF f, b
<1>9. g = b + Len(x)
  BY <1>8
<1> HIDE DEF g
<1>10. ASSUME NEW n \in 1 .. Len(x) PROVE w[a + b + n] = x[n]
  <2>1. b + n \in 1 .. Len(f) /\ a + b + n = a + (b + n)
    BY <1>1, <1>6, <1>7
  <2> QED
    BY <1>1, <1>6, <2>1
<1>11. a + g = a + b + Len(x) /\ a + b + Len(x) <= Len(w) /\ a + b \in Nat
  BY <1>1, <1>2, <1>6, <1>7, <1>9
<1> QED
  BY <1>3, <1>10, <1>11 DEF a, b, d, e, g, w, x

-----------------------------------------------------------------------------
(* What is read                                                            *)

(* The last page ends no sooner than the file.                             *)
LEMMA PagesCover ==
  ASSUME LoadTypes
  PROVE  /\ Len(dat.words) \in Nat /\ Len(dat.words) <= Pages * PageWords
         /\ Pages * PageWords \in Nat
<1> DEFINE l == Len(dat.words)
           n == l + (IF dat.rest > 0 THEN 1 ELSE 0) + PageWords - 1
           m == n \div PageWords
<1>1. l \in Nat /\ dat.rest \in Nat
  BY DEF LoadTypes
<1>2. PageWords \in Nat \ {0}
  BY NumbersAre
<1> HIDE DEF l
<1>3. n \in Nat /\ n >= l + PageWords - 1
  BY <1>1, <1>2
<1> HIDE DEF n
<1>4. n = PageWords * m + (n % PageWords) /\ n % PageWords \in 0 .. PageWords - 1 /\ m \in Int
  BY <1>2, <1>3, DivMod
<1>5. Pages = m
  BY DEF Pages, n, l
<1> HIDE DEF m
<1>6. PageWords * m = m * PageWords /\ m * PageWords \in Int
  BY <1>2, <1>4
<1>7. l <= m * PageWords
  BY <1>1, <1>2, <1>3, <1>4, <1>6
<1> QED
  BY <1>1, <1>5, <1>6, <1>7 DEF l

(* What is read at any place is a word, and in the file the word that is   *)
(* there.                                                                  *)
LEMMA WordAtIs ==
  ASSUME LoadTypes, NEW n \in Nat \ {0}
  PROVE  /\ WordAt(n) \in Word /\ WordAt(n) \in Nat
         /\ n <= Len(dat.words) => WordAt(n) = dat.words[n]
<1>1. dat.words \in Seq(Word)
  BY DEF LoadTypes
<1>2. n <= Len(dat.words) => dat.words[n] \in Word
  BY <1>1
<1>3. 0 \in Word /\ Word \subseteq Nat
  BY NumbersAre
<1> QED
  BY <1>2, <1>3 DEF WordAt

LEMMA AgreesAt ==
  ASSUME LoadTypes, NEW c \in Circuits, Agrees(c), NEW n \in 1 .. Len(Written(c)), n <= Len(dat.words)
  PROVE  WordAt(n) = Written(c)[n]
<1>1. n \in Nat \ {0}
  OBVIOUS
<1> QED
  BY <1>1, WordAtIs DEF Agrees

LEMMA SameFile ==
  ASSUME dat' = dat
  PROVE  /\ Pages' = Pages /\ \A n : WordAt(n)' = WordAt(n)
         /\ \A c \in Circuits : Agrees(c)' <=> Agrees(c)
BY DEF Pages, WordAt, Agrees

(* A sequence stands in the file behind its first b words.                 *)
Stands(s, b) == \A n \in 1 .. Len(s) : s[n] = WordAt(b + n)

(* What stands somewhere, and what stands behind it, stand there together. *)
LEMMA StandsMore ==
  ASSUME NEW s \in Seq(Nat), NEW t \in Seq(Nat), NEW p \in Nat, NEW b \in Nat, Len(s) = p,
         Stands(s, b), Stands(t, b + p)
  PROVE  s \o t \in Seq(Nat) /\ Len(s \o t) = p + Len(t) /\ Len(t) \in Nat /\ Stands(s \o t, b)
<1> DEFINE u == s \o t
           l == Len(t)
<1>1. /\ u \in Seq(Nat) /\ l \in Nat /\ Len(u) = l + p
      /\ \A n \in 1 .. p : u[n] = s[n]
      /\ \A n \in 1 .. l : u[n + p] = t[n]
  <2>1. Joined(Nat, u, s, t, p)
    BY ConcatIs
  <2> QED
    BY <2>1 DEF Joined
<1>2. /\ \A n \in 1 .. p : s[n] = WordAt(b + n)
      /\ \A n \in 1 .. l : t[n] = WordAt(b + p + n)
  BY DEF Stands
<1> HIDE DEF u, l
<1>3. ASSUME NEW n \in 1 .. p + l PROVE u[n] = WordAt(b + n)
  <2>1. CASE n <= p
    BY <1>1, <1>2, <2>1
  <2>2. CASE n > p
    <3> DEFINE m == n - p
    <3>1. m \in 1 .. l /\ n = m + p /\ b + p + m = b + n
      BY <1>1, <2>2
    <3> HIDE DEF m
    <3> QED
      BY <1>1, <1>2, <3>1
  <2> QED
    BY <1>1, <2>1, <2>2
<1>4. Len(u) = p + l
  BY <1>1
<1> QED
  BY <1>1, <1>3, <1>4 DEF u, l, Stands

(* What has been taken is entries, one for each that is done.              *)
LEMMA TakenAre ==
  ASSUME LoadTypes, ParsingInv, Parsing
  PROVE  /\ Taken \in Seq(Seq(FieldDef)) /\ Len(Taken) = done
         /\ FlattenSeq(EntriesWords(Taken)) \in Seq(Nat)
<1>1. done \in Nat /\ NIo \in Nat
  BY NumbersAre DEF LoadTypes
<1>2. ASSUME NEW n \in 1 .. done PROVE Taken[n] \in Seq(FieldDef)
  <2>1. CASE n <= NIo
    <3>1. n \in 1 .. InMap
      BY <1>1, <2>1 DEF InMap
    <3>2. sections[4][n] \in DOMAIN templateInsId2IOSignalInfo
      BY <3>1 DEF ParsingInv
    <3>3. templateInsId2IOSignalInfo[sections[4][n]] \in Seq(FieldDef)
      BY <3>2 DEF LoadTypes
    <3> QED
      BY <2>1, <3>3 DEF Taken
  <2>2. CASE n > NIo
    <3>1. n - NIo \in 1 .. InBus
      BY <1>1, <2>2 DEF InBus
    <3>2. busInsId2FieldInfo \in Seq(Seq(FieldDef)) /\ Len(busInsId2FieldInfo) = InBus
      BY DEF LoadTypes
    <3>3. busInsId2FieldInfo[n - NIo] \in Seq(FieldDef)
      BY <3>1, <3>2
    <3> QED
      BY <1>1, <2>2, <3>3 DEF Taken
  <2> QED
    BY <1>1, <2>1, <2>2
<1>3. Taken \in Seq(Seq(FieldDef)) /\ Len(Taken) = done
  <2>1. DOMAIN Taken = 1 .. done /\ Taken = [n \in 1 .. done |-> Taken[n]]
    BY DEF Taken
  <2> DEFINE t == Taken
  <2>2. t = [n \in 1 .. done |-> t[n]] /\ \A n \in 1 .. done : t[n] \in Seq(FieldDef)
    BY <1>2, <2>1
  <2> HIDE DEF t
  <2>3. t \in Seq(Seq(FieldDef)) /\ Len(t) = done
    BY <1>1, <2>2
  <2> QED
    BY <2>3 DEF t
<1> QED
  BY <1>3, EntriesWordsAre

-----------------------------------------------------------------------------
(* Each action keeps the invariant                                         *)

(* To end with an error keeps the invariant, unless the file holds a whole *)
(* one and is of whole words.                                              *)
LEMMA EndsBadly ==
  ASSUME LoadInv, NEW how \in {"thrown", "aborted", "killed", "undefined"}, Ends(how),
         \A c \in Circuits : how # "thrown" /\ Agrees(c) /\ Len(Written(c)) <= Len(dat.words) => dat.rest # 0
  PROVE  LoadInv'
<1>1. /\ pc' = how /\ dat' = dat /\ inisize' = inisize /\ sections' = sections /\ pu32' = pu32
      /\ left' = left /\ defs' = defs /\ done' = done
      /\ templateInsId2IOSignalInfo' = templateInsId2IOSignalInfo
      /\ busInsId2FieldInfo' = busInsId2FieldInfo
  BY DEF Ends, io
<1>2. /\ Pages' = Pages /\ \A n : WordAt(n)' = WordAt(n)
      /\ \A c \in Circuits : Agrees(c)' <=> Agrees(c)
  BY <1>1, SameFile
<1>3. pc' \in Steps /\ pc' \notin {"open", "copy", "entry", "def", "loaded"}
  BY <1>1 DEF Steps
<1>4. LoadTypes'
  BY <1>1, <1>2, <1>3 DEF LoadInv, LoadTypes, InBus
<1>5. SectionsStand'
  BY <1>1, <1>2 DEF LoadInv, SectionsStand
<1>6. ~Parsing'
  BY <1>3 DEF Parsing
<1>7. ASSUME NEW c \in Circuits, Agrees(c)' PROVE Follows(c)'
  <2>1. Agrees(c)
    BY <1>2, <1>7
  <2>2. Len(Written(c)) <= Len(dat.words) /\ dat.rest = 0 => pc' \notin {"aborted", "killed", "undefined"}
    BY <1>1, <2>1
  <2> QED
    BY <1>1, <1>3, <2>2 DEF Follows
<1>8. \A c \in Circuits : inisize' = Offset(c, Len(sections') + 1)
  BY <1>1 DEF LoadInv
<1> QED
  BY <1>4, <1>5, <1>6, <1>7, <1>8 DEF LoadInv, ParsingInv, EntriesStand

(* An empty file, which kills the process, holds no circuit.               *)
LEMMA OpenStep ==
  ASSUME LoadInv, OpenDat
  PROVE  LoadInv'
<1>1. CASE dat.words = << >> /\ dat.rest = 0
  <2>1. Ends("killed")
    BY <1>1 DEF OpenDat
  <2>2. \A c \in Circuits : ~(Len(Written(c)) <= Len(dat.words))
    <3> SUFFICES ASSUME NEW c \in Circuits PROVE Len(Written(c)) > 0 /\ Len(dat.words) = 0
      BY OffsetsAre
    <3>1. Offset(c, 1 + 1) = 0 + Sizes[1] /\ Offset(c, 1 + 1) <= Len(Written(c))
      BY SectionOffset, OffsetsAre
    <3>2. Sizes[1] \in Nat /\ Len(Written(c)) \in Nat
      BY SizesAre, OffsetsAre
    <3>3. Len(Written(c)) > 0
      BY <3>1, <3>2, FirstSize
    <3> QED
      BY <1>1, <3>3
  <2> QED
    BY <2>1, <2>2, EndsBadly
<1>2. CASE ~(dat.words = << >> /\ dat.rest = 0)
  <2>1. /\ pc = "open" /\ pc' = "copy"
        /\ dat' = dat /\ inisize' = inisize /\ sections' = sections /\ pu32' = pu32
        /\ left' = left /\ defs' = defs /\ done' = done
        /\ templateInsId2IOSignalInfo' = templateInsId2IOSignalInfo
        /\ busInsId2FieldInfo' = busInsId2FieldInfo
    BY <1>2 DEF OpenDat, Ends, io
  <2>2. /\ Pages' = Pages /\ \A n : WordAt(n)' = WordAt(n)
        /\ \A c \in Circuits : Agrees(c)' <=> Agrees(c)
    BY <2>1, SameFile
  <2>3. LoadTypes'
    BY <2>1, <2>2 DEF LoadInv, LoadTypes, InBus, Steps
  <2>4. SectionsStand'
    BY <2>1, <2>2 DEF LoadInv, SectionsStand
  <2>5. ~Parsing'
    BY <2>1 DEF Parsing
  <2>6. \A c \in Circuits : Follows(c)'
    BY <2>1 DEF Follows
  <2>7. \A c \in Circuits : inisize' = Offset(c, Len(sections') + 1)
    BY <2>1 DEF LoadInv
  <2> QED
    BY <2>3, <2>4, <2>5, <2>6, <2>7 DEF LoadInv, ParsingInv, EntriesStand
<1> QED
  BY <1>1, <1>2

(* A section that ends behind the last page ends behind the file.          *)
LEMMA CopyFailsStep ==
  ASSUME LoadInv, CopyFails
  PROVE  LoadInv'
<1>1. \A c \in Circuits : ~(Len(Written(c)) <= Len(dat.words))
  <2> SUFFICES ASSUME NEW c \in Circuits, Len(Written(c)) <= Len(dat.words) PROVE FALSE
    OBVIOUS
  <2> DEFINE s == Len(sections) + 1
             z == Sizes[s]
             y == Pages * PageWords
  <2>1. LoadTypes /\ inisize \in Nat /\ inisize = Offset(c, s)
    BY DEF LoadInv, LoadTypes
  <2>2. s \in 1 .. 4
    <3>1. sections \in Seq(Seq(Word)) /\ Len(sections) < 4
      BY <2>1 DEF LoadTypes, CopyFails
    <3>2. Len(sections) \in Nat
      BY <3>1
    <3> QED
      BY <3>1, <3>2
  <2>3. inisize + z > y
    BY DEF CopyFails
  <2>4. Len(dat.words) \in Nat /\ Len(dat.words) <= y /\ y \in Nat
    BY <2>1, PagesCover
  <2>5. z \in Nat
    BY <2>2, SizesAre
  <2> HIDE DEF s, z, y
  <2>6. Offset(c, s + 1) = Offset(c, s) + z /\ Offset(c, s + 1) <= Len(Written(c))
    BY <2>2, SectionOffset DEF z
  <2>7. Len(Written(c)) \in Nat
    BY OffsetsAre
  <2> QED
    BY <2>1, <2>3, <2>4, <2>5, <2>6, <2>7
<1>2. Ends("killed")
  BY DEF CopyFails
<1> QED
  BY <1>1, <1>2, EndsBadly

(* A section is copied from where the last one ended.                      *)
LEMMA CopySectionStep ==
  ASSUME LoadInv, CopySection
  PROVE  LoadInv'
<1> DEFINE l == Len(sections)
           z == Sizes[l + 1]
           new == [k \in 1 .. z |-> WordAt(inisize + k)]
           flat == FlattenSeq(sections)
<1>1. /\ pc = "copy" /\ l < 4 /\ inisize + z <= Pages * PageWords
      /\ sections' = Append(sections, new) /\ inisize' = inisize + z
      /\ dat' = dat /\ pc' = pc /\ pu32' = pu32
      /\ left' = left /\ defs' = defs /\ done' = done
      /\ templateInsId2IOSignalInfo' = templateInsId2IOSignalInfo
      /\ busInsId2FieldInfo' = busInsId2FieldInfo
  BY DEF CopySection, io
<1>2. /\ Pages' = Pages /\ \A n : WordAt(n)' = WordAt(n)
      /\ \A c \in Circuits : Agrees(c)' <=> Agrees(c)
  BY <1>1, SameFile
<1>3. LoadTypes /\ SectionsStand /\ \A c \in Circuits : inisize = Offset(c, l + 1)
  BY DEF LoadInv
<1>4. /\ sections \in Seq(Seq(Word)) /\ l \in Nat /\ inisize \in Nat
      /\ \A s \in 1 .. l : Len(sections[s]) = Sizes[s]
  BY <1>3 DEF LoadTypes
<1>5. l + 1 \in 1 .. 4 /\ z \in Nat
  BY <1>1, <1>4, SizesAre
<1> HIDE DEF z
<1>6. new \in Seq(Word) /\ Len(new) = z /\ \A n \in 1 .. z : new[n] = WordAt(inisize + n)
  <2>1. \A k \in 1 .. z : WordAt(inisize + k) \in Word
    <3>1. \A k \in 1 .. z : inisize + k \in Nat \ {0}
      BY <1>4, <1>5
    <3> QED
      BY <1>3, <3>1, WordAtIs
  <2>2. new \in Seq(Word)
    BY <1>5, <2>1
  <2> QED
    BY <1>5, <2>2
<1> HIDE DEF new
<1>7. sections' \in Seq(Seq(Word)) /\ Len(sections') = l + 1
      /\ \A s \in 1 .. l + 1 : Len(sections'[s]) = Sizes[s]
  <2>1. \A s \in 1 .. l : sections'[s] = sections[s]
    BY <1>1, <1>4
  <2>2. sections'[l + 1] = new
    BY <1>1, <1>4
  <2>3. sections' \in Seq(Seq(Word)) /\ Len(sections') = l + 1
    BY <1>1, <1>4, <1>6
  <2>4. ASSUME NEW s \in 1 .. l + 1 PROVE Len(sections'[s]) = Sizes[s]
    <3>1. CASE s \in 1 .. l
      BY <1>4, <2>1, <3>1
    <3>2. CASE s = l + 1
      BY <1>6, <2>2, <3>2 DEF z
    <3> QED
      BY <1>4, <3>1, <3>2
  <2> QED
    BY <2>3, <2>4
<1>8. flat \in Seq(Nat) /\ new \in Seq(Nat) /\ FlattenSeq(sections') = flat \o new
  <2>1. Word \subseteq Nat
    BY NumbersAre
  <2>2. flat \in Seq(Word)
    BY <1>4, FlattenTypes
  <2>3. Seq(Word) \subseteq Seq(Nat)
    BY <2>1, SeqMonotonic
  <2>4. FlattenSeq(sections') = flat \o new
    BY <1>1, <1>4, <1>6, FlattenAppend
  <2> QED
    BY <1>6, <2>2, <2>3, <2>4
<1>9. Len(flat) = inisize /\ \A n \in 1 .. inisize : flat[n] = WordAt(n)
  BY <1>3 DEF SectionsStand
<1> HIDE DEF flat
<1>10. /\ Len(flat \o new) = inisize + z
       /\ \A n \in 1 .. inisize + z : (flat \o new)[n] = WordAt(n)
  <2> DEFINE zero == 0
  <2>1. zero \in Nat /\ zero + inisize = inisize /\ \A n \in 1 .. inisize : zero + n = n
    BY <1>4
  <2>2. \A n \in 1 .. inisize + z : zero + n = n
    BY <1>4, <1>5
  <2> HIDE DEF zero
  <2>3. Stands(flat, zero) /\ Stands(new, zero + inisize)
    BY <1>6, <1>9, <2>1 DEF Stands
  <2>4. Len(flat \o new) = inisize + Len(new) /\ Stands(flat \o new, zero)
    BY <1>4, <1>8, <1>9, <2>1, <2>3, StandsMore
  <2> QED
    BY <1>6, <2>2, <2>4 DEF Stands
<1>11. SectionsStand'
  BY <1>1, <1>2, <1>8, <1>10 DEF SectionsStand
<1>12. inisize' \in Nat /\ inisize' <= Pages' * PageWords
  BY <1>1, <1>2, <1>4, <1>5
<1>13. LoadTypes'
  <2>1. Len(sections') <= 4
    BY <1>5, <1>7
  <2> QED
    BY <1>1, <1>3, <1>7, <1>12, <2>1 DEF LoadTypes, InBus
<1>14. ~Parsing'
  BY <1>1 DEF Parsing
<1>15. \A c \in Circuits : Follows(c)'
  BY <1>1 DEF Follows
<1>16. \A c \in Circuits : inisize' = Offset(c, Len(sections') + 1)
  <2> SUFFICES ASSUME NEW c \in Circuits PROVE inisize + z = Offset(c, (l + 1) + 1)
    BY <1>1, <1>7
  <2>1. Offset(c, (l + 1) + 1) = Offset(c, l + 1) + z
    BY <1>5, SectionOffset DEF z
  <2> QED
    BY <1>3, <2>1
<1> QED
  BY <1>11, <1>13, <1>14, <1>15, <1>16 DEF LoadInv, ParsingInv, EntriesStand

(* A file that is too short here holds none of the circuits.               *)
LEMMA CheckSizeStep ==
  ASSUME LoadInv, CheckSize
  PROVE  LoadInv'
<1>1. pc = "copy" /\ Len(sections) = 4 /\ NIo \in Nat /\ LoadTypes
  BY NumbersAre DEF CheckSize, LoadInv
<1>2. \A c \in Circuits : inisize = Offset(c, 5) /\ inisize <= Len(Written(c))
  <2> SUFFICES ASSUME NEW c \in Circuits
               PROVE  inisize = Offset(c, 5) /\ inisize <= Len(Written(c))
    OBVIOUS
  <2>1. inisize = Offset(c, 4 + 1)
    BY <1>1 DEF LoadInv
  <2>2. Offset(c, 4 + 1) <= Len(Written(c))
    BY SectionOffset
  <2> QED
    BY <2>1, <2>2
<1>3. inisize \in Nat /\ Len(dat.words) \in Nat /\ dat.rest \in Nat
  BY <1>1 DEF LoadTypes
<1>4. CASE NIo > 0 /\ dat.rest # 0
  <2>1. Ends("aborted")
    BY <1>1, <1>4 DEF CheckSize
  <2> QED
    BY <1>4, <2>1, EndsBadly
<1>5. CASE NIo > 0 /\ dat.rest = 0 /\ inisize > Len(dat.words)
  <2>1. Ends("killed")
    BY <1>1, <1>5 DEF CheckSize
  <2>2. \A c \in Circuits : ~(Len(Written(c)) <= Len(dat.words))
    BY <1>2, <1>3, <1>5, OffsetsAre
  <2> QED
    BY <2>1, <2>2, EndsBadly
<1>6. ASSUME Ends(IF NIo = 0 THEN "loaded" ELSE "entry"),
             NIo > 0 => dat.rest = 0 /\ inisize <= Len(dat.words)
      PROVE  LoadInv'
  <2>1. /\ pc' = (IF NIo = 0 THEN "loaded" ELSE "entry") /\ dat' = dat /\ inisize' = inisize
        /\ sections' = sections /\ pu32' = pu32
        /\ left' = left /\ defs' = defs /\ done' = done
        /\ templateInsId2IOSignalInfo' = templateInsId2IOSignalInfo
        /\ busInsId2FieldInfo' = busInsId2FieldInfo
    BY <1>6 DEF Ends, io
  <2>2. /\ Pages' = Pages /\ \A n : WordAt(n)' = WordAt(n)
        /\ \A c \in Circuits : Agrees(c)' <=> Agrees(c)
    BY <2>1, SameFile
  <2>3. pu32 = 0 /\ done = 0
    BY <1>1 DEF LoadTypes
  <2>4. LoadTypes'
    <3>1. pc' \in {"entry", "loaded"} /\ (pc' = "loaded" => NIo = 0)
      BY <1>1, <2>1
    <3>2. pc' \in Steps
      BY <3>1 DEF Steps
    <3>3. InBus' = InBus
      BY <2>1 DEF InBus
    <3>4. pc' \in {"open", "copy"} \/ (pc' = "loaded" /\ NIo = 0) => pu32' = 0 /\ done' = 0
      BY <2>1, <2>3
    <3>5. pc' = "loaded" /\ NIo > 0 => done' = NIo + NBus
      BY <1>1, <3>1
    <3> QED
      BY <1>1, <2>1, <2>2, <3>2, <3>3, <3>4, <3>5 DEF LoadTypes
  <2>5. SectionsStand'
    BY <2>1, <2>2 DEF LoadInv, SectionsStand
  <2>6. ParsingInv'
    <3>1. InMap' = 0
      BY <1>1, <2>1, <2>3 DEF InMap
    <3>2. Parsing' => NIo > 0
      BY <1>1, <2>1 DEF Parsing
    <3>3. inisize' + pu32' = inisize
      BY <1>3, <2>1, <2>3
    <3> QED
      BY <1>6, <2>1, <3>1, <3>2, <3>3 DEF ParsingInv
  <2>7. EntriesStand'
    <3> SUFFICES ASSUME Parsing' PROVE Len(Parsed') = pu32' /\ \A n \in 1 .. pu32' : FALSE
      BY DEF EntriesStand
    <3>1. Taken' = << >>
      BY <2>1, <2>3 DEF Taken
    <3>2. EntriesWords(<< >>) = << >>
      BY DEF EntriesWords
    <3>3. Partial' = << >>
      BY <2>1 DEF Partial
    <3>4. Parsed' = << >>
      <4>1. << >> \o << >> = << >>
        OBVIOUS
      <4> QED
        BY <3>1, <3>2, <3>3, <4>1, FlattenNone DEF Parsed
    <3> QED
      BY <2>1, <2>3, <3>4
  <2>8. ASSUME NEW c \in Circuits PROVE Follows(c)'
    <3>1. inisize' + pu32' = Offset(c, done' + 5)
      BY <1>2, <1>3, <2>1, <2>3
    <3> QED
      BY <2>1, <3>1 DEF Follows
  <2>9. \A c \in Circuits : inisize' = Offset(c, Len(sections') + 1)
    BY <2>1 DEF LoadInv
  <2> QED
    BY <2>4, <2>5, <2>6, <2>7, <2>8, <2>9 DEF LoadInv
<1>7. CASE NIo = 0
  BY <1>1, <1>6, <1>7 DEF CheckSize
<1>8. CASE NIo > 0 /\ dat.rest = 0 /\ inisize <= Len(dat.words)
  <2>1. Ends("entry") /\ NIo # 0
    BY <1>1, <1>3, <1>8 DEF CheckSize
  <2> QED
    BY <1>6, <1>8, <2>1
<1> QED
  BY <1>1, <1>3, <1>4, <1>5, <1>7, <1>8

(* The number of definitions is the first word of the entry.               *)
LEMMA ReadEntryStep ==
  ASSUME LoadInv, ReadEntry
  PROVE  LoadInv'
<1> DEFINE p == inisize + pu32
<1>1. /\ pc = "entry" /\ done < NIo + NBus /\ LoadTypes /\ ParsingInv /\ Parsing
      /\ dat.rest = 0 /\ NIo > 0 /\ done \in Nat /\ NIo \in Nat /\ NBus \in Nat
  BY NumbersAre DEF ReadEntry, LoadInv, Parsing, LoadTypes, ParsingInv
<1>2. inisize \in Nat /\ pu32 \in Nat /\ p \in Nat /\ Len(dat.words) \in Nat
  BY <1>1 DEF LoadTypes
<1>3. ASSUME NEW c \in Circuits, Agrees(c)
      PROVE  LET e == c.entries[done + 1]
             IN  /\ p = Offset(c, done + 5) /\ p + 1 <= Len(Written(c)) /\ Len(Written(c)) \in Nat
                 /\ e \in Seq(FieldDef) /\ Written(c)[p + 1] = Len(e)
  <2> DEFINE k == done + 1
             e == c.entries[k]
             w == Written(c)
             f == FlattenSeq(DefsWords(e))
  <2>1. k \in 1 .. NIo + NBus /\ k + 4 = done + 5
    BY <1>1
  <2>2. p = Offset(c, k + 4)
    BY <1>1, <1>3, <2>1 DEF LoadInv, Follows
  <2> HIDE DEF k
  <2>3. /\ e \in Seq(FieldDef) /\ Len(f) \in Nat /\ Offset(c, k + 5) = Offset(c, k + 4) + 1 + Len(f)
        /\ Offset(c, k + 5) <= Len(w) /\ w[Offset(c, k + 4) + 1] = Len(e) /\ Len(w) \in Nat
    BY <2>1, EntryOffset, OffsetsAre
  <2> HIDE DEF e, f, w, p
  <2>4. p + 1 <= Len(w)
    BY <1>2, <2>2, <2>3
  <2> QED
    BY <2>1, <2>2, <2>3, <2>4 DEF e, k, w
<1> HIDE DEF p
<1>4. CASE ~Has(1)
  <2>1. Ends("undefined")
    BY <1>4 DEF ReadEntry
  <2>2. \A c \in Circuits : Agrees(c) => ~(Len(Written(c)) <= Len(dat.words))
    <3>1. ~(p + 1 <= Len(dat.words))
      BY <1>4 DEF Has, p
    <3> QED
      BY <1>2, <1>3, <3>1
  <2> QED
    BY <2>1, <2>2, EndsBadly
<1>5. CASE Has(1)
  <2>1. /\ pc' = "def" /\ left' = At(1) /\ defs' = << >> /\ pu32' = pu32 + 1
        /\ dat' = dat /\ inisize' = inisize /\ sections' = sections /\ done' = done
        /\ templateInsId2IOSignalInfo' = templateInsId2IOSignalInfo
        /\ busInsId2FieldInfo' = busInsId2FieldInfo
    BY <1>5 DEF ReadEntry, io
  <2>2. /\ Pages' = Pages /\ \A n : WordAt(n)' = WordAt(n)
        /\ \A c \in Circuits : Agrees(c)' <=> Agrees(c)
    BY <2>1, SameFile
  <2>3. p + 1 <= Len(dat.words) /\ At(1) = WordAt(p + 1)
    BY <1>5 DEF Has, At, p
  <2>4. WordAt(p + 1) \in Nat
    <3>1. p + 1 \in Nat \ {0}
      BY <1>2
    <3> QED
      BY <1>1, <3>1, WordAtIs
  <2>5. LoadTypes'
    <3>1. pu32 + 1 \in Nat /\ pu32 + 1 <= Len(dat.words)
      BY <1>2, <2>3 DEF p
    <3>2. defs' \in Seq(FieldDef)
      BY <2>1
    <3> QED
      BY <1>1, <2>1, <2>2, <2>3, <2>4, <3>1, <3>2 DEF LoadTypes, InBus, Steps
  <2>6. SectionsStand'
    BY <2>1, <2>2 DEF LoadInv, SectionsStand
  <2>7. inisize' + pu32' = p + 1
    BY <1>2, <2>1 DEF p
  <2>8. ParsingInv'
    <3>1. InMap' = InMap
      BY <2>1 DEF InMap
    <3> QED
      BY <1>1, <2>1, <2>3, <2>7, <3>1 DEF ParsingInv
  <2>9. EntriesStand'
    <3> SUFFICES ASSUME IsInjective(sections[4])
                 PROVE  Len(Parsed') = pu32' /\ \A n \in 1 .. pu32' : Parsed'[n] = WordAt(inisize + n)
      BY <2>1, <2>2 DEF EntriesStand
    <3> DEFINE x == FlattenSeq(EntriesWords(Taken))
               y == <<WordAt(p + 1)>>
    <3>1. x \in Seq(Nat) /\ y \in Seq(Nat) /\ Len(y) = 1 /\ y[1] = WordAt(p + 1)
      BY <1>1, <2>4, TakenAre
    <3>2. Taken' = Taken
      BY <2>1 DEF Taken
    <3>3. Parsed = x
      <4>1. Partial = << >>
        BY <1>1 DEF Partial
      <4>2. x \o << >> = x
        BY <3>1, ConcatEmptySeq
      <4> QED
        BY <4>1, <4>2 DEF Parsed
    <3>4. Parsed' = x \o y
      <4>1. DefsWords(<< >>) = << >>
        BY DEF DefsWords
      <4>2. Partial' = <<At(1) + Len(<< >>)>> \o << >>
        BY <2>1, <4>1, FlattenNone DEF Partial
      <4>3. At(1) + Len(<< >>) = WordAt(p + 1)
        BY <2>3, <2>4
      <4>4. y \o << >> = y
        BY <3>1, ConcatEmptySeq
      <4> HIDE DEF x
      <4> QED
        BY <3>2, <4>2, <4>3, <4>4 DEF Parsed, x
    <3>5. Len(x) = pu32 /\ \A n \in 1 .. pu32 : x[n] = WordAt(inisize + n)
      BY <1>1, <3>3 DEF LoadInv, EntriesStand
    <3> DEFINE one == 1
    <3>6. one \in Nat /\ Len(y) = one /\ \A n \in 1 .. one : y[n] = WordAt(inisize + pu32 + n)
      BY <3>1 DEF p
    <3> HIDE DEF x, y, one
    <3>7. /\ Len(x \o y) = pu32 + one
          /\ \A n \in 1 .. pu32 + one : (x \o y)[n] = WordAt(inisize + n)
      <4>1. Stands(x, inisize) /\ Stands(y, inisize + pu32)
        BY <3>5, <3>6 DEF Stands
      <4>2. Len(x \o y) = pu32 + one /\ Stands(x \o y, inisize)
        BY <1>2, <3>1, <3>5, <3>6, <4>1, StandsMore
      <4> QED
        BY <4>2 DEF Stands
    <3> QED
      BY <2>1, <3>4, <3>7 DEF one
  <2>10. ASSUME NEW c \in Circuits, Agrees(c)' PROVE Follows(c)'
    <3> DEFINE e == c.entries[done + 1]
    <3>1. Agrees(c)
      BY <2>2, <2>10
    <3>2. /\ p = Offset(c, done + 5) /\ p + 1 <= Len(Written(c)) /\ Len(Written(c)) \in Nat
          /\ e \in Seq(FieldDef) /\ Written(c)[p + 1] = Len(e)
      BY <1>3, <3>1
    <3>3. WordAt(p + 1) = Len(e)
      <4>1. p + 1 \in 1 .. Len(Written(c))
        BY <1>2, <3>2
      <4> HIDE DEF e
      <4> QED
        BY <1>1, <2>3, <3>1, <3>2, <4>1, AgreesAt
    <3>4. Preceding(DefsWords(e), 1) = << >>
      BY <3>2, DefsWordsAre, PrecedingFirst
    <3>5. /\ left' + Len(defs') = Len(e)
          /\ Len(Preceding(DefsWords(e), Len(defs') + 1)) = 0
      <4>1. Len(e) \in Nat /\ left' = Len(e)
        BY <2>1, <2>3, <3>2, <3>3
      <4>2. Len(defs') = 0 /\ Len(<< >>) = 0
        BY <2>1
      <4> HIDE DEF e
      <4> QED
        BY <3>4, <4>1, <4>2
    <3>6. inisize' + pu32' = Offset(c, done + 5) + 1 + 0
      BY <1>2, <2>7, <3>2
    <3> HIDE DEF e
    <3>7. /\ left' + Len(defs') = Len(c.entries[done' + 1])
          /\ inisize' + pu32' = Offset(c, done' + 5) + 1
                                  + Len(Preceding(DefsWords(c.entries[done' + 1]), Len(defs') + 1))
      BY <2>1, <3>5, <3>6 DEF e
    <3> QED
      BY <1>1, <2>1, <3>7 DEF Follows
  <2>11. \A c \in Circuits : inisize' = Offset(c, Len(sections') + 1)
    BY <2>1 DEF LoadInv
  <2> QED
    BY <2>5, <2>6, <2>8, <2>9, <2>10, <2>11 DEF LoadInv
<1> QED
  BY <1>4, <1>5

(* The words that make the definition are the words that would be written  *)
(* for it, and in a file that was written none is missing.                 *)
LEMMA ReadDefStep ==
  ASSUME LoadInv, ReadDef
  PROVE  LoadInv'
<1> DEFINE p == inisize + pu32
           m == Len(defs)
           j == m + 1
<1>1. /\ pc = "def" /\ left > 0 /\ LoadTypes /\ ParsingInv /\ Parsing /\ dat.rest = 0 /\ NIo > 0
      /\ done < NIo + NBus /\ done \in Nat /\ NIo \in Nat /\ NBus \in Nat
  BY NumbersAre DEF ReadDef, LoadInv, Parsing, LoadTypes, ParsingInv
<1>2. /\ inisize \in Nat /\ pu32 \in Nat /\ p \in Nat /\ Len(dat.words) \in Nat
      /\ left \in Nat /\ defs \in Seq(FieldDef) /\ m \in Nat
  BY <1>1 DEF LoadTypes
<1> HIDE DEF p, m
<1>3. ASSUME NEW c \in Circuits, Agrees(c)
      PROVE  LET e == c.entries[done + 1]
                 l == Len(e[j].lengths)
             IN  /\ left + m = Len(e) /\ l \in Nat /\ Len(Written(c)) \in Nat
                 /\ p + l + 4 <= Len(Written(c)) /\ Written(c)[p + 2] = l
                 /\ Offset(c, done + 5) + 1 + Len(Preceding(DefsWords(e), j + 1)) = p + l + 4
  <2> DEFINE k == done + 1
             e == c.entries[k]
             l == Len(e[j].lengths)
             w == Written(c)
             x == DefWords(e[j])
             o == Offset(c, k + 4) + 1 + Len(Preceding(DefsWords(e), j))
             r == Offset(c, k + 4) + 1 + Len(Preceding(DefsWords(e), j + 1))
  <2>1. k \in 1 .. NIo + NBus /\ k + 4 = done + 5
    BY <1>1
  <2>2. p = o /\ left + m = Len(e)
    BY <1>1, <1>3, <2>1 DEF LoadInv, Follows, p, m
  <2> HIDE DEF k
  <2>3. j \in 1 .. Len(e)
    <3> HIDE DEF e
    <3> QED
      BY <1>1, <1>2, <2>2
  <2>4. /\ e[j] \in FieldDef /\ r = o + Len(x) /\ o + Len(x) <= Len(w)
        /\ \A n \in 1 .. Len(x) : w[o + n] = x[n]
    BY <2>1, <2>3, DefOffset
  <2>5. Len(w) \in Nat
    BY OffsetsAre
  <2>6. l \in Nat /\ Len(x) = l + 4 /\ x[2] = l
    BY <2>4, DefWordsAre
  <2> HIDE DEF e, l, w, x, o, r, j
  <2>7. w[p + 2] = l /\ p + l + 4 <= Len(w) /\ r = p + l + 4
    <3>1. 2 \in 1 .. Len(x)
      BY <2>6
    <3>2. w[o + 2] = x[2]
      BY <2>4, <3>1
    <3>3. o + (l + 4) = p + l + 4
      BY <1>2, <2>2, <2>6
    <3> QED
      BY <2>2, <2>4, <2>6, <3>2, <3>3
  <2> QED
    BY <2>1, <2>2, <2>5, <2>6, <2>7 DEF e, l, w, k, r
<1> HIDE DEF j
<1>4. ASSUME NEW c \in Circuits, Agrees(c), p + 2 <= Len(dat.words)
      PROVE  At(2) = Len(c.entries[done + 1][j].lengths)
  <2> DEFINE l == Len(c.entries[done + 1][j].lengths)
             w == Written(c)
  <2>1. l \in Nat /\ Len(w) \in Nat /\ p + l + 4 <= Len(w) /\ w[p + 2] = l
    BY <1>3, <1>4
  <2>2. p + 2 \in 1 .. Len(w)
    <3> HIDE DEF l, w
    <3> QED
      BY <1>2, <2>1
  <2>3. WordAt(p + 2) = w[p + 2]
    BY <1>1, <1>4, <2>2, AgreesAt
  <2> QED
    BY <2>1, <2>3 DEF At, p
<1>5. CASE ~(Has(2) /\ Has(4 + At(2)))
  <2>1. Ends("undefined")
    BY <1>5 DEF ReadDef
  <2>2. \A c \in Circuits : Agrees(c) => ~(Len(Written(c)) <= Len(dat.words))
    <3> SUFFICES ASSUME NEW c \in Circuits, Agrees(c), Len(Written(c)) <= Len(dat.words)
                 PROVE  Has(2) /\ Has(4 + At(2))
      BY <1>5
    <3> DEFINE l == Len(c.entries[done + 1][j].lengths)
    <3>1. l \in Nat /\ Len(Written(c)) \in Nat /\ p + l + 4 <= Len(Written(c))
      BY <1>3
    <3> HIDE DEF l
    <3>2. p + 2 <= Len(dat.words) /\ p + (4 + l) <= Len(dat.words)
      BY <1>2, <3>1
    <3>3. At(2) = l
      BY <1>4, <3>2 DEF l
    <3> QED
      BY <3>2, <3>3 DEF Has, p
  <2> QED
    BY <2>1, <2>2, EndsBadly
<1>6. CASE Has(2) /\ Has(4 + At(2))
  <2> DEFINE len == At(2)
             d == [offset  |-> At(1), lengths |-> [k \in 1 .. len |-> At(k + 2)],
                   size    |-> At(len + 3), busId |-> At(len + 4)]
             x == DefWords(d)
  <2>1. /\ defs' = Append(defs, d) /\ pu32' = pu32 + len + 4 /\ left' = left - 1
        /\ dat' = dat /\ pc' = pc /\ inisize' = inisize /\ sections' = sections /\ done' = done
        /\ templateInsId2IOSignalInfo' = templateInsId2IOSignalInfo
        /\ busInsId2FieldInfo' = busInsId2FieldInfo
    BY <1>6 DEF ReadDef, io
  <2>2. /\ Pages' = Pages /\ \A n : WordAt(n)' = WordAt(n)
        /\ \A c \in Circuits : Agrees(c)' <=> Agrees(c)
    BY <2>1, SameFile
  <2>3. ASSUME NEW n \in Nat \ {0} PROVE At(n) \in Word /\ At(n) \in Nat /\ At(n) = WordAt(p + n)
    <3>1. p + n \in Nat \ {0}
      BY <1>2
    <3> QED
      BY <1>1, <3>1, WordAtIs DEF At, p
  <2>4. len \in Nat /\ p + 2 <= Len(dat.words) /\ p + (4 + len) <= Len(dat.words)
    BY <1>6, <2>3 DEF Has, p
  <2> HIDE DEF len
  <2>5. /\ d \in FieldDef /\ Len(d.lengths) = len /\ d.offset = At(1)
        /\ \A k \in 1 .. len : d.lengths[k] = At(k + 2)
        /\ d.size = At(len + 3) /\ d.busId = At(len + 4)
    <3> DEFINE g == [k \in 1 .. len |-> At(k + 2)]
    <3>1. \A k \in 1 .. len : At(k + 2) \in Word
      <4>1. \A k \in 1 .. len : k + 2 \in Nat \ {0}
        BY <2>4
      <4> QED
        BY <2>3, <4>1
    <3>2. g \in Seq(Word) /\ Len(g) = len /\ \A k \in 1 .. len : g[k] = At(k + 2)
      BY <2>4, <3>1
    <3> HIDE DEF g
    <3>3. At(1) \in Word /\ At(len + 3) \in Word /\ At(len + 4) \in Word
      <4>1. 1 \in Nat \ {0} /\ len + 3 \in Nat \ {0} /\ len + 4 \in Nat \ {0}
        BY <2>4
      <4> QED
        BY <2>3, <4>1
    <3> DEFINE v == [offset  |-> At(1), lengths |-> g, size    |-> At(len + 3), busId |-> At(len + 4)]
    <3>4. /\ v \in FieldDef /\ Len(v.lengths) = len /\ v.offset = At(1)
          /\ \A k \in 1 .. len : v.lengths[k] = At(k + 2)
          /\ v.size = At(len + 3) /\ v.busId = At(len + 4)
      BY <3>2, <3>3 DEF FieldDef
    <3> QED
      BY <3>4 DEF g
  <2> HIDE DEF d
  <2>6. /\ x \in Seq(Nat) /\ Len(x) = len + 4 /\ x[1] = At(1) /\ x[2] = len
        /\ \A k \in 1 .. len : x[k + 2] = At(k + 2)
        /\ x[len + 3] = At(len + 3) /\ x[len + 4] = At(len + 4)
    BY <2>5, DefWordsAre
  <2> HIDE DEF x
  <2>7. \A n \in 1 .. len + 4 : x[n] = At(n)
    <3> SUFFICES ASSUME NEW n \in 1 .. len + 4 PROVE x[n] = At(n)
      OBVIOUS
    <3>1. CASE n \in 3 .. len + 2
      <4> DEFINE k == n - 2
      <4>1. k \in 1 .. len /\ k + 2 = n
        BY <2>4, <3>1
      <4> HIDE DEF k
      <4> QED
        BY <2>6, <4>1
    <3>2. n \in {1, 2, len + 3, len + 4} \/ n \in 3 .. len + 2
      BY <2>4
    <3>3. CASE n = 2
      BY <2>6, <3>3 DEF len
    <3> QED
      BY <2>6, <3>1, <3>2, <3>3
  <2>8. Stands(x, inisize + pu32)
    <3>1. ASSUME NEW n \in 1 .. Len(x) PROVE x[n] = WordAt(p + n)
      <4>1. n \in 1 .. len + 4 /\ n \in Nat \ {0}
        BY <2>4, <2>6
      <4> QED
        BY <2>3, <2>7, <4>1
    <3> QED
      BY <3>1 DEF Stands, p
  <2>9. defs' \in Seq(FieldDef) /\ Len(defs') = m + 1
    BY <1>2, <2>1, <2>5 DEF m
  <2>10. LoadTypes'
    <3>1. pu32' \in Nat /\ pu32' <= Len(dat.words) /\ left' \in Nat
      BY <1>1, <1>2, <2>1, <2>4 DEF p
    <3>2. InBus' = InBus
      BY <2>1 DEF InBus
    <3> QED
      BY <1>1, <2>1, <2>2, <2>9, <3>1, <3>2 DEF LoadTypes
  <2>11. SectionsStand'
    BY <2>1, <2>2 DEF LoadInv, SectionsStand
  <2>12. inisize' + pu32' = p + len + 4
    BY <1>2, <2>1, <2>4 DEF p
  <2>13. ParsingInv'
    <3>1. InMap' = InMap
      BY <2>1 DEF InMap
    <3>2. inisize' + pu32' <= Len(dat'.words)
      BY <1>2, <2>1, <2>4, <2>12
    <3> QED
      BY <1>1, <2>1, <3>1, <3>2 DEF ParsingInv
  <2>14. EntriesStand'
    <3> SUFFICES ASSUME IsInjective(sections[4])
                 PROVE  Len(Parsed') = pu32' /\ \A n \in 1 .. pu32' : Parsed'[n] = WordAt(inisize + n)
      BY <2>1, <2>2 DEF EntriesStand
    <3> DEFINE a == FlattenSeq(EntriesWords(Taken))
               h == <<left + Len(defs)>>
               f == FlattenSeq(DefsWords(defs))
    <3>1. a \in Seq(Nat) /\ h \in Seq(Nat) /\ f \in Seq(Nat)
      BY <1>1, <1>2, TakenAre, DefsWordsAre DEF m
    <3>2. Parsed = a \o (h \o f)
      BY <1>1 DEF Parsed, Partial
    <3>3. Parsed' = a \o (h \o (f \o x))
      <4>1. Taken' = Taken
        BY <2>1 DEF Taken
      <4>2. FlattenSeq(DefsWords(defs')) = f \o x
        BY <1>2, <2>1, <2>5, DefsWordsAppend DEF x
      <4>3. left' + Len(defs') = left + Len(defs)
        BY <1>2, <2>1, <2>9 DEF m
      <4>4. Partial' = h \o (f \o x)
        <5> HIDE DEF f
        <5> QED
          BY <1>1, <2>1, <4>2, <4>3 DEF Partial
      <4> HIDE DEF a, h, f
      <4> QED
        BY <4>1, <4>4 DEF Parsed, a
    <3> DEFINE y == a \o (h \o f)
    <3>4. y \in Seq(Nat) /\ a \o (h \o (f \o x)) = y \o x
      <4> HIDE DEF a, h, f
      <4>1. a \in Seq(Nat) /\ h \in Seq(Nat) /\ f \in Seq(Nat) /\ x \in Seq(Nat)
        BY <2>6, <3>1
      <4>2. h \o f \in Seq(Nat) /\ h \o (f \o x) = (h \o f) \o x
        <5>1. Associate(Nat, h, f, x)
          BY <4>1, SeqsAssociate, Zenon
        <5> QED
          BY <5>1 DEF Associate
      <4> DEFINE g == h \o f
      <4> HIDE DEF g
      <4>3. g \in Seq(Nat)
        BY <4>2 DEF g
      <4>4. a \o g \in Seq(Nat) /\ a \o (g \o x) = (a \o g) \o x
        <5>1. Associate(Nat, a, g, x)
          BY <4>1, <4>3, SeqsAssociate, Zenon
        <5> QED
          BY <5>1 DEF Associate
      <4> QED
        BY <4>2, <4>4 DEF g
    <3>5. Len(y) = pu32 /\ Stands(y, inisize)
      BY <1>1, <3>2 DEF LoadInv, EntriesStand, Stands
    <3> HIDE DEF y, a, h, f
    <3>6. Len(y \o x) = pu32 + Len(x) /\ Stands(y \o x, inisize)
      BY <1>2, <2>6, <2>8, <3>4, <3>5, StandsMore
    <3>7. pu32' = pu32 + Len(x)
      BY <1>2, <2>1, <2>4, <2>6
    <3> QED
      BY <3>3, <3>4, <3>6, <3>7 DEF Stands
  <2>15. ASSUME NEW c \in Circuits, Agrees(c)' PROVE Follows(c)'
    <3> DEFINE e == c.entries[done + 1]
               l == Len(e[j].lengths)
               b == Len(Preceding(DefsWords(e), j + 1))
    <3>1. Agrees(c)
      BY <2>2, <2>15
    <3>2. left + m = Len(e) /\ Offset(c, done + 5) + 1 + b = p + l + 4
      BY <1>3, <3>1
    <3>3. len = l
      BY <1>4, <2>4, <3>1 DEF len
    <3>4. left' + Len(defs') = Len(e)
      <4> HIDE DEF e
      <4> QED
        BY <1>2, <2>1, <2>9, <3>2
    <3>5. inisize' + pu32' = Offset(c, done + 5) + 1 + b /\ Len(defs') + 1 = j + 1
      BY <2>9, <2>12, <3>2, <3>3 DEF j
    <3> HIDE DEF e
    <3>6. /\ left' + Len(defs') = Len(c.entries[done' + 1])
          /\ inisize' + pu32' = Offset(c, done' + 5) + 1
                                  + Len(Preceding(DefsWords(c.entries[done' + 1]), Len(defs') + 1))
      BY <2>1, <3>4, <3>5 DEF e
    <3> QED
      BY <1>1, <2>1, <3>6 DEF Follows
  <2>16. \A c \in Circuits : inisize' = Offset(c, Len(sections') + 1)
    BY <2>1 DEF LoadInv
  <2> QED
    BY <2>10, <2>11, <2>13, <2>14, <2>15, <2>16 DEF LoadInv
<1> QED
  BY <1>5, <1>6

(* With its last definition an entry is done, and the pointer is at the    *)
(* next one.                                                               *)
LEMMA EntryDone ==
  ASSUME LoadInv, pc = "def", left = 0, pc' = "entry", done' = done + 1,
         UNCHANGED <<dat, inisize, sections, pu32, left, defs>>,
         busInsId2FieldInfo' \in Seq(Seq(FieldDef)) /\ Len(busInsId2FieldInfo') = InBus',
         \A t \in DOMAIN templateInsId2IOSignalInfo' : templateInsId2IOSignalInfo'[t] \in Seq(FieldDef),
         \A n \in 1 .. InMap' : sections[4][n] \in DOMAIN templateInsId2IOSignalInfo',
         IsInjective(sections[4]) => Taken' = Append(Taken, defs)
  PROVE  LoadInv'
<1>1. /\ LoadTypes /\ ParsingInv /\ Parsing /\ dat.rest = 0 /\ NIo > 0
      /\ done < NIo + NBus /\ done \in Nat /\ NIo \in Nat /\ NBus \in Nat
      /\ inisize \in Nat /\ pu32 \in Nat /\ defs \in Seq(FieldDef) /\ Len(defs) \in Nat
  BY NumbersAre DEF LoadInv, Parsing, LoadTypes, ParsingInv
<1>2. /\ Pages' = Pages /\ \A n : WordAt(n)' = WordAt(n)
      /\ \A c \in Circuits : Agrees(c)' <=> Agrees(c)
  BY SameFile
<1>3. LoadTypes'
  <2>1. pc' \in Steps /\ done' \in 0 .. NIo + NBus
    BY <1>1 DEF Steps
  <2> QED
    BY <1>1, <1>2, <2>1 DEF LoadTypes
<1>4. SectionsStand'
  BY <1>2 DEF LoadInv, SectionsStand
<1>5. ParsingInv'
  BY <1>1 DEF ParsingInv
<1>6. EntriesStand'
  <2> SUFFICES ASSUME IsInjective(sections[4]) PROVE Parsed' = Parsed
    <3>1. Parsing'
      BY DEF Parsing
    <3>2. IsInjective(sections[4])' <=> IsInjective(sections[4])
      OBVIOUS
    <3> QED
      BY <1>1, <1>2, <3>2 DEF LoadInv, EntriesStand
  <2> DEFINE a == FlattenSeq(EntriesWords(Taken))
             x == EntryWords(defs)
  <2>1. Taken \in Seq(Seq(FieldDef)) /\ a \in Seq(Nat) /\ x \in Seq(Nat)
    BY <1>1, TakenAre, EntryWordsAre
  <2>2. FlattenSeq(EntriesWords(Taken')) = a \o x
    BY <1>1, <2>1, EntriesWordsAppend
  <2>3. Parsed = a \o x
    <3>1. Partial = <<Len(defs)>> \o FlattenSeq(DefsWords(defs))
      <4>1. left + Len(defs) = Len(defs)
        BY <1>1
      <4> QED
        BY <4>1 DEF Partial
    <3>2. Partial = x
      BY <3>1 DEF EntryWords
    <3> QED
      BY <3>2 DEF Parsed
  <2>4. Parsed' = (a \o x) \o << >>
    <3>1. Partial' = << >>
      BY DEF Partial
    <3> HIDE DEF a, x
    <3> QED
      BY <2>2, <3>1 DEF Parsed
  <2>5. (a \o x) \o << >> = a \o x
    <3> HIDE DEF a, x
    <3>1. a \o x \in Seq(Nat)
      BY <2>1
    <3> QED
      BY <3>1, ConcatEmptySeq
  <2> QED
    BY <2>3, <2>4, <2>5
<1>7. ASSUME NEW c \in Circuits, Agrees(c)' PROVE Follows(c)'
  <2> DEFINE k == done + 1
             e == c.entries[k]
             d == DefsWords(e)
             f == FlattenSeq(d)
             o == Offset(c, k + 4)
             q == Len(Preceding(d, Len(e) + 1))
  <2>1. Agrees(c) /\ k \in 1 .. NIo + NBus /\ k + 4 = done + 5 /\ k + 5 = done' + 5
    BY <1>1, <1>2, <1>7
  <2>2. left + Len(defs) = Len(e) /\ inisize + pu32 = o + 1 + Len(Preceding(d, Len(defs) + 1))
    BY <2>1 DEF LoadInv, Follows
  <2> HIDE DEF k
  <2>3. e \in Seq(FieldDef) /\ Len(f) \in Nat /\ o \in Nat /\ Offset(c, k + 5) = o + 1 + Len(f)
    BY <2>1, EntryOffset
  <2>4. d \in Seq(Seq(Nat)) /\ Len(d) = Len(e)
    BY <2>3, DefsWordsAre
  <2>5. q = Len(f)
    <3> HIDE DEF d
    <3> QED
      BY <2>4, PrecedingAll
  <2>6. Len(defs) = Len(e)
    <3> HIDE DEF e
    <3> QED
      BY <1>1, <2>2
  <2>7. inisize + pu32 = Offset(c, k + 5)
    <3>1. inisize + pu32 = o + 1 + q
      BY <2>2, <2>6
    <3> HIDE DEF o, q, f
    <3> QED
      BY <2>3, <2>5, <3>1
  <2>8. inisize' + pu32' = Offset(c, done' + 5)
    BY <2>1, <2>7
  <2> QED
    BY <2>8 DEF Follows
<1>8. \A c \in Circuits : inisize' = Offset(c, Len(sections') + 1)
  BY DEF LoadInv
<1> QED
  BY <1>3, <1>4, <1>5, <1>6, <1>7, <1>8 DEF LoadInv

(* What extends a sequence by one element is Append.                       *)
LEMMA AppendIs ==
  ASSUME NEW X, NEW s \in Seq(X), NEW v \in X, NEW N \in Nat, Len(s) = N,
         NEW t, t = [n \in 1 .. N + 1 |-> t[n]], t[N + 1] = v, \A n \in 1 .. N : t[n] = s[n]
  PROVE  t = Append(s, v)
<1>1. t \in Seq(X) /\ Len(t) = N + 1
  <2>1. \A n \in 1 .. N + 1 : t[n] \in X
    <3>1. ASSUME NEW n \in 1 .. N + 1 PROVE t[n] \in X
      <4>1. n \in 1 .. N \/ n = N + 1
        OBVIOUS
      <4>2. \A i \in 1 .. N : s[i] \in X
        OBVIOUS
      <4> QED
        BY <4>1, <4>2
    <3> QED
      BY <3>1
  <2> QED
    BY <2>1
<1>2. Append(s, v) \in Seq(X) /\ Len(Append(s, v)) = N + 1
      /\ Append(s, v)[N + 1] = v /\ \A n \in 1 .. N : Append(s, v)[n] = s[n]
  OBVIOUS
<1> DEFINE u == Append(s, v)
<1> HIDE DEF u
<1>3. \A n \in 1 .. N + 1 : t[n] = u[n]
  <2>1. ASSUME NEW n \in 1 .. N + 1 PROVE t[n] = u[n]
    <3>1. n \in 1 .. N \/ n = N + 1
      OBVIOUS
    <3> QED
      BY <1>2, <3>1 DEF u
  <2> QED
    BY <2>1
<1>4. u \in Seq(X) /\ Len(u) = N + 1
  BY <1>2 DEF u
<1>5. t = u
  BY <1>1, <1>3, <1>4
<1> QED
  BY <1>5 DEF u

(* A bus is the next of its list; an entry of the io map replaces none     *)
(* that the index names, if the index is injective.                        *)
LEMMA EndEntryStep ==
  ASSUME LoadInv, EndEntry
  PROVE  LoadInv'
<1>1. /\ pc = "def" /\ left = 0 /\ LoadTypes /\ ParsingInv /\ Parsing
      /\ done < NIo + NBus /\ done \in Nat /\ NIo \in Nat /\ NBus \in Nat
      /\ defs \in Seq(FieldDef) /\ Len(defs) \in Nat
      /\ busInsId2FieldInfo \in Seq(Seq(FieldDef)) /\ Len(busInsId2FieldInfo) = InBus
      /\ \A t \in DOMAIN templateInsId2IOSignalInfo : templateInsId2IOSignalInfo[t] \in Seq(FieldDef)
      /\ \A n \in 1 .. InMap : sections[4][n] \in DOMAIN templateInsId2IOSignalInfo
  BY NumbersAre DEF EndEntry, LoadInv, Parsing, LoadTypes, ParsingInv
<1>2. Taken \in Seq(Seq(FieldDef)) /\ Len(Taken) = done
  BY <1>1, TakenAre
<1>3. CASE done >= NIo /\ Len(defs) > BusFields /\ Ends("undefined")
  <2> SUFFICES ASSUME NEW c \in Circuits, Agrees(c) PROVE FALSE
    BY <1>3, EndsBadly
  <2> DEFINE k == done + 1
             e == c.entries[k]
  <2>1. left + Len(defs) = Len(e)
    BY <1>1 DEF LoadInv, Follows
  <2>2. k \in NIo + 1 .. NIo + NBus
    BY <1>1, <1>3
  <2> HIDE DEF k
  <2>3. Len(e) <= BusFields
    BY <2>2, CircuitsAssumption
  <2> HIDE DEF e
  <2> QED
    BY <1>1, <1>3, <2>1, <2>3, NumbersAre
<1>4. CASE /\ done >= NIo /\ busInsId2FieldInfo' = Append(busInsId2FieldInfo, defs)
           /\ done' = done + 1 /\ pc' = "entry"
           /\ UNCHANGED <<dat, inisize, sections, pu32, left, defs, templateInsId2IOSignalInfo>>
  <2>1. InMap' = InMap /\ InBus = done - NIo /\ InBus' = InBus + 1
    BY <1>1, <1>4 DEF InMap, InBus
  <2>2. /\ busInsId2FieldInfo' \in Seq(Seq(FieldDef)) /\ Len(busInsId2FieldInfo') = InBus'
        /\ busInsId2FieldInfo'[(done + 1) - NIo] = defs
        /\ \A n \in 1 .. done - NIo : busInsId2FieldInfo'[n] = busInsId2FieldInfo[n]
    <3> DEFINE N == done - NIo
    <3>1. N \in Nat /\ Len(busInsId2FieldInfo) = N /\ (done + 1) - NIo = N + 1 /\ InBus' = N + 1
      BY <1>1, <1>4, <2>1
    <3> HIDE DEF N
    <3> QED
      BY <1>1, <1>4, <3>1 DEF N
  <2>3. Taken' = Append(Taken, defs)
    <3>1. Taken' = [n \in 1 .. done + 1 |-> IF n <= NIo THEN templateInsId2IOSignalInfo[sections[4][n]]
                                                       ELSE busInsId2FieldInfo'[n - NIo]]
      BY <1>4 DEF Taken
    <3>2. Taken' = [n \in 1 .. done + 1 |-> Taken'[n]]
      BY <3>1
    <3>3. Taken'[done + 1] = defs
      <4>1. done + 1 \in 1 .. done + 1 /\ ~(done + 1 <= NIo)
        BY <1>1, <1>4
      <4>2. Taken'[done + 1] = busInsId2FieldInfo'[(done + 1) - NIo]
        BY <3>1, <4>1
      <4> QED
        BY <2>2, <4>2, Zenon
    <3>4. ASSUME NEW n \in 1 .. done PROVE Taken'[n] = Taken[n]
      <4>1. n \in 1 .. done + 1 /\ (n > NIo => n - NIo \in 1 .. done - NIo)
        BY <1>1
      <4>2. n <= NIo \/ n > NIo
        BY <1>1
      <4> QED
        BY <1>1, <1>4, <2>2, <4>1, <4>2 DEF Taken
    <3> QED
      BY <1>1, <1>2, <3>2, <3>3, <3>4, AppendIs
  <2> QED
    BY <1>1, <1>4, <2>1, <2>2, <2>3, EntryDone
<1>5. CASE /\ done < NIo
           /\ LET id == sections[4][done + 1]
              IN  templateInsId2IOSignalInfo' =
                    [t \in DOMAIN templateInsId2IOSignalInfo \cup {id} |->
                       IF t = id THEN defs ELSE templateInsId2IOSignalInfo[t]]
           /\ done' = done + 1 /\ pc' = "entry"
           /\ UNCHANGED <<dat, inisize, sections, pu32, left, defs, busInsId2FieldInfo>>
  <2> DEFINE id  == sections[4][done + 1]
             map == templateInsId2IOSignalInfo
  <2>1. /\ DOMAIN map' = DOMAIN map \cup {id} /\ map'[id] = defs
        /\ \A t \in DOMAIN map : t # id => map'[t] = map[t]
    BY <1>5
  <2>2. InMap = done /\ InMap' = done + 1 /\ InBus' = InBus
    BY <1>1, <1>5 DEF InMap, InBus
  <2>3. \A t \in DOMAIN map' : map'[t] \in Seq(FieldDef)
    BY <1>1, <2>1
  <2>4. \A n \in 1 .. InMap' : sections[4][n] \in DOMAIN map'
    <3>1. ASSUME NEW n \in 1 .. done + 1 PROVE sections[4][n] \in DOMAIN map'
      <4>1. n \in 1 .. done \/ n = done + 1
        BY <1>1
      <4> QED
        BY <1>1, <2>1, <2>2, <4>1
    <3> QED
      BY <2>2, <3>1
  <2>5. ASSUME IsInjective(sections[4]) PROVE Taken' = Append(Taken, defs)
    <3>1. Taken' = [n \in 1 .. done + 1 |-> Taken'[n]]
      BY <1>5 DEF Taken
    <3>2. Taken'[done + 1] = defs
      <4>1. done + 1 \in 1 .. done + 1 /\ done + 1 <= NIo
        BY <1>1, <1>5
      <4> QED
        BY <1>5, <2>1, <4>1 DEF Taken
    <3>3. ASSUME NEW n \in 1 .. done PROVE Taken'[n] = Taken[n]
      <4>1. n \in 1 .. done + 1 /\ n <= NIo /\ n # done + 1
        BY <1>1, <1>5
      <4>2. DOMAIN sections[4] = 1 .. NIo
        <5>1. /\ sections \in Seq(Seq(Word)) /\ Len(sections) = 4
              /\ \A s \in 1 .. Len(sections) : Len(sections[s]) = Sizes[s]
          BY <1>1 DEF LoadTypes
        <5>2. sections[4] \in Seq(Word) /\ Len(sections[4]) = Sizes[4]
          <6>1. 4 \in 1 .. Len(sections)
            BY <5>1
          <6>2. sections[4] \in Seq(Word)
            BY <5>1, <6>1, ElementOfSeq, Zenon
          <6> QED
            BY <5>1, <6>1, <6>2, Zenon
        <5>3. Sizes[4] = NIo
          BY DEF Sizes
        <5> QED
          BY <5>2, <5>3
      <4>3. sections[4][n] # id
        <5>1. n \in 1 .. NIo /\ done + 1 \in 1 .. NIo
          BY <1>1, <1>5, <4>1
        <5> QED
          BY <2>5, <4>1, <4>2, <5>1 DEF IsInjective
      <4>4. sections[4][n] \in DOMAIN map
        BY <1>1, <2>2
      <4>5. map'[sections[4][n]] = map[sections[4][n]]
        BY <2>1, <4>3, <4>4
      <4> HIDE DEF map
      <4> QED
        BY <1>1, <1>5, <4>1, <4>5 DEF Taken, map
    <3> QED
      BY <1>1, <1>2, <3>1, <3>2, <3>3, AppendIs
  <2>6. busInsId2FieldInfo' \in Seq(Seq(FieldDef)) /\ Len(busInsId2FieldInfo') = InBus'
    BY <1>1, <1>5, <2>2
  <2> QED
    BY <1>1, <1>5, <2>3, <2>4, <2>5, <2>6, EntryDone
<1> QED
  BY <1>3, <1>4, <1>5 DEF EndEntry

(* After the last entry the pointer is at the end of what was written.     *)
LEMMA FinishStep ==
  ASSUME LoadInv, Finish
  PROVE  LoadInv'
<1>1. /\ pc = "entry" /\ done = NIo + NBus /\ pc' = "loaded"
      /\ dat' = dat /\ inisize' = inisize /\ sections' = sections /\ pu32' = pu32
      /\ left' = left /\ defs' = defs /\ done' = done
      /\ templateInsId2IOSignalInfo' = templateInsId2IOSignalInfo
      /\ busInsId2FieldInfo' = busInsId2FieldInfo
  BY DEF Finish, Ends, io
<1>2. /\ LoadTypes /\ ParsingInv /\ Parsing /\ NIo > 0 /\ NIo \in Nat /\ NBus \in Nat
  BY <1>1, NumbersAre DEF LoadInv, Parsing, ParsingInv
<1>3. /\ Pages' = Pages /\ \A n : WordAt(n)' = WordAt(n)
      /\ \A c \in Circuits : Agrees(c)' <=> Agrees(c)
  BY <1>1, SameFile
<1>4. LoadTypes'
  <2>1. InBus' = InBus
    BY <1>1 DEF InBus
  <2> QED
    BY <1>1, <1>2, <1>3, <2>1 DEF LoadTypes, Steps
<1>5. SectionsStand'
  BY <1>1, <1>3 DEF LoadInv, SectionsStand
<1>6. ParsingInv'
  <2>1. InMap' = InMap
    BY <1>1 DEF InMap
  <2> QED
    BY <1>1, <1>2, <2>1 DEF ParsingInv
<1>7. EntriesStand'
  <2>1. Taken' = Taken
    BY <1>1 DEF Taken
  <2>2. Partial' = Partial
    BY <1>1 DEF Partial
  <2>3. Parsed' = Parsed
    BY <2>1, <2>2 DEF Parsed
  <2> QED
    BY <1>1, <1>2, <1>3, <2>3 DEF LoadInv, EntriesStand
<1>8. ASSUME NEW c \in Circuits, Agrees(c)' PROVE Follows(c)'
  <2>1. inisize + pu32 = Offset(c, NIo + NBus + 5)
    BY <1>1, <1>3, <1>8 DEF LoadInv, Follows
  <2>2. inisize' + pu32' = Len(Written(c))
    BY <1>1, <2>1, OffsetsAre
  <2> QED
    BY <1>1, <2>2 DEF Follows
<1>9. \A c \in Circuits : inisize' = Offset(c, Len(sections') + 1)
  BY <1>1 DEF LoadInv
<1> QED
  BY <1>4, <1>5, <1>6, <1>7, <1>8, <1>9 DEF LoadInv

-----------------------------------------------------------------------------
LEMMA InitLoad ==
  ASSUME LoadInit
  PROVE  LoadInv
<1>1. /\ dat \in Files /\ pc = "open" /\ inisize = 0 /\ sections = << >> /\ pu32 = 0 /\ left = 0
      /\ defs = << >> /\ done = 0
      /\ templateInsId2IOSignalInfo = << >> /\ busInsId2FieldInfo = << >>
  BY DEF LoadInit
<1>2. NIo \in Nat /\ NBus \in Nat
  BY NumbersAre
<1>3. dat \in [words : Seq(Word), rest : 0 .. 3]
  BY <1>1, LoadAssumption, Zenon
<1>4. 0 <= Pages * PageWords
  <2> DEFINE n == Len(dat.words) + (IF dat.rest > 0 THEN 1 ELSE 0) + PageWords - 1
             m == n \div PageWords
  <2>1. PageWords \in Nat \ {0} /\ n \in Nat
    <3> DEFINE l == Len(dat.words)
    <3>1. l \in Nat /\ PageWords \in Nat \ {0}
      BY <1>3, NumbersAre
    <3> HIDE DEF l
    <3>2. l + 1 + PageWords - 1 \in Nat /\ l + 0 + PageWords - 1 \in Nat
      BY <3>1
    <3>3. n = l + 1 + PageWords - 1 \/ n = l + 0 + PageWords - 1
      BY DEF l
    <3> QED
      BY <3>1, <3>2, <3>3
  <2> HIDE DEF n
  <2>2. m \in Nat
    BY <2>1, DivMod
  <2>3. Pages = m
    BY DEF Pages, n
  <2> HIDE DEF m
  <2> QED
    BY <2>1, <2>2, <2>3
<1>5. LoadTypes
  <2>1. InBus = 0
    BY <1>1, <1>2 DEF InBus
  <2>2. defs \in Seq(FieldDef) /\ sections \in Seq(Seq(Word)) /\ Len(sections) = 0
        /\ busInsId2FieldInfo \in Seq(Seq(FieldDef)) /\ Len(busInsId2FieldInfo) = 0
        /\ DOMAIN templateInsId2IOSignalInfo = {} /\ Len(dat.words) \in Nat
    BY <1>1, <1>3
  <2>3. pc \in Steps
    BY <1>1 DEF Steps
  <2> QED
    BY <1>1, <1>2, <1>3, <1>4, <2>1, <2>2, <2>3 DEF LoadTypes
<1>6. SectionsStand
  <2>1. FlattenSeq(sections) = << >>
    BY <1>1, FlattenNone
  <2> QED
    BY <1>1, <2>1 DEF SectionsStand
<1>7. ~Parsing /\ \A c \in Circuits : Follows(c)
  BY <1>1 DEF Parsing, Follows
<1>8. \A c \in Circuits : inisize = Offset(c, Len(sections) + 1)
  <2>1. Len(sections) + 1 = 1
    BY <1>1
  <2> QED
    BY <1>1, <2>1, OffsetsAre
<1> QED
  BY <1>5, <1>6, <1>7, <1>8 DEF LoadInv, ParsingInv, EntriesStand

LEMMA StaysLoad ==
  ASSUME LoadInv, UNCHANGED loadVars
  PROVE  LoadInv'
<1>1. /\ dat' = dat /\ pc' = pc /\ inisize' = inisize /\ sections' = sections /\ pu32' = pu32
      /\ left' = left /\ defs' = defs /\ done' = done
      /\ templateInsId2IOSignalInfo' = templateInsId2IOSignalInfo
      /\ busInsId2FieldInfo' = busInsId2FieldInfo
  BY DEF loadVars, io
<1>2. /\ Pages' = Pages /\ \A n : WordAt(n)' = WordAt(n)
      /\ \A c \in Circuits : Agrees(c)' <=> Agrees(c)
  BY <1>1, SameFile
<1>3. InBus' = InBus /\ InMap' = InMap /\ (Parsing' <=> Parsing)
  BY <1>1 DEF InBus, InMap, Parsing
<1>4. LoadTypes' /\ SectionsStand' /\ ParsingInv'
  BY <1>1, <1>2, <1>3 DEF LoadInv, LoadTypes, SectionsStand, ParsingInv
<1>5. EntriesStand'
  <2>1. Taken' = Taken /\ Partial' = Partial
    BY <1>1 DEF Taken, Partial
  <2>2. Parsed' = Parsed
    BY <2>1 DEF Parsed
  <2> QED
    BY <1>1, <1>2, <1>3, <2>2 DEF LoadInv, EntriesStand
<1>6. \A c \in Circuits : Agrees(c)' => Follows(c)'
  BY <1>1, <1>2 DEF LoadInv, Follows
<1>7. \A c \in Circuits : inisize' = Offset(c, Len(sections') + 1)
  BY <1>1 DEF LoadInv
<1> QED
  BY <1>4, <1>5, <1>6, <1>7 DEF LoadInv

(* The invariant holds of any file.                                        *)
LEMMA LoadStands == LoadSpec => []LoadInv
<1>1. ASSUME LoadInv, [LoadNext]_loadVars PROVE LoadInv'
  <2>1. CASE OpenFails
    BY <1>1, <2>1, EndsBadly DEF OpenFails
  <2>2. CASE OpenDat
    BY <1>1, <2>2, OpenStep
  <2>3. CASE CopySection
    BY <1>1, <2>3, CopySectionStep
  <2>4. CASE CopyFails
    BY <1>1, <2>4, CopyFailsStep
  <2>5. CASE CheckSize
    BY <1>1, <2>5, CheckSizeStep
  <2>6. CASE ReadEntry
    BY <1>1, <2>6, ReadEntryStep
  <2>7. CASE ReadDef
    BY <1>1, <2>7, ReadDefStep
  <2>8. CASE EndEntry
    BY <1>1, <2>8, EndEntryStep
  <2>9. CASE Finish
    BY <1>1, <2>9, FinishStep
  <2>10. CASE UNCHANGED loadVars
    BY <1>1, <2>10, StaysLoad
  <2> QED
    BY <1>1, <2>1, <2>2, <2>3, <2>4, <2>5, <2>6, <2>7, <2>8, <2>9, <2>10 DEF LoadNext
<1> QED
  BY <1>1, InitLoad, PTL DEF LoadSpec

(* IsPrefix, word by word.                                                 *)
LEMMA PrefixIs ==
  ASSUME NEW X, NEW s \in Seq(X), NEW t \in Seq(X)
  PROVE  IsPrefix(s, t) <=> Len(s) <= Len(t) /\ \A n \in 1 .. Len(s) : s[n] = t[n]
<1> DEFINE l == Len(s)
<1>1. l \in Nat /\ Len(t) \in Nat /\ SubSeq(s, 1, l) = s
  OBVIOUS
<1>2. ASSUME l <= Len(t)
      PROVE  SubSeq(t, 1, l) = s <=> \A n \in 1 .. l : s[n] = t[n]
  <2> DEFINE u == SubSeq(t, 1, l)
  <2>1. u \in Seq(X) /\ Len(u) = l /\ \A n \in 1 .. l : u[n] = t[n]
    BY <1>1, <1>2
  <2> HIDE DEF u
  <2>2. u = s <=> \A n \in 1 .. l : s[n] = u[n]
    BY <2>1
  <2>3. u = s <=> \A n \in 1 .. l : s[n] = t[n]
    BY <2>1, <2>2
  <2> QED
    BY <2>3 DEF u
<1> QED
  BY <1>1, <1>2 DEF IsPrefix

(* A file that begins with a whole one, or with which a whole one begins,  *)
(* agrees with it.                                                         *)
LEMMA WrittenPrefix ==
  ASSUME LoadTypes, NEW c \in Circuits, NEW s, NEW t, IsPrefix(s, t),
         <<s, t>> \in {<<dat.words, Written(c)>>, <<Written(c), dat.words>>}
  PROVE  Agrees(c) /\ Len(s) <= Len(t)
<1>1. dat.words \in Seq(Nat) /\ Written(c) \in Seq(Nat)
  <2>1. dat.words \in Seq(Word) /\ Word \subseteq Nat
    BY NumbersAre DEF LoadTypes
  <2>2. dat.words \in Seq(Nat)
    BY <2>1, SeqMonotonic
  <2> QED
    BY <2>2, PiecesAre
<1>2. s \in Seq(Nat) /\ t \in Seq(Nat)
  BY <1>1
<1>3. Len(s) <= Len(t) /\ \A n \in 1 .. Len(s) : s[n] = t[n]
  BY <1>2, PrefixIs
<1>4. Len(dat.words) \in Nat /\ Len(Written(c)) \in Nat
  BY <1>1
<1> QED
  BY <1>3, <1>4 DEF Agrees

(* The types, for any sizes, any file and any circuits: no copy exceeds    *)
(* its section, and the pointer stays in the file.                         *)
THEOREM LoadTypesHold == LoadSpec => []LoadTypeOK
<1>1. ASSUME LoadInv PROVE LoadTypeOK
  <2>1. LoadTypes
    BY <1>1 DEF LoadInv
  <2>2. Pages * PageWords \in Int /\ Len(dat.words) \in Nat
    BY <2>1, PagesCover
  <2>3. inisize \in 0 .. Pages * PageWords /\ pu32 \in 0 .. Len(dat.words)
    BY <2>1, <2>2 DEF LoadTypes
  <2>4. \A s \in DOMAIN sections : Len(sections[s]) = Sizes[s] /\ sections[s] \in Seq(Word)
    <3>1. sections \in Seq(Seq(Word)) /\ \A s \in 1 .. Len(sections) : Len(sections[s]) = Sizes[s]
      BY <2>1 DEF LoadTypes
    <3>2. DOMAIN sections = 1 .. Len(sections)
      BY <3>1
    <3> QED
      BY <3>1, <3>2, ElementOfSeq, Zenon
  <2> QED
    BY <2>1, <2>3, <2>4 DEF LoadTypes, LoadTypeOK, Steps
<1> QED
  BY <1>1, LoadStands, PTL

(* Whatever the file is, what was loaded from it, written down again, is   *)
(* the beginning of the file, word for word.                               *)
THEOREM LoadTakesTheFile == LoadSpec => []LoadedIsInFile
<1>1. ASSUME LoadInv, pc = "loaded", inisize <= Len(dat.words), IsInjective(sections[4])
      PROVE  IsPrefix(Layout, dat.words)
  <2> DEFINE ioMap == [n \in DOMAIN sections[4] |-> templateInsId2IOSignalInfo[sections[4][n]]]
             bus   == busInsId2FieldInfo
             E     == ioMap \o bus
             flat  == FlattenSeq(sections)
  <2>1. /\ LoadTypes /\ NIo \in Nat /\ NBus \in Nat /\ inisize \in Nat /\ pu32 \in Nat
        /\ Len(dat.words) \in Nat /\ dat.words \in Seq(Nat)
    <3>1. LoadTypes /\ dat.words \in Seq(Word) /\ Word \subseteq Nat
      BY <1>1, NumbersAre DEF LoadInv, LoadTypes
    <3>2. dat.words \in Seq(Nat)
      BY <3>1, SeqMonotonic
    <3> QED
      BY <3>1, <3>2, NumbersAre DEF LoadTypes
  <2>2. sections[4] \in Seq(Word) /\ DOMAIN sections[4] = 1 .. NIo
    <3>1. /\ sections \in Seq(Seq(Word)) /\ 4 \in 1 .. Len(sections)
          /\ \A s \in 1 .. Len(sections) : Len(sections[s]) = Sizes[s]
      <4>1. Len(sections) = 4 /\ sections \in Seq(Seq(Word))
            /\ \A s \in 1 .. Len(sections) : Len(sections[s]) = Sizes[s]
        BY <1>1, <2>1 DEF LoadTypes
      <4>2. 4 \in 1 .. 4
        OBVIOUS
      <4> QED
        BY <4>1, <4>2, Zenon
    <3>2. sections[4] \in Seq(Word) /\ Len(sections[4]) = Sizes[4]
      BY <3>1, ElementOfSeq, Zenon
    <3>3. Sizes[4] = NIo
      BY DEF Sizes
    <3> QED
      BY <3>2, <3>3
  <2>3. Layout = FlattenSeq(sections \o EntriesWords(E))
    BY DEF Layout, Written
  <2>4. /\ sections \in Seq(Seq(Nat)) /\ flat \in Seq(Nat) /\ Len(flat) = inisize
        /\ Stands(flat, 0)
    <3>1. sections \in Seq(Seq(Word)) /\ Word \subseteq Nat
      BY <2>1, NumbersAre DEF LoadTypes
    <3>2. sections \in Seq(Seq(Nat))
      BY <3>1, SeqMonotonic
    <3>3. flat \in Seq(Nat)
      BY <3>2, FlattenTypes
    <3>4. Len(flat) = inisize /\ \A n \in 1 .. inisize : flat[n] = WordAt(n)
      BY <1>1 DEF LoadInv, SectionsStand
    <3> HIDE DEF flat
    <3>5. \A n \in 1 .. inisize : 0 + n = n
      BY <2>1
    <3> QED
      BY <3>2, <3>3, <3>4, <3>5 DEF Stands
  <2>5. bus \in Seq(Seq(FieldDef)) /\ Len(bus) = InBus
    BY <2>1 DEF LoadTypes
  <2>6. ASSUME NEW w \in Seq(Nat), Layout = w, Len(w) <= Len(dat.words), Stands(w, 0)
        PROVE  IsPrefix(Layout, dat.words)
    <3>1. ASSUME NEW n \in 1 .. Len(w) PROVE w[n] = dat.words[n]
      <4>1. n \in Nat \ {0} /\ n <= Len(dat.words) /\ 0 + n = n
        BY <2>1, <2>6
      <4>2. w[n] = WordAt(0 + n)
        BY <2>6 DEF Stands
      <4> QED
        BY <2>1, <4>1, <4>2, WordAtIs
    <3> QED
      BY <2>1, <2>6, <3>1, PrefixIs
  <2>7. CASE NIo = 0
    <3>1. done = 0 /\ InBus = 0
      BY <1>1, <2>1, <2>7 DEF LoadTypes, InBus
    <3>2. ioMap = << >> /\ bus = << >>
      BY <2>2, <2>5, <2>7, <3>1
    <3>3. E = << >>
      BY <3>2
    <3>4. EntriesWords(<< >>) = << >>
      BY DEF EntriesWords
    <3>5. sections \o << >> = sections
      BY <2>4, ConcatEmptySeq
    <3>6. Layout = flat
      BY <2>3, <3>3, <3>4, <3>5
    <3> HIDE DEF flat
    <3> QED
      BY <1>1, <2>4, <2>6, <3>6
  <2>8. CASE NIo > 0
    <3> DEFINE x == FlattenSeq(EntriesWords(Taken))
    <3>1. Parsing /\ ParsingInv /\ done = NIo + NBus /\ inisize + pu32 <= Len(dat.words)
      BY <1>1, <2>1, <2>8 DEF LoadInv, Parsing, ParsingInv, LoadTypes
    <3>2. Taken \in Seq(Seq(FieldDef)) /\ Len(Taken) = done /\ x \in Seq(Nat)
      BY <2>1, <3>1, TakenAre
    <3>3. E = Taken
      <4>1. InBus = NBus /\ InMap = NIo
        BY <2>1, <3>1 DEF InBus, InMap
      <4>2. \A n \in 1 .. NIo : templateInsId2IOSignalInfo[sections[4][n]] \in Seq(FieldDef)
        BY <2>1, <3>1, <4>1 DEF ParsingInv, LoadTypes
      <4>3. ioMap = [n \in 1 .. NIo |-> templateInsId2IOSignalInfo[sections[4][n]]]
        BY <2>2
      <4>4. /\ ioMap \in Seq(Seq(FieldDef)) /\ Len(ioMap) = NIo
            /\ \A n \in 1 .. NIo : ioMap[n] = templateInsId2IOSignalInfo[sections[4][n]]
        <5> HIDE DEF ioMap
        <5> QED
          BY <2>1, <4>2, <4>3
      <4> DEFINE S == Seq(FieldDef)
      <4> HIDE DEF ioMap, S
      <4>5. /\ E \in Seq(S) /\ Len(E) = Len(bus) + NIo
            /\ \A n \in 1 .. NIo : E[n] = ioMap[n]
            /\ \A n \in 1 .. Len(bus) : E[n + NIo] = bus[n]
        <5>1. ioMap \in Seq(S) /\ bus \in Seq(S) /\ Len(ioMap) = NIo /\ NIo \in Nat
          BY <2>1, <2>5, <4>4 DEF S
        <5>2. Joined(S, E, ioMap, bus, NIo)
          BY <5>1, ConcatIs
        <5> HIDE DEF E
        <5> QED
          BY <5>1, <5>2 DEF Joined
      <4> HIDE DEF E
      <4>6. ASSUME NEW n \in 1 .. done PROVE E[n] = Taken[n]
        <5>1. CASE n <= NIo
          BY <2>1, <4>4, <4>5, <5>1 DEF Taken
        <5>2. CASE n > NIo
          <6> DEFINE m == n - NIo
          <6>1. m \in 1 .. Len(bus) /\ n = m + NIo
            BY <2>1, <2>5, <3>1, <4>1, <5>2
          <6>2. E[n] = bus[m]
            <7> HIDE DEF m
            <7> QED
              BY <4>5, <6>1
          <6>3. ~(n <= NIo)
            BY <2>1, <3>1, <5>2
          <6> QED
            BY <6>2, <6>3 DEF Taken
        <5> QED
          BY <2>1, <3>1, <5>1, <5>2
      <4>7. Len(E) = done
        BY <2>1, <2>5, <3>1, <4>1, <4>5
      <4> DEFINE tk == Taken
      <4>8. tk \in Seq(S) /\ Len(tk) = done /\ \A n \in 1 .. done : E[n] = tk[n]
        BY <3>2, <4>6 DEF S
      <4> HIDE DEF tk
      <4>9. E = tk
        BY <4>5, <4>7, <4>8
      <4> QED
        BY <4>9 DEF tk
    <3>4. Layout = flat \o x
      <4>1. EntriesWords(Taken) \in Seq(Seq(Nat))
        BY <3>2, EntriesWordsAre
      <4> QED
        BY <2>3, <2>4, <3>3, <4>1, FlattenConcat
    <3>5. Len(x) = pu32 /\ Stands(x, inisize)
      <4>1. Partial = << >>
        BY <1>1 DEF Partial
      <4>2. x \o << >> = x
        BY <3>2, ConcatEmptySeq
      <4>3. Parsed = x
        BY <4>1, <4>2 DEF Parsed
      <4> HIDE DEF x
      <4> QED
        BY <1>1, <3>1, <4>3 DEF LoadInv, EntriesStand, Stands
    <3> HIDE DEF flat, x
    <3> DEFINE zero == 0
    <3>6. zero \in Nat /\ zero + inisize = inisize /\ Stands(flat, zero)
      BY <2>1, <2>4
    <3> HIDE DEF zero
    <3>7. flat \o x \in Seq(Nat) /\ Len(flat \o x) = inisize + pu32 /\ Stands(flat \o x, zero)
      <4>1. Stands(x, zero + inisize)
        BY <3>5, <3>6
      <4> QED
        BY <2>1, <2>4, <3>2, <3>5, <3>6, <4>1, StandsMore
    <3>8. Stands(flat \o x, 0)
      BY <3>7 DEF zero
    <3>9. Len(flat \o x) <= Len(dat.words)
      BY <3>1, <3>7
    <3> QED
      BY <2>6, <3>4, <3>7, <3>8, <3>9
  <2> QED
    BY <2>1, <2>7, <2>8
<1>2. ASSUME LoadInv PROVE LoadedIsInFile
  BY <1>1, <1>2 DEF LoadedIsInFile
<1> QED
  BY <1>2, LoadStands, PTL

(* A file that circom wrote is loaded, whatever stands behind it: no read  *)
(* is outside of it, no bus outgrows its room.                             *)
THEOREM WholeFilesLoad == LoadSpec => []WholeFileLoads
<1>1. ASSUME LoadInv, IsWhole PROVE pc \notin {"aborted", "killed", "undefined"}
  <2>1. PICK c \in Circuits : IsPrefix(Written(c), dat.words) /\ dat.rest = 0
    BY <1>1 DEF IsWhole, WholeFiles
  <2>2. Agrees(c) /\ Len(Written(c)) <= Len(dat.words)
    BY <1>1, <2>1, WrittenPrefix DEF LoadInv
  <2> QED
    BY <1>1, <2>1, <2>2 DEF LoadInv, Follows
<1>2. ASSUME LoadInv PROVE WholeFileLoads
  BY <1>1, <1>2 DEF WholeFileLoads
<1> QED
  BY <1>2, LoadStands, PTL

(* A file that was cut short is never loaded, if the circuit has an io     *)
(* map.                                                                    *)
THEOREM CutFilesDoNotLoad == LoadSpec => []CutFileDoesNotLoad
<1>1. ASSUME LoadInv, IsCut, NIo > 0 PROVE pc # "loaded"
  <2>1. PICK c \in Circuits : IsPrefix(dat.words, Written(c)) /\ dat.words # Written(c)
    BY <1>1 DEF IsCut, WholeFiles, IsStrictPrefix
  <2>2. Agrees(c) /\ Len(dat.words) <= Len(Written(c))
    BY <1>1, <2>1, WrittenPrefix DEF LoadInv
  <2>3. Len(dat.words) # Len(Written(c))
    <3> DEFINE w == Written(c)
               y == dat.words
    <3>1. w \in Seq(Nat) /\ y \in Seq(Word)
      BY <1>1, PiecesAre DEF LoadInv, LoadTypes
    <3>2. Len(y) = Len(w) => y = w
      <4> SUFFICES ASSUME Len(y) = Len(w) PROVE y = w
        OBVIOUS
      <4> HIDE DEF y, w
      <4>1. SubSeq(y, 1, Len(y)) = y /\ SubSeq(w, 1, Len(w)) = w
        BY <3>1, SubSeqFull
      <4>2. SubSeq(y, 1, Len(y)) = SubSeq(w, 1, Len(y))
        BY <2>1 DEF IsPrefix, y, w
      <4> QED
        BY <4>1, <4>2
    <3> QED
      BY <2>1, <3>2
  <2>4. SUFFICES ASSUME pc = "loaded" PROVE FALSE
    OBVIOUS
  <2>5. inisize + pu32 <= Len(dat.words)
    BY <1>1, <2>4 DEF LoadInv, Parsing, ParsingInv
  <2>6. inisize + pu32 = Len(Written(c))
    BY <1>1, <2>2, <2>4 DEF LoadInv, Follows
  <2>7. Len(dat.words) \in Nat /\ Len(Written(c)) \in Nat
    BY <1>1, PagesCover, OffsetsAre DEF LoadInv
  <2> QED
    BY <2>2, <2>3, <2>5, <2>6, <2>7
<1>2. ASSUME LoadInv PROVE CutFileDoesNotLoad
  BY <1>1, <1>2 DEF CutFileDoesNotLoad
<1> QED
  BY <1>2, LoadStands, PTL
=============================================================================
