---------------------------- MODULE LoadCircuit -----------------------------
(***************************************************************************)
(* loadCircuit of auth_cpp/main.cpp: the .dat file is mapped into memory   *)
(* and taken apart by the sizes that the generated code was compiled with. *)
(* The file may be whole, cut short, longer, or anything else; nothing but *)
(* two asserts looks at it.  A word has 4 bytes.                           *)
(***************************************************************************)
EXTENDS Integers, Sequences, SequencesExt

CONSTANTS
  NHash, NWitness, NConstants, NIo, NBus,   (* get_size_of_...()           *)
  HashWords, WitnessWords, FrWords,         (* words in an entry of each   *)
  PageWords,   (* words in a page of memory                                *)
  BusFields,   (* the definitions a bus has room for: 10 in the code       *)
  Word,        (* what a word may hold                                     *)
  Files,       (* [words |-> its words, rest |-> its bytes after them]     *)
  Circuits     (* what circom writes .dat files of: [sections |-> the four *)
               (* sections, entries |-> of the io map, then of the buses]  *)

ASSUME LoadAssumption ==
  /\ {NHash, NWitness, HashWords, WitnessWords, FrWords, PageWords} \subseteq Nat \ {0}
  /\ {NConstants, NIo, NBus, BusFields} \subseteq Nat
  /\ 0 \in Word /\ Word \subseteq Nat
  /\ Files \subseteq [words : Seq(Word), rest : 0 .. 3]

(* IOFieldDef.                                                             *)
FieldDef == [offset : Word, lengths : Seq(Word), size : Word, busId : Word]

(* The layout of a .dat file, as circom writes it.                         *)
DefWords(d)     == <<d.offset, Len(d.lengths)>> \o d.lengths \o <<d.size, d.busId>>
DefsWords(ds)   == [n \in DOMAIN ds |-> DefWords(ds[n])]
EntryWords(ds)  == <<Len(ds)>> \o FlattenSeq(DefsWords(ds))
EntriesWords(e) == [n \in DOMAIN e |-> EntryWords(e[n])]
Written(c)      == FlattenSeq(c.sections \o EntriesWords(c.entries))

(* The sizes of the four copies.                                           *)
Sizes == <<NHash * HashWords, NWitness * WitnessWords, NConstants * FrWords, NIo>>

ASSUME CircuitsAssumption ==
  \A c \in Circuits :
    /\ c.sections \in Seq(Seq(Word)) /\ Len(c.sections) = 4
    /\ \A s \in 1 .. 4 : Len(c.sections[s]) = Sizes[s]
    /\ c.entries \in Seq(Seq(FieldDef)) /\ Len(c.entries) = NIo + NBus
    /\ \A n \in NIo + 1 .. NIo + NBus : Len(c.entries[n]) <= BusFields

WholeFiles == {Written(c) : c \in Circuits}

VARIABLES
  dat,         (* the file                                                 *)
  pc,          (* where loadCircuit is, or how it ended                    *)
  inisize,     (* the words taken so far                                   *)
  sections,    (* what was copied: table, witness list, constants, index   *)
  pu32,        (* the position in dataiomap                                *)
  left,        (* definitions still to be read of the current entry        *)
  defs,        (* those that have been read                                *)
  done,        (* the entries before it, of the io map, then of the buses  *)
  templateInsId2IOSignalInfo, busInsId2FieldInfo

io       == <<templateInsId2IOSignalInfo, busInsId2FieldInfo>>
loadVars == <<dat, pc, inisize, sections, pu32, left, defs, done, io>>

LoadInit ==
  /\ dat \in Files
  /\ pc = "open" /\ inisize = 0 /\ sections = << >>
  /\ pu32 = 0 /\ left = 0 /\ defs = << >> /\ done = 0
  /\ templateInsId2IOSignalInfo = << >> /\ busInsId2FieldInfo = << >>

Ends(how) == pc' = how /\ UNCHANGED <<dat, inisize, sections, pu32, left, defs, done, io>>

-----------------------------------------------------------------------------
(* open or fstat fails and the error is thrown; mmap takes no empty file,  *)
(* and its result is not looked at.                                        *)
OpenFails == pc = "open" /\ Ends("thrown")
OpenDat   == pc = "open" /\ Ends(IF dat.words = << >> /\ dat.rest = 0 THEN "killed" ELSE "copy")

(* The words of the file, and those behind it in its last page, which are  *)
(* 0.                                                                      *)
Pages == (Len(dat.words) + (IF dat.rest > 0 THEN 1 ELSE 0) + PageWords - 1) \div PageWords
WordAt(k) == IF k <= Len(dat.words) THEN dat.words[k] ELSE 0

(* Mutant: the size of the constants is not added.                         *)
CopySectionOverlaps ==
  /\ pc = "copy" /\ Len(sections) < 4 /\ inisize + Sizes[Len(sections) + 1] <= Pages * PageWords
  /\ LET size == Sizes[Len(sections) + 1]
     IN  /\ sections' = Append(sections, [k \in 1 .. size |-> WordAt(inisize + k)])
         /\ inisize' = IF Len(sections) = 2 THEN inisize ELSE inisize + size
  /\ UNCHANGED <<dat, pc, pu32, left, defs, done, io>>

(* memcpy of the next section; beyond the last page it kills the process.  *)
(* (It might also meet memory that is mapped there; the copy to dataiomap, *)
(* whose size would be negative, is fatal with any io map.)                *)
CopySection ==
  /\ pc = "copy" /\ Len(sections) < 4 /\ inisize + Sizes[Len(sections) + 1] <= Pages * PageWords
  /\ LET size == Sizes[Len(sections) + 1]
     IN  /\ sections' = Append(sections, [k \in 1 .. size |-> WordAt(inisize + k)])
         /\ inisize' = inisize + size
  /\ UNCHANGED <<dat, pc, pu32, left, defs, done, io>>

CopyFails ==
  /\ pc = "copy" /\ Len(sections) < 4 /\ inisize + Sizes[Len(sections) + 1] > Pages * PageWords
  /\ Ends("killed")

(* Without an io map that is all (and busInsId2FieldInfo is a pointer that *)
(* was never set, and is never used); else the size must be whole words,   *)
(* and dataiomap, on the stack, has as many words as the file has left.    *)
CheckSize ==
  /\ pc = "copy" /\ Len(sections) = 4
  /\ Ends(CASE NIo = 0                                             -> "loaded"
            [] NIo > 0 /\ dat.rest # 0                             -> "aborted"
            [] NIo > 0 /\ dat.rest = 0 /\ inisize > Len(dat.words) -> "killed"
            [] OTHER                                               -> "entry")

(* Mutant: the mapped file is read instead.                                *)
HasInPage(n) == inisize + pu32 + n <= Pages * PageWords

Has(n) == inisize + pu32 + n <= Len(dat.words)

(* dataiomap, from the pointer pu32 on.                                    *)
At(n) == WordAt(inisize + pu32 + n)

(* The next entry begins with the number of its definitions.  What is read *)
(* behind dataiomap is whatever the stack holds.                           *)
ReadEntry ==
  /\ pc = "entry" /\ done < NIo + NBus
  /\ \/ /\ ~Has(1)
        /\ Ends("undefined")
     \/ /\ Has(1)
        /\ pc' = "def" /\ left' = At(1) /\ defs' = << >> /\ pu32' = pu32 + 1
        /\ UNCHANGED <<dat, inisize, sections, done, io>>

(* Mutant: the words of the lengths are not skipped.                       *)
ReadDefUnskipped ==
  /\ pc = "def" /\ left > 0
  /\ \/ /\ ~(Has(2) /\ Has(4 + At(2)))
        /\ Ends("undefined")
     \/ /\ Has(2) /\ Has(4 + At(2))
        /\ LET len == At(2)
           IN  /\ defs' = Append(defs, [offset  |-> At(1),
                                        lengths |-> [k \in 1 .. len |-> At(k + 2)],
                                        size    |-> At(3), busId |-> At(4)])
               /\ pu32' = pu32 + 4
        /\ left' = left - 1
        /\ UNCHANGED <<dat, pc, inisize, sections, done, io>>

(* A definition: offset, len, len lengths, size, busId.                    *)
ReadDef ==
  /\ pc = "def" /\ left > 0
  /\ \/ /\ ~(Has(2) /\ Has(4 + At(2)))
        /\ Ends("undefined")
     \/ /\ Has(2) /\ Has(4 + At(2))
        /\ LET len == At(2)
           IN  /\ defs' = Append(defs, [offset  |-> At(1),
                                        lengths |-> [k \in 1 .. len |-> At(k + 2)],
                                        size    |-> At(len + 3), busId |-> At(len + 4)])
               /\ pu32' = pu32 + len + 4
        /\ left' = left - 1
        /\ UNCHANGED <<dat, pc, inisize, sections, done, io>>

(* The definitions are copied to the heap, where a bus has room for        *)
(* BusFields; the io map is a std::map, by the words of the index.         *)
EndEntry ==
  /\ pc = "def" /\ left = 0
  /\ \/ /\ done >= NIo /\ Len(defs) > BusFields
        /\ Ends("undefined")
     \/ /\ done >= NIo /\ Len(defs) <= BusFields
        /\ busInsId2FieldInfo' = Append(busInsId2FieldInfo, defs)
        /\ done' = done + 1 /\ pc' = "entry"
        /\ UNCHANGED <<dat, inisize, sections, pu32, left, defs, templateInsId2IOSignalInfo>>
     \/ /\ done < NIo
        /\ LET id == sections[4][done + 1]
           IN  templateInsId2IOSignalInfo' =
                 [t \in DOMAIN templateInsId2IOSignalInfo \cup {id} |->
                    IF t = id THEN defs ELSE templateInsId2IOSignalInfo[t]]
        /\ done' = done + 1 /\ pc' = "entry"
        /\ UNCHANGED <<dat, inisize, sections, pu32, left, defs, busInsId2FieldInfo>>

Finish == pc = "entry" /\ done = NIo + NBus /\ Ends("loaded")

LoadNext == OpenFails \/ OpenDat \/ CopySection \/ CopyFails \/ CheckSize
              \/ ReadEntry \/ ReadDef \/ EndEntry \/ Finish

LoadSpec == LoadInit /\ [][LoadNext]_loadVars

-----------------------------------------------------------------------------
LoadTypeOK ==
  /\ pc \in {"open", "copy", "entry", "def", "loaded", "thrown", "aborted", "killed", "undefined"}
  /\ Len(sections) <= 4
  /\ \A s \in DOMAIN sections : Len(sections[s]) = Sizes[s] /\ sections[s] \in Seq(Word)
  /\ inisize \in 0 .. Pages * PageWords /\ pu32 \in 0 .. Len(dat.words)
  /\ left \in Nat /\ done \in 0 .. NIo + NBus

(* What was loaded, written down again.                                    *)
Layout ==
  LET index == sections[4]
      ioMap == [n \in DOMAIN index |-> templateInsId2IOSignalInfo[index[n]]]
  IN  Written([sections |-> sections, entries |-> ioMap \o busInsId2FieldInfo])

IsWhole == \E w \in WholeFiles : IsPrefix(w, dat.words) /\ dat.rest = 0
IsCut   == \E w \in WholeFiles : IsStrictPrefix(dat.words, w)

(* Whatever the file is, what loadCircuit takes from it is what is written *)
(* there: written down again by the layout, it is the beginning of the     *)
(* file, word for word.  (Of entries for the same template, the last one.) *)
LoadedIsInFile ==
  pc = "loaded" /\ inisize <= Len(dat.words) /\ IsInjective(sections[4]) =>
    IsPrefix(Layout, dat.words)

(* A file that is whole, with or without something behind it, is loaded:   *)
(* no word is read outside of it and no bus outgrows its room.             *)
WholeFileLoads == IsWhole => pc \notin {"aborted", "killed", "undefined"}

(* A file that was cut short, between two words or inside one, is never    *)
(* loaded, though its size is stored nowhere, if the circuit has an io map.*)
CutFileDoesNotLoad == IsCut /\ NIo > 0 => pc # "loaded"
=============================================================================
