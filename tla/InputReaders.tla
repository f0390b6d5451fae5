---------------------------- MODULE InputReaders ----------------------------
(***************************************************************************)
(* The two programs that read the same input.json: auth_cpp/main.cpp and   *)
(* auth_js/witness_calculator.js.  A user takes one for the other, so that *)
(* a document should give both the same elements for the same signals.     *)
(***************************************************************************)
EXTENDS JsonValues

CONSTANTS
  Rank,        (* the place of a token in the order of std::string         *)
  Documents    (* the documents to be read                                 *)

VARIABLES
  doc,         (* the document                                             *)
  cpp,         (* the reader of the C++ program                            *)
  js           (* the reader of the JavaScript calculator                  *)

vars == <<doc, cpp, js>>

Cpp == INSTANCE JsonReader
Js  == INSTANCE JsInput

-----------------------------------------------------------------------------
Init == /\ doc \in Documents
        /\ cpp = Cpp!Reader(doc)
        /\ js = Js!Reader(doc)

CppReads == /\ ~Cpp!Ended(cpp)
            /\ cpp' = Cpp!ReadStep(cpp)
            /\ UNCHANGED <<doc, js>>

(* The programs share nothing: it is enough that one reads after the other.*)
JsReads == /\ Cpp!Ended(cpp)
           /\ ~Js!Ended(js)
           /\ js' = Js!ReadStep(js)
           /\ UNCHANGED <<doc, cpp>>

Next == CppReads \/ JsReads

Spec == Init /\ [][Next]_vars

-----------------------------------------------------------------------------
(* What a document says, defined on the document as a whole.               *)

RECURSIVE Within(_)
(* The values of a document: itself and those inside it.                   *)
Within(val) ==
  CASE val.kind = "array"  -> {val} \cup UNION {Within(item) : item \in ToSet(val.items)}
    [] val.kind = "object" -> {val} \cup UNION {Within(item[2]) : item \in ToSet(val.items)}
    [] OTHER               -> {val}

OfObjects(val) == \E leaf \in ToSet(Flat(val)) : leaf.kind = "object"

RECURSIVE Paths(_, _)
(* The qualified names of a value at prefix, each with what it names, in   *)
(* the order of the text.                                                  *)
Paths(prefix, val) ==
  CASE val.kind = "object" ->
         FlattenSeq([n \in DOMAIN val.items |-> Paths(Dotted(prefix, val.items[n][1]), val.items[n][2])])
    [] val.kind = "array" /\ OfObjects(val) ->
         FlattenSeq([n \in DOMAIN val.items |->
                       IF val.items[n] = Array(<< >>) THEN << >>
                       ELSE Paths(Indexed(prefix, n), val.items[n])])
    [] OTHER -> <<<<prefix, val>>>>

RECURSIVE InOrder(_)
(* The document with the members of its objects in the order of their names*)
InOrder(val) ==
  CASE val.kind = "array"  -> [val EXCEPT !.items = [n \in DOMAIN @ |-> InOrder(@[n])]]
    [] val.kind = "object" ->
         [val EXCEPT !.items = Cpp!Sorted([n \in DOMAIN @ |-> <<@[n][1], InOrder(@[n][2])>>])]
    [] OTHER               -> val

(* The place of the last path to name.                                     *)
LastTo(paths, name) == CHOOSE n \in DOMAIN paths :
                         /\ paths[n][1] = name
                         /\ \A m \in DOMAIN paths : paths[m][1] = name => m <= n

(* The names that more than one path of the document leads to.             *)
Ambiguous == LET paths == Paths(<< >>, doc)
             IN  {paths[n][1] : n \in {m \in DOMAIN paths : \E k \in DOMAIN paths \ {m} :
                                                              paths[k][1] = paths[m][1]}}

(* A leaf that a double can hold: every string, and the integers that are  *)
(* not too long.                                                           *)
Exact(leaf) == leaf.kind \notin Numbers \/ (leaf.v % 2 = 0 /\ Double(leaf.v) = leaf.v)

Fraction(leaf) == leaf.kind \in Numbers /\ Double(leaf.v) % 2 = 1

Scalars == {val \in Within(doc) : val.kind \notin {"array", "object"}}
Arrays  == {val \in Within(doc) : val.kind = "array"}

BothRead == cpp.status = "read" /\ js.status = "read"

(* When both calculators accept a document they feed their circuits the    *)
(* same signals, with the same elements, unless two members of the         *)
(* document lead to one qualified name (main.cpp:188-235 and               *)
(* witness_calculator.js:281-319 rename, main.cpp:142-181 and              *)
(* witness_calculator.js:363-367 convert).                                 *)
SameSignals ==
  BothRead =>
    /\ DOMAIN cpp.elements = DOMAIN js.elements
    /\ \A name \in DOMAIN cpp.elements \ Ambiguous : cpp.elements[name] = js.elements[name]

(* A name that several members lead to is given the last one's value: the  *)
(* last in the text for JavaScript, the last in the order of names for C++ *)
(* (whose json objects are sorted), so that the two may differ.            *)
LastOneWins ==
  BothRead => \A name \in Ambiguous :
    LET written == Paths(<< >>, doc)
        sorted  == Paths(<< >>, InOrder(doc))
    IN  /\ js.input[name] = written[LastTo(written, name)][2]
        /\ cpp.in1[name] = sorted[LastTo(sorted, name)][2]

(* No value of the document is lost, doubled or moved to another signal on *)
(* the way: each name has the leaves at its path, in order, and a leaf     *)
(* that a double can hold arrives as the number it is in the field.        *)
LeavesArrive ==
  BothRead => \A n \in DOMAIN Paths(<< >>, doc) :
    LET path   == Paths(<< >>, doc)[n]
        leaves == Flat(path[2])
    IN  path[1] \notin Ambiguous =>
          /\ path[1] \in DOMAIN cpp.elements
          /\ Len(cpp.elements[path[1]]) = Len(leaves)
          /\ \A k \in DOMAIN leaves :
               Exact(leaves[k]) => cpp.elements[path[1]][k] = (leaves[k].v \div 2) % Modulus

(* What only one of them reads.  JavaScript alone refuses a fraction, which*)
(* main.cpp:171-176 rounds and BigInt does not take, and a prefix with no  *)
(* digits behind it, which check_valid_number lets pass.  The C++ program  *)
(* alone refuses strings with a sign or white space, booleans, and arrays  *)
(* that check_type (main.cpp:190) takes for mixed, of signed and unsigned  *)
(* numbers or with an empty array.  (A value that another one replaces is  *)
(* never converted, and null is refused by JavaScript before that:         *)
(* documents with such names are left out.)                                *)
OnlyOneRefuses ==
  Ambiguous = {} =>
    /\ cpp.status = "read" /\ js.status = "thrown" =>
         \E leaf \in Scalars : Fraction(leaf) \/ leaf.kind = "prefix"
    /\ cpp.status \in {"thrown", "aborted"} /\ js.status = "read" =>
         \/ \E leaf \in Scalars : leaf.kind \in {"signed", "blank", "bool"}
         \/ \E a \in Arrays :
              \/ Cardinality({leaf.kind : leaf \in ToSet(Flat(a))} \cap Numbers) > 1
              \/ Flat(a) # << >> /\ Array(<< >>) \in Within(a)
=============================================================================
