----------------------------- MODULE JsonValues -----------------------------
(***************************************************************************)
(* A parsed JSON document, as the two witness calculators find it, and     *)
(* what their readers of it have in common: the values still to be         *)
(* qualified are a stack, and a name is a sequence of tokens, so that      *)
(* names can be put together.                                              *)
(***************************************************************************)
EXTENDS Integers, Sequences, SequencesExt

CONSTANTS
  Modulus,     (* the order of the field                                   *)
  Precision    (* the bits of a double's significand                       *)

ASSUME ReaderAssumption == Modulus \in Nat \ {0} /\ Precision \in Nat \ {0, 1}

(* The number v of a leaf is twice the number in the text, so that it may  *)
(* be a half.  "float" is also an integer that does not fit in 64 bits.    *)
Leaf(kind, v)  == [kind |-> kind, v |-> v]
Array(items)   == [kind |-> "array", items |-> items]
Object(items)  == [kind |-> "object", items |-> items]  (* of <<name, value>>, as in the text *)
Numbers        == {"unsigned", "integer", "float"}
Strings        == {"digits",    (* a number, with or without 0x, 0b or 0o  *)
                   "empty",     (* ""                                      *)
                   "prefix",    (* 0x, 0b or 0o alone                      *)
                   "signed",    (* -1                                      *)
                   "blank",     (* a number with white space around it     *)
                   "text"}      (* anything else                           *)

RECURSIVE Flat(_)
(* The leaves of nested arrays, in order.                                  *)
Flat(val) == IF val.kind = "array" THEN FlattenSeq([n \in DOMAIN val.items |-> Flat(val.items[n])])
             ELSE <<val>>

-----------------------------------------------------------------------------
(* Doubles                                                                 *)

(* The multiple of d nearest to n, halfway the even one.                   *)
Nearest(n, d) ==
  LET low == (n \div d) * d
  IN  CASE 2 * (n - low) < d -> low
        [] 2 * (n - low) > d -> low + d
        [] OTHER             -> IF (n \div d) % 2 = 0 THEN low ELSE low + d

Double(v) ==
  LET m == IF v < 0 THEN -v ELSE v
      e == CHOOSE k \in 0 .. m : m < 2 ^ (Precision + k) /\ (k = 0 \/ m >= 2 ^ (Precision + k - 1))
  IN  IF v < 0 THEN -Nearest(m, 2 ^ e) ELSE Nearest(m, 2 ^ e)

-----------------------------------------------------------------------------
(* Names                                                                   *)

Dotted(prefix, name) == IF prefix = << >> THEN name ELSE prefix \o <<".">> \o name
Indexed(prefix, n)   == Append(prefix, "[" \o ToString(n - 1) \o "]")

(* A value that is to be qualified, by qualify_input_list if list holds.   *)
Todo(prefix, val, list) == [prefix |-> prefix, val |-> val, list |-> list]

Members(top, items) ==
  [n \in DOMAIN items |-> Todo(Dotted(top.prefix, items[n][1]), items[n][2], FALSE)]

(* Mutant: the elements of a list of objects are all given its name.       *)
ElementsWithoutIndex(top) ==
  [n \in DOMAIN top.val.items |-> Todo(top.prefix, top.val.items[n], TRUE)]

Elements(top) ==
  [n \in DOMAIN top.val.items |-> Todo(Indexed(top.prefix, n), top.val.items[n], TRUE)]

(* in1[name] = val                                                         *)
Assign(f, name, val) == [n \in DOMAIN f \cup {name} |-> IF n = name THEN val ELSE f[n]]
=============================================================================
