------------------------------ MODULE JsInput ------------------------------
(***************************************************************************)
(* How auth_js/witness_calculator.js reads its input: _doCalculateWitness  *)
(* qualifies the names of the parsed JSON document (qualify_input,         *)
(* qualify_input_list, flatArray) and turns each value into field elements *)
(* (normalize).                                                            *)
(***************************************************************************)
EXTENDS JsonValues

(* typeof of what JSON.parse gives.                                        *)
typeof(val) ==
  CASE val.kind \in Numbers                     -> "number"
    [] val.kind \in Strings                     -> "string"
    [] val.kind = "bool"                        -> "boolean"
    [] val.kind \in {"object", "array", "null"} -> "object"

(* normalize(leaf, prime): BigInt of the leaf, modulo the prime, twice the *)
(* number v being even in all but a fraction; <<>> when BigInt throws.     *)
normalize(val) ==
  CASE val.kind \in Numbers /\ Double(val.v) % 2 = 0 -> <<(Double(val.v) \div 2) % Modulus>>
    [] val.kind \in {"digits", "empty", "signed", "blank", "bool"} -> <<(val.v \div 2) % Modulus>>
    [] OTHER                                         -> << >>

(* A reader: what it has to qualify, what it has qualified (input) and the *)
(* names of that in the order Object.keys gives, the elements of the names *)
(* converted so far, how it ended.                                         *)
Reader(doc) == [stack |-> <<Todo(<< >>, doc, FALSE)>>, input |-> << >>, keys |-> << >>,
                elements |-> << >>, status |-> "qualify"]

(* Mutant: a name that is already there is left as it is.                  *)
PutOnce(s) ==
  LET top == Head(s.stack)
  IN  IF top.prefix \in DOMAIN s.input THEN [s EXCEPT !.stack = Tail(@)]
      ELSE [s EXCEPT !.stack = Tail(@),
                     !.input = Assign(@, top.prefix, top.val),
                     !.keys = Append(@, top.prefix)]

(* input1[prefix] = val                                                    *)
Put(s) ==
  LET top == Head(s.stack)
  IN  [s EXCEPT !.stack = Tail(@),
                !.input = Assign(@, top.prefix, top.val),
                !.keys = IF top.prefix \in DOMAIN s.input THEN @ ELSE Append(@, top.prefix)]

Push(s, new) == [s EXCEPT !.stack = new \o Tail(@)]
Throw(s)     == [s EXCEPT !.status = "thrown"]

(* qualify_input of an array: what its leaves are decides.                 *)
QualifyArray(s) ==
  LET top   == Head(s.stack)
      types == {typeof(leaf) : leaf \in ToSet(Flat(top.val))}
  IN  CASE Cardinality(types) > 1          -> Throw(s)
        [] types = {"object"}              -> Push(s, <<Todo(top.prefix, top.val, TRUE)>>)
        [] OTHER                           -> Put(s)

(* qualify_input_list and qualify_input of the value on top of the stack.  *)
(* Object.keys of null throws.                                             *)
qualify_input(s) ==
  LET top == Head(s.stack)
      val == top.val
  IN  CASE top.list /\ val.kind = "array"   -> Push(s, Elements(top))
        [] top.list /\ val.kind # "array"   -> Push(s, <<Todo(top.prefix, val, FALSE)>>)
        [] ~top.list /\ val.kind = "array"  -> QualifyArray(s)
        [] ~top.list /\ val.kind = "object" -> Push(s, Members(top, val.items))
        [] ~top.list /\ val.kind = "null"   -> Throw(s)
        [] OTHER                            -> Put(s)

(* The next key: its value becomes an array of elements.                   *)
Convert(s) ==
  LET name   == s.keys[Cardinality(DOMAIN s.elements) + 1]
      leaves == Flat(s.input[name])
  IN  IF \E n \in DOMAIN leaves : normalize(leaves[n]) = << >> THEN Throw(s)
      ELSE [s EXCEPT !.elements =
                 Assign(@, name, [n \in DOMAIN leaves |-> normalize(leaves[n])[1]])]

ReadStep(s) ==
  LET converted == Cardinality(DOMAIN s.elements)
  IN  CASE s.status = "qualify" /\ s.stack # << >>           -> qualify_input(s)
        [] s.status = "qualify" /\ s.stack = << >>           -> [s EXCEPT !.status = "convert"]
        [] s.status = "convert" /\ converted < Len(s.keys)   -> Convert(s)
        [] s.status = "convert" /\ converted = Len(s.keys)   -> [s EXCEPT !.status = "read"]

Ended(s) == s.status \in {"read", "thrown"}
=============================================================================
