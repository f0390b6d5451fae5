----------------------------- MODULE JsonReader -----------------------------
(***************************************************************************)
(* How auth_cpp/main.cpp reads its input: loadJson qualifies the names of  *)
(* a JSON document (qualify_input, qualify_input_list, check_type) and     *)
(* turns each value into field elements (json2FrElements).                 *)
(***************************************************************************)
EXTENDS JsonValues

CONSTANT Rank  (* the place of a token in the order of std::string         *)

RECURSIVE check_type(_)
(* The type of the leaves; "differ" stands for the assert that fails.      *)
check_type(in) ==
  CASE in.kind \in Strings                      -> "string"
    [] in.kind \notin Strings \cup {"array"}     -> in.kind
    [] in.kind = "array" /\ in.items = << >>    -> "null"
    [] in.kind = "array" /\ in.items # << >>    ->
         LET types == {check_type(in.items[n]) : n \in DOMAIN in.items}
         IN  IF types = {check_type(in.items[1])} THEN check_type(in.items[1]) ELSE "differ"

(* Mutant: a JSON number is read digit by digit.                           *)
LeafElementByDigits(val) ==
  CASE val.kind \in Numbers \cup {"digits"} -> <<(Nearest(val.v, 2) \div 2) % Modulus>>
    [] val.kind \in {"empty", "prefix"}     -> <<0>>
    [] OTHER                                -> << >>

(* Mutant: an empty string is no valid number.                             *)
LeafElementNonempty(val) ==
  CASE val.kind \in Numbers -> <<(Nearest(Double(val.v), 2) \div 2) % Modulus>>
    [] val.kind = "digits"  -> <<(val.v \div 2) % Modulus>>
    [] val.kind = "prefix"  -> <<0>>
    [] OTHER                -> << >>

(* json2FrElements of a leaf: the number, printed without decimals if it   *)
(* is a JSON number, modulo q; <<>> when it throws.                        *)
LeafElement(val) ==
  CASE val.kind \in Numbers             -> <<(Nearest(Double(val.v), 2) \div 2) % Modulus>>
    [] val.kind = "digits"              -> <<(val.v \div 2) % Modulus>>
    [] val.kind \in {"empty", "prefix"} -> <<0>>
    [] OTHER                            -> << >>

(* Names in the order of nlohmann's std::map.                              *)
Before(m, n) ==
  \/ IsStrictPrefix(m, n)
  \/ \E k \in DOMAIN m \cap DOMAIN n :
       /\ SubSeq(m, 1, k - 1) = SubSeq(n, 1, k - 1)
       /\ Rank[m[k]] < Rank[n[k]]
Sorted(items) == SortSeq(items, LAMBDA p, o : Before(p[1], o[1]))

-----------------------------------------------------------------------------
(* A reader: what it has to qualify, what it has qualified (in1: name ->   *)
(* value), the elements of the names converted so far, how it ended.       *)
Reader(doc) == [stack |-> <<Todo(<< >>, doc, FALSE)>>, in1 |-> << >>,
                elements |-> << >>, status |-> "qualify"]

Put(s)       == [s EXCEPT !.stack = Tail(@),
                          !.in1 = Assign(@, Head(s.stack).prefix, Head(s.stack).val)]
Push(s, new) == [s EXCEPT !.stack = new \o Tail(@)]

(* qualify_input_list and qualify_input of the value on top of the stack.  *)
qualify_input(s) ==
  LET top == Head(s.stack)
      val == top.val
  IN  CASE top.list /\ val.kind = "array"    -> Push(s, Elements(top))
        [] top.list /\ val.kind # "array"    -> Push(s, <<Todo(top.prefix, val, FALSE)>>)
        [] ~top.list /\ val.kind = "array"   ->
             CASE val.items = << >>                                    -> Put(s)
               [] val.items # << >> /\ check_type(val) = "differ"      -> [s EXCEPT !.status = "aborted"]
               [] val.items # << >> /\ check_type(val) = "object"      ->
                    Push(s, <<Todo(top.prefix, val, TRUE)>>)
               [] OTHER                                                -> Put(s)
        [] ~top.list /\ val.kind = "object"  -> Push(s, Members(top, Sorted(val.items)))
        [] OTHER                             -> Put(s)

(* The next name of j, in loadJson: its value becomes a vector of elements.*)
json2FrElements(s, name) ==
  LET leaves == Flat(s.in1[name])
  IN  IF \E n \in DOMAIN leaves : LeafElement(leaves[n]) = << >>
      THEN [s EXCEPT !.status = "thrown"]
      ELSE [s EXCEPT !.elements =
                 Assign(@, name, [n \in DOMAIN leaves |-> LeafElement(leaves[n])[1]])]

Remaining(s) == DOMAIN s.in1 \ DOMAIN s.elements
Least(names) == CHOOSE m \in names : \A n \in names \ {m} : Before(m, n)

ReadStep(s) ==
  CASE s.status = "qualify" /\ s.stack # << >> -> qualify_input(s)
    [] s.status = "qualify" /\ s.stack = << >> -> [s EXCEPT !.status = "convert"]
    [] s.status = "convert" /\ Remaining(s) # {} -> json2FrElements(s, Least(Remaining(s)))
    [] s.status = "convert" /\ Remaining(s) = {} -> [s EXCEPT !.status = "read"]

Ended(s) == s.status \in {"read", "thrown", "aborted"}
=============================================================================
