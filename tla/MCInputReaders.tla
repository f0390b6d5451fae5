--------------------------- MODULE MCInputReaders ---------------------------
EXTENDS InputReaders

MCRank == [t \in {".", "[0]", "[1]", "a", "b", "c"} |->
             CASE t = "." -> 1 [] t = "[0]" -> 2 [] t = "[1]" -> 3
               [] t = "a" -> 4 [] t = "b" -> 5 [] t = "c" -> 6]

A == <<"a">>
B == <<"b">>

(* Twice the numbers, with a 3-bit double: 8, 9 and 14 have a neighbour    *)
(* that is rounded, 17 is beyond the field of 13.                          *)
Leaves ==
  {Leaf("unsigned", v) : v \in {0, 2, 18, 22, 28, 34}}
    \cup {Leaf("integer", v) : v \in {-2, -18}}
    \cup {Leaf("float", v) : v \in {2, 1, 3, 5, -1, -3, 34}}
    \cup {Leaf("digits", v) : v \in {0, 18, 34}}
    \cup {Leaf("signed", -18), Leaf("blank", 18), Leaf("empty", 0), Leaf("prefix", 0),
          Leaf("text", 0), Leaf("bool", 2), Leaf("null", 0)}

Few == {Leaf("unsigned", 2), Leaf("integer", -2), Leaf("float", 3), Leaf("digits", 18),
        Leaf("bool", 2), Leaf("null", 0), Array(<< >>), Object(<< >>)}

One(v)    == Object(<<<<A, v>>>>)
Two(v, w) == Object(<<<<A, v>>, <<B, w>>>>)

(* The members of an object whose names meet once they are qualified.      *)
Meeting(v, w) == {<<A, One(v)>>, <<<<"a", ".", "a">>, w>>}
Listed(v, w)  == {<<A, Array(<<One(v), One(v)>>)>>, <<<<"a", "[0]", ".", "a">>, w>>}

MCDocuments ==
  {One(v) : v \in Leaves \cup {Array(<< >>)}}
    \cup {One(Array(<<v, w>>)) : v, w \in Leaves \cup {Array(<< >>)}}
    \cup {Object(<<<<B, v>>, <<A, w>>>>) : v, w \in Few}
    \cup {One(Two(v, w)) : v, w \in Few}
    \cup {One(Array(<<Two(u, v), Two(w, u)>>)) : u, v, w \in Few}
    \cup {One(Array(<<One(v), w>>)) : v, w \in Few}
    \cup {One(Array(<<Array(<<v>>), Array(<<w, v>>)>>)) : v, w \in Few}
    \cup {One(Array(<<Array(<<One(v)>>), w>>)) : v, w \in Few}
    \cup {Object(m) : m \in UNION {SetToSeqs(Meeting(v, w)) \cup SetToSeqs(Listed(v, w)) : v, w \in Few}}
=============================================================================
