CONSTANTS
  c1 = c1
  c2 = c2
  s1 = s1
  j1 = j1
  j2 = j2
  Process = {c1, c2, s1}
  Script = {s1}
  Json = {j1, j2}
  Witness <- MCWitness
  Hole = "hole"
  NoProcess = NoProcess
SPECIFICATION Spec
SYMMETRY Symmetry
INVARIANTS
  LastIsWhole
  ElementsInPlace
CHECK_DEADLOCK FALSE
