SPECIFICATION Spec
CONSTANTS
  R = 3
  NBuckets = 2
  Boxes = {b1, b2}
  Keys <- MCKeys
  Values <- MCValues
  Hash <- MCHash
  Absent = Absent
INVARIANTS
  TypeOK
  Filed
  Accounted
  EqualMeansSame
  WireIsBox
SYMMETRY Symmetry
VIEW View
PROPERTY IsMap
