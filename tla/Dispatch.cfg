SPECIFICATION Spec
CONSTANTS
  c1 = c1
  c2 = c2
  r1 = r1
  r2 = r2
  s1 = s1
  s2 = s2
  s3 = s3
  sum = sum
  div = div
  NBuckets = 2
  AskKeys = {0, 2}
  Callbacks = {c1, c2}
  Responders = {r1, r2}
  Strings = {s1, s2, s3}
  Text <- MCText
  Commands = {sum, div}
  CommandHash <- MCCommandHash
  Absent = Absent
INVARIANTS
  TypeOK
  KeysReadable
  OwnedOnce
SYMMETRY Symmetry
PROPERTY IsMap
