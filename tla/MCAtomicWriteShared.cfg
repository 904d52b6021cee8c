SPECIFICATION Spec
CONSTANTS
  w1 = w1
  w2 = w2
  w3 = w3
  short = short
  long = long
  Writers = {w1, w2, w3}
  Remover = {}
  Values = {short, long}
  Size <- MCSize
  Absent = Absent
  Nobody = Nobody
INVARIANTS
  AlwaysReadable
