CONSTANTS
  Savers = {s1, s2, s3}
  Restorers = {r1}
  Bases = {b1, b2}
  Missing = Missing
  Torn = Torn
  NoOne = NoOne
  Careful = {s3}
SPECIFICATION Spec
INVARIANTS InterruptedKeepsCurrent
SYMMETRY StoreSymmetry
CHECK_DEADLOCK FALSE
