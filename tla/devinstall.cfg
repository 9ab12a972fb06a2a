CONSTANTS
  p1 = p1
  cc = cc
  Installers = {p1, p2, p3}
  Links = {cc}
  Provides <- MCProvides
  Old = Old
  Foreign = Foreign
  Absent = Absent
  Torn = Torn
  NoOne = NoOne
SPECIFICATION LiveSpec
INVARIANTS TypeOK OldSurvives
PROPERTIES EndsWhole Atomic LockGivenBack
CHECK_DEADLOCK FALSE
