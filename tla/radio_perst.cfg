CONSTANTS
  OptionSets <- Session
  NDoms = 1
  Baselines <- OnlyClean
SPECIFICATION Spec
INVARIANTS PoweredMeansInReset
CHECK_DEADLOCK FALSE
