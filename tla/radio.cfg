CONSTANTS
  OptionSets <- MCOptionSets
  NDoms = 2
  Baselines <- MCBaselines
SPECIFICATION LiveSpec
PROPERTIES SignalEndsHold
INVARIANTS TypeOK SuccessIsClean NeverUnreset ObjectsOutlive LayersNested
CHECK_DEADLOCK FALSE
