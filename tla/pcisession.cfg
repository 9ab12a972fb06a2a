CONSTANTS
  Unbinders = {u1, u2}
  Caller = Caller
  Loader = Loader
  NoOne = NoOne
  NSlots = 8
  Capacity = 26
  MaxWrites = 1
SPECIFICATION SessionLiveSpec
INVARIANTS TeardownSafe VectorsMatch ConfigRestored ControlsFit
PROPERTIES FenceKept SessionEnds
CHECK_DEADLOCK FALSE
