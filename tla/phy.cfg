CONSTANTS
  Cells <- MCCells
  Vals = {0, 1}
  Steps <- MCSteps
  Prefix = 7
SPECIFICATION Spec
INVARIANTS PhyInv RestoredOrReported
CHECK_DEADLOCK FALSE
