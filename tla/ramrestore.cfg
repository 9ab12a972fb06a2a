CONSTANTS
  Gens = {g1, g2}
  Full = {g1}
  Orig = Orig
  Local = Local
  NoOne = NoOne
  r1 = r1
  r2 = r2
  s1 = s1
  l1 = l1
  Restorers <- MCRestorers
  Snapshotters <- MCSnapshotters
  Launchers <- MCLaunchers
  Casts <- MCCasts
SPECIFICATION LiveSpec
INVARIANTS TransactionInv
PROPERTIES NothingLost SnapshotConsistent RollbackCompletes SuccessMeansReplaced Atomic LockGivenBack
CHECK_DEADLOCK FALSE
