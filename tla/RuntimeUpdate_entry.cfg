SPECIFICATION Spec
CONSTANTS
  u1 = u1
  u2 = u2
  r1 = r1
  t1 = t1
  t2 = t2
  t2b = t2b
  t3 = t3
  absent = absent
  foreign = foreign
  none = none
  Updater <- MCUpdater2
  Runner <- MCRunner
  Target <- MCTarget
  NoTarget = none
  Ver <- MCVer
  NumPaths = 5
  Release <- MCRelease
  Absent = absent
  Foreign = foreign
  FirstTarget = t1
  MaxFaults = 3
INVARIANTS
  RecoveryEntryExists
