SPECIFICATION Spec
CONSTANTS
  DBSIZ = 5
  W = 4
  NBLOCKS = 20
  MaxRuns = 2
  MaxFaults = 1
  Tasks = {t1, t2}
  Archives <- MCArchives
  Vacant <- MCVacant
  Ops <- MCOps
SYMMETRY Symmetry
INVARIANTS
  CrashSafe
  BlocksOwned
  ReadsAreFaithful
  NucleusLoads
PROPERTY CatalogKept
CHECK_DEADLOCK FALSE
