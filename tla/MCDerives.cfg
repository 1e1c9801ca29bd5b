SPECIFICATION FairSpec
CONSTANTS
  f1 = f1
  f2 = f2
  base = base
  nowhere = nowhere
  none = none
  File <- MCFile
  Alias <- MCAlias
  Place <- MCPlace
  Disks <- MCDisks
  Sources <- MCSources
  Tables <- MCTables
  None = none
  MaxEdits = 3
INVARIANTS
  UsersListed
  DiffExact
  ResultsFresh
PROPERTIES
  Returns
CHECK_DEADLOCK FALSE
