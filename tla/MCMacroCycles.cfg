SPECIFICATION FairSpec
CONSTANTS
  a = a
  b = b
  c = c
  NoBody = NoBody
  Key <- MCKey
  CallLists <- MCCallLists
INVARIANTS
  TypeOK
  ReportsAreRecursive
  SilentMeansAcyclic
  ReportedOnce
PROPERTIES
  Termination
