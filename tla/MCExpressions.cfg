SPECIFICATION Spec
CONSTANTS
  Files <- OneFile
INVARIANT
  ReadAsDocumented
