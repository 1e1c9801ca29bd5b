SPECIFICATION Spec
CONSTANTS
  Files <- MCFiles
INVARIANTS
  TypeOK
  NothingLost
  SilentComplete
  ReadAsMeant
PROPERTY
  Progress
