SPECIFICATION Spec
CONSTANTS
  a1 = a1
  a2 = a2
  a3 = a3
  f1 = f1
  f2 = f2
  f3 = f3
  Left <- MCLeft
  Right <- MCRight
INVARIANTS
  TypeOK
  BothWaysAgree
PROPERTIES
  NoneEmptied
  IsRelation
