SPECIFICATION FairSpec
CONSTANTS
  v1 = v1
  v2 = v2
  None = None
  NoMacroKey = NoMacroKey
  Nil <- None
  NoKey <- NoMacroKey
  Key <- MCKey
  Name <- MCName
  Value <- MCValue
  Expr <- MCExpr
  Item <- MCItem
  Selector <- MCSelector
  Coerce <- MCCoerce
  Builtins <- MCBuiltins
  Programs <- MCPrograms
INVARIANTS
  TypeOK
  ArgumentsPointOutward
  ActiveIsOpenExpansions
  TreeWellFormed
  BlocksFollowTree
  SelectorsNormal
  UnwindsCompletely
  CompilesToMeaning
PROPERTIES
  OnlyCurrentChanges
  Termination
