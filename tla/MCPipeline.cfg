SPECIFICATION Spec
CONSTANTS
  v1 = v1
  v2 = v2
  None = None
  NoMacroKey = NoMacroKey
  NoBodyCalls = NoBodyCalls
  Nil <- None
  NoKey <- NoMacroKey
  Key <- MCKey
  Name <- MCName
  Value <- MCValue
  Expr <- MCExpr
  Item <- MCItem
  Levels <- MCLevels
  Selector <- MCSelector
  Coerce <- MCCoerce
  Builtins <- MCBuiltins
  Files <- MCFiles
INVARIANTS
  SilentCallsExpand
  SilentSelectorsExpand
  SilentArgumentsBound
  SilentExpansionsFollowGraph
