SPECIFICATION Spec
CONSTANTS
  frame = frame
  label = label
  corner = corner
  unknown = unknown
  inst = inst
  hover = hover
  nostate = nostate
  Name <- MCName
  Known <- MCKnown
  Pseudo <- MCPseudo
  State <- MCState
  Instance <- inst
  Lists <- LostLists
  Parents <- MCNestedOnly
INVARIANT
  EverySelectorCounts
