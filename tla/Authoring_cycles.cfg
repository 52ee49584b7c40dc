SPECIFICATION Spec
CONSTANTS
  a = a
  b = b
  c = c
  d = d
  Ids <- MCIds
  InlineCode = TRUE
  Kinds <- MCKinds
  Config <- MCConfig
  Mapping <- MCMapping
  Tool <- MCTool
  Broken <- MCBroken
  Lists <- MCLists
  DraftKinds <- MCDraftKinds
  DraftIds <- MCDraftIds
  MaxNodes = 3
  MaxLinks = 2
  RecursionLimit = 4
INVARIANT AcceptedExecutes
CHECK_DEADLOCK FALSE
