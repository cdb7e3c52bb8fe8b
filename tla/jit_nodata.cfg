CONSTANTS
  Word = 8
  U32_MAX = 4
  Sections <- SomeSections
  Nothing = Nothing
SPECIFICATION IndexSpec
INVARIANT RegisteredHasData
