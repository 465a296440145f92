SPECIFICATION MCFairSpec
CONSTANTS
  c1 = c1
  c2 = c2
  Callers <- MCCallers
  Files <- MCSmallFiles
  Imports <- MCSmallImports
  Needs <- MCSmallNeeds
  Answers <- MCSmallAnswers
  Fallback = {}
  AllowMissing = FALSE
PROPERTIES
  QueriesReturn
  ImplementsLookup
