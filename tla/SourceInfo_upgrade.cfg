SPECIFICATION MCSpec
CONSTANTS
  c1 = c1
  c2 = c2
  Callers <- MCCallers
  Files <- MCFiles
  Imports <- MCImports
  Needs <- MCNeeds
  InitOrder = TRUE
  None = None
SYMMETRY CallerSymmetry
INVARIANTS
  ReferencesUpgraded
  OneAnswer
  FailuresAreReal
  OneInfo
