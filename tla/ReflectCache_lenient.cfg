SPECIFICATION MCSpec
CONSTANTS
  c1 = c1
  c2 = c2
  Callers <- MCCallers
  Files <- MCFiles
  Imports <- MCImports
  Needs <- MCNeeds
  Answers <- MCAnswers
  Fallback = {"base"}
  AllowMissing = TRUE
SYMMETRY CallerSymmetry
INVARIANTS
  TypeOK
  FailuresAreReal
  AnswersAreRight
  RegistryIsComplete
PROPERTY
  ImplementsLookupSafely
