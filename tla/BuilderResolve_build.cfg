SPECIFICATION Spec
CONSTANTS
  A = A
  B = B
  M = M
  N = N
  E = E
  X = X
  tempM = tempM
  tempN = tempN
  tempE = tempE
  samePath = samePath
  Files <- MCFiles
  Standalone <- MCStandalone
  Foreign <- MCForeign
  Temps <- MCTemps
  Temp <- MCTemp
  MayRefer <- MCMayRefer
  Paths <- MCPaths
  NoPath = NoPath
  ForeignPath <- MCForeignPath
  Invalid <- MCInvalid
  SameName <- MCSameName
  NoFile = NoFile
INVARIANTS
  BuiltIsComplete
  FailuresHaveReason
  BuildersRestored
