CONSTANTS
  Callers = {c1, c2}
  c1 = c1
  c2 = c2
  A = A
  B = B
  E = E
  T = T
  D = D
  X = X
  G = G
  f1 = f1
  f2 = f2
  f3 = f3
  f4 = f4
  f5 = f5
  f6 = f6
  NoUrl = NoUrl
  NoFile = NoFile
  Names <- MCNames
  Urls <- MCUrls
  Files <- MCFiles
  TypeName <- MCTypeName
  DefaultURL <- MCDefaultURL
  Enums <- MCEnums
  Home <- MCHome
  Fields <- MCFields
  NestedRefs <- MCNestedRefs
  Served <- MCServed
  Fallback <- MCFallback
  Program <- MCProgram
  Wanted <- MCWanted
SPECIFICATION MCFairSpec
INVARIANTS TypeOK CacheIsClosed ConversionsAreComplete  FoundIsKept
PROPERTY FindsReturn
