SPECIFICATION Spec
CONSTANTS
  F = F
  M1 = M1
  M2 = M2
  O = O
  x = x
  y = y
  gf = gf
  G = G
  e = e
  Plain <- MCPlain
  Messages <- MCMessages
  Oneofs <- MCOneofs
  Fields <- MCFields
  Leaves <- MCLeaves
  Names <- MCNames
  Capital <- MCCapital
  FirstName <- MCFirstName
  GroupName <- MCGroupName
  Group <- MCGroup
  Holds <- MCHolds
  Renamed <- MCRenamed
  NewNames <- MCNewNames
  MaxTag = 2
  NewNumbers <- MCNewNumbers
  Avoids = {"looseOneof", "groupChoice", "groupName"}
  NoBuilder = NoBuilder
PROPERTY RefusalsChangeNothing
