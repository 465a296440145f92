SPECIFICATION LiveSpec
CONSTANTS
  c1 = c1
  c2 = c2
  r1 = r1
  r2 = r2
  Callers <- MCCallers
  Requests <- MCOneRequest
  Nobody = Nobody
  Hour = 0
  MaxClock = 1
PROPERTIES
  CallsReturn
  ImplementsChannel
