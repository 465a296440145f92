SPECIFICATION MCFairSpec
CONSTANTS
  Callers = {c1, c2}
  Urls = {u1, u2}
  Kinds = {message, enum}
  Entries = {e1, e2, e3, e4}
  NoEntry = NoEntry
  ParLimit = 1
INVARIANTS TypeOK FetchedOnce ErrorsAreFresh WithinLimit
PROPERTIES ImplementsMemo CallsReturn
