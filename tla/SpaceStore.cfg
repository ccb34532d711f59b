CONSTANTS
  Agents = {a1, a2}
  SpaceRow = SpaceRow
  MaxTasks = 2
  MaxEdits = 4
  Handlers = {h1}
  NoHandler = NoHandler
  Stored = stored
  Spellings = {stored}
  PairAgents = {a1}
  Pair = {h1, h2}
  PairSpellings = {stored, variant}
  PairEdits = 3
  Names = {n1, n2}
  Requests = {q1}
SPECIFICATION MCSpec
INVARIANTS
  Durable
  NumbersAhead
  StoreInv
  SpacesTrue
PROPERTIES
  WrittenThrough
  
CHECK_DEADLOCK FALSE
