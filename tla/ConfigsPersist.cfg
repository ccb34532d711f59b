CONSTANTS
  Agents = {a1, a2}
  SpaceRow = SpaceRow
  MaxTasks = 1
  MaxEdits = 2
  Handlers = {h1}
  NoHandler = NoHandler
  Stored = stored
  Spellings = {stored}
SPECIFICATION Spec
INVARIANT
  ConfigsPersist
CHECK_DEADLOCK FALSE
