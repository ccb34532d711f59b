CONSTANTS
  Agents = {a1}
  SpaceRow = SpaceRow
  MaxTasks = 2
  MaxEdits = 2
  Handlers = {h1, h2}
  NoHandler = NoHandler
  Stored = stored
  Spellings = {stored}
SPECIFICATION Spec
INVARIANT
  Durable
CHECK_DEADLOCK FALSE
