CONSTANTS
  Agents = {a1, a2}
  NoAgent = NoAgent
SPECIFICATION Spec
INVARIANT
  MutexReleased
CHECK_DEADLOCK FALSE
