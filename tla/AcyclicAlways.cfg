CONSTANTS
  Agents = {a1, a2, a3}
  NoAgent = NoAgent
SPECIFICATION Spec
INVARIANT
  Acyclic
CHECK_DEADLOCK FALSE
