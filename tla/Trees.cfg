SPECIFICATION MCSpec
CONSTANTS
  Agents = {a1, a2, a3, a4}
  NoAgent = NoAgent
  Cap = 3
  Names = {n1, n2, n3}
  Nowhere = nowhere
INVARIANTS TreeInv FanoutSound WalksAgree CapKeepsNearest ImportSound
PROPERTIES ReparentRepairs ParentSticky GuardsKeepForest WalksReturn
CHECK_DEADLOCK FALSE
