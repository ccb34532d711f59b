SPECIFICATION Spec
CONSTANTS
  Agents = {a1, a2}
  NoAgent = NoAgent
  Handlers = {h1, h2}
  MaxTasks = 2
  NoticeCap = 2
INVARIANTS TasksInv SubtaskLinks AssigneeTold
PROPERTY UnreadNoticeKept
CHECK_DEADLOCK FALSE
SYMMETRY Symmetry
