SPECIFICATION MCSpec
CONSTANTS
  a1 = a1
  a2 = a2
  Agents = {a1, a2}
  Clients = {a1}
  Removable = {a1}
  Targets <- MCTargets
  Savers = {w1}
  MaxStamp = 3
  MaxCopied = 2
  MaxFlying = 2
  PageSize = 1
  ReadCap = 1
  QueryLimit = 2
  LoadCap = 1
  Staff = {s1}
  Bearers = {s1}
  Requests = {r1, r2}
  Prompts = {p1, p2}
  MaxVersion = 3
  Overlap = FALSE
  Starters = {t1, t2}
  Checks = {c1}
  MaxTokens = 3
INVARIANTS InboxInv DirectDurable NothingSkipped HistoryKept OutdatedShown SessionHeard
PROPERTIES UnreadKept
