SPECIFICATION MCSpec
CONSTANTS
  Ops = {"spawn", "create", "stop", "restart", "restartall", "delete", "status", "ignite", "discover"}
  Backends = {"tmux", "ambient"}
  DefaultBackend = "tmux"
  Default = sess
  Alternate = sess_new
  AmbientIds = {amb1, amb2}
  OwnNames = {own}
  None = none
  Handlers = {h1, h2}
  Lone = h1
  Objects = {o1, o2, o3, o4}
  Watched = {a1}
  Answerers = {h1}
  MaxWaits = 2
  MaxRows = 2
  MaxRuns = 2
INVARIANTS TrackedInv SpawnsExclude OneRowPerWait
PROPERTIES SpawnFreed Listed
