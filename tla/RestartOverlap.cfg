\* A restart that overlaps with a spawn.
SPECIFICATION Spec
CONSTANTS
  Ops = {"spawn", "restart"}
  Backends = {"tmux"}
  DefaultBackend = "tmux"
  Default = sess
  Alternate = sess_new
  AmbientIds = {}
  OwnNames = {}
  None = none
  Handlers = {h1, h2}
  Objects = {o1, o2, o3, o4}
INVARIANT Tracked
