\* A stop that overlaps with status posts.
SPECIFICATION FairSpec
CONSTANTS
  Ops = {"spawn", "stop", "status"}
  Backends = {"tmux"}
  DefaultBackend = "tmux"
  Default = sess
  Alternate = sess_new
  AmbientIds = {}
  OwnNames = {}
  None = none
  Handlers = {h1, h2}
  Objects = {o1, o2, o3, o4}
PROPERTY StopMarksDone
