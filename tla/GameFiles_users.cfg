SPECIFICATION Spec
CONSTANTS
  g1 = g1
  g2 = g2
  p1 = p1
  p2 = p2
  p3 = p3
  User = User
  Nobody = Nobody
  Games = {g1}
  Paths = {p1, p2, p3}
  Layout <- Renames
  MaxVer = 2
  Env = {"edit", "stop", "fetch", "place", "moved", "beside", "rename", "save", "remove", "check", "tangle"}
  MaxEdits = 1
  MaxFaults = 1
  MaxStops = 1
INVARIANTS  RecordTrue
PROPERTY UserFilesKept
CHECK_DEADLOCK FALSE
