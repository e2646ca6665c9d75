SPECIFICATION Spec
CONSTANTS
  g1 = g1
  t1 = t1
  t2 = t2
  Games = {g1}
  Threads = {t1, t2}
  NoGame = NoGame
  Limit = 1
  MaxCalls = 3
  MaxStops = 2
  Changes = {"owned", "game"}
SYMMETRY Symmetry
  
PROPERTY LeavesDone
CHECK_DEADLOCK FALSE
