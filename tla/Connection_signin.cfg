SPECIFICATION Spec
CONSTANTS
  s1 = s1
  t1 = t1
  t2 = t2
  w1 = w1
  Threads = {t1, t2}
  Waiters = {w1}
  Servers = {s1}
  NoServer = NoServer
  MaxTokens = 2
  MaxPairings = 0
  MaxFaults = 1
  MaxSaves = 1
  Calls = {"signIn", "signOut", "forget", "move", "request", "revoke"}
SYMMETRY Symmetry
PROPERTY EndsForReason
CHECK_DEADLOCK FALSE
