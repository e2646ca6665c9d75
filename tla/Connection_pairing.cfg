SPECIFICATION FairSpec
CONSTANTS
  s1 = s1
  t1 = t1
  t2 = t2
  w1 = w1
  Threads = {t1, t2}
  Waiters = {w1}
  Servers = {s1}
  NoServer = NoServer
  MaxTokens = 1
  MaxPairings = 2
  MaxFaults = 0
  MaxSaves = 1
  Calls = {"start", "cancel", "signOut"}
PROPERTIES WaitersWake PairingEnds
CHECK_DEADLOCK FALSE
