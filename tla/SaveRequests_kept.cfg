\* A write, a call of the user's and a failure at any step of a worker and a caller.
SPECIFICATION LiveSpec
CONSTANTS
  e1 = e1
  g1 = g1
  w1 = w1
  c1 = c1
  Games = {g1}
  Emus = {e1}
  EmuOf <- OneEmu
  Workers = {w1}
  Callers = {c1}
  MaxWrites = 1
  MaxAsks = 1
  MaxFaults = 1
VIEW Plain
 
PROPERTIES Coalesces WaitingEnds
CHECK_DEADLOCK FALSE
