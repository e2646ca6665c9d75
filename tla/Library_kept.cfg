\* A refresh in pages of one next to changes on RomM, a change of servers and a failure.
CONSTANTS
  a = a
  Contents = {a}
  MaxId = 2
  PageSize = 1
  MaxChanges = 2
  MaxCalls = 1
  MaxFaults = 1
SPECIFICATION FairSpec
INVARIANTS Covered 
PROPERTIES RecordsShown Retried
CHECK_DEADLOCK FALSE
