SPECIFICATION LiveSpec
CONSTANTS
  Slots = {"autosave", "other"}
  Autosave = "autosave"
  Keep = 1
  Skew = 0
  MaxContents = 2
  MaxCalls = 1
  MaxRemoved = 1
  MaxFaults = 1
INVARIANT RecordTrue
PROPERTIES ReplacedKept 
CHECK_DEADLOCK FALSE
