CONSTANTS
  StateSlots = {"auto", "1"}
  StateKeeps = {1}
  Prefs <- MCPrefs
  Default <- Both
  Foreign = {2}
  MaxStates = 3
  MaxCalls = 1
  MaxFaults = 1
SPECIFICATION FairSpec
PROPERTIES ReplacedStored TrimmedOld StatesSettle
