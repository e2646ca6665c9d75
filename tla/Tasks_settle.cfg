\* Every crash, restart and stop of the backend; every end of a search; every answer a request can get, next to changes of RomM's
\* files, a lapse and a stop; every order of checks, downloads and the user's calls.
CONSTANTS
  Chosen = {"relay", "finding", "transfer", "updates"}
  Bound <- Settling
  p = p  q = q  x = x  y = y
  Calls = {c1, c2, c3}
  CrashLimit = 3  Hands = {"ok", "bad"}  Requests = {"restart", "command", "stop", "call"}  MaxRequests = 3
  MaxGame = 2  Paths = {p, q}  Home <- FoundHome  Contents = {x, y}  Holds <- FoundHolds
  Callers = {user}  MaxFinds = 2  MaxChecks = 3
  Size <- FileSize  Retries = 2  MaxLapses = 1  MaxStops = 1
  GameVersions = {first, second, third}
  Firmware = {"boot", "font", "card"}  Platform <- FilePlatform  Name <- Apart
  Schemas = {1, 2, 3}  keepBackups = 1  Hosts = {home, away}  Tokens = {t1, t2}
  Shapes <- GameShapes  GameName = "game.m3u"  Systems <- GameSystems  MaxFiles = 3
  Order <- BatchOrder  Sizes <- BatchSizes  Archives = {"c"}  Card = {"b"}
  Capacity <- DriveCapacity  spaceMargin = 1
SPECIFICATION PartsFairSpec
INVARIANTS CallsServed 
PROPERTIES GivesUp RestartsHeard FindSettles Ends FlagSettles
CHECK_DEADLOCK FALSE
