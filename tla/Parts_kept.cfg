\* Every order of the calls, files and faults of each part.
CONSTANTS
  Chosen = {"finding", "bios", "stores", "layouts", "room"}
  Bound <- Keeping
  p = p  q = q  x = x  y = y
  Calls = {c1, c2}
  CrashLimit = 3  Hands = {"ok", "bad"}  Requests = {"restart", "command", "stop", "call"}  MaxRequests = 3
  MaxGame = 2  Paths = {p, q}  Home <- FoundHome  Contents = {x, y}  Holds <- FoundHolds
  Callers = {user}  MaxFinds = 2  MaxChecks = 3
  Size <- FileSize  Retries = 2  MaxLapses = 1  MaxStops = 1
  GameVersions = {first, second, third}
  Firmware = {"boot", "font", "card"}  Platform <- FilePlatform  Name <- Apart
  Schemas = {1, 2, 3}  keepBackups = 1  Hosts = {home, away}  Tokens = {t1, t2}
  Shapes <- GameShapes  GameName = "game.m3u"  Systems <- GameSystems  MaxFiles = 3
  Order <- BatchOrder  Sizes <- BatchSizes  Archives = {"c"}  Card = {"b"}
  Capacity <- DriveCapacity  spaceMargin = 1
SPECIFICATION PartsSpec
INVARIANTS  FoundApart BackedUp BeforeOrAfter ChangeOffered SetWhole  PlanHolds
PROPERTIES PlacedOnce
CHECK_DEADLOCK FALSE
